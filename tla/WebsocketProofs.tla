---------------------------- MODULE WebsocketProofs ----------------------------
(***************************************************************************)
(* Theorems about who is in a channel, whom a broadcast misses and what a  *)
(* subscriber is shown, for any browsers, channels and intervals.          *)
(***************************************************************************)
EXTENDS Websocket, SequenceTheorems, FiniteSetTheorems, WellFoundedInduction, TLAPS

-----------------------------------------------------------------------------
(* The sockets. *)

\* The sockets' part of the types.
SocketTypes ==
  /\ conn \in [Clients -> {"none", "handshake", "open", "closing"}]
  /\ token \in [Clients -> {"none", "valid", "expired"}]
  /\ m_clients \in [Channels -> SUBSET Clients]

\* The server knows exactly the connections whose OnOpen has run and whose OnClose
\* has not.
ConnectionsKnown == m_connections = {c \in Clients : conn[c] \in {"open", "closing"}}

SocketInv == SocketTypes /\ ConnectionsKnown /\ ClientsKnown

LEMMA InitSockets == Init => SocketInv
BY DEF Init, SocketInv, SocketTypes, ConnectionsKnown, ClientsKnown

\* A connection that opens is in no channel yet; one that closes is left in its channels.
LEMMA ConnectionKeeps ==
  ASSUME SocketInv, NEW c \in Clients, Connect(c) \/ HandshakeFails(c) \/ OnOpen(c) \/ Drop(c)
  PROVE  SocketInv'
<1> USE DEF SocketInv, SocketTypes, ConnectionsKnown, ClientsKnown, broadcasts, stats
<1>1. CASE Connect(c)
  BY <1>1 DEF Connect
<1>2. CASE HandshakeFails(c)
  BY <1>2 DEF HandshakeFails
<1>3. CASE OnOpen(c)
  BY <1>3 DEF OnOpen
<1>4. CASE Drop(c)
  BY <1>4 DEF Drop, Close
<1> QED  BY <1>1, <1>2, <1>3, <1>4

\* OnClose leaves the connection in no channel.
LEMMA OnCloseKeeps ==
  ASSUME SocketInv, NEW c \in Clients, OnClose(c)
  PROVE  SocketInv'
<1> USE DEF SocketInv, SocketTypes, ConnectionsKnown, ClientsKnown
<1>1. /\ conn[c] = "closing" /\ c \in m_connections
      /\ conn' = [conn EXCEPT ![c] = "none"]
      /\ m_connections' = m_connections \ {c}
      /\ token' = token
  BY DEF OnClose
<1>2. m_clients' = [ch \in Channels |-> m_clients[ch] \ {c}]
  BY <1>1 DEF OnClose, EraseFrom, EveryChannel
<1>3. SocketTypes' /\ ConnectionsKnown'
  BY <1>1, <1>2
<1>4. ClientsKnown'
  BY <1>1, <1>2
<1> QED  BY <1>3, <1>4

\* Tokens change or are looked at; who passes the test may enter a channel.
LEMMA MessageKeeps ==
  ASSUME SocketInv, NEW c \in Clients,
         \/ Login(c) \/ LoadRequest(c) \/ Expire(c)
         \/ \E ch \in used : Subscribe(c, ch) \/ Unsubscribe(c, ch)
  PROVE  SocketInv'
<1> USE DEF SocketInv, SocketTypes, ConnectionsKnown, ClientsKnown, broadcasts, stats
<1>1. CASE Login(c)
  BY <1>1 DEF Login
<1>2. CASE LoadRequest(c)
  BY <1>2 DEF LoadRequest
<1>3. CASE Expire(c)
  BY <1>3 DEF Expire
<1>4. ASSUME NEW ch \in used, Subscribe(c, ch)
      PROVE  SocketInv'
  <2>1. conn[c] = "open" /\ token[c] = "valid" /\ c \in m_connections
    BY <1>4 DEF Subscribe, CheckAuthenticated
  <2> QED  BY <1>4, <2>1 DEF Subscribe
<1>5. ASSUME NEW ch \in used, Unsubscribe(c, ch)
      PROVE  SocketInv'
  BY <1>5 DEF Unsubscribe, EraseFrom
<1> QED  BY <1>1, <1>2, <1>3, <1>4, <1>5

LEMMA SocketsUnchanged ==
  ASSUME SocketInv, UNCHANGED <<conn, token, m_connections, m_clients>>
  PROVE  SocketInv'
BY DEF SocketInv, SocketTypes, ConnectionsKnown, ClientsKnown

\* Stop closes connections, and what they have subscribed to stays until OnClose.
LEMMA CloseAllKeeps == SocketInv /\ CloseAll => SocketInv'
BY DEF SocketInv, SocketTypes, ConnectionsKnown, ClientsKnown, CloseAll, Close, CloseOpen, stats

LEMMA NextSockets == SocketInv /\ [Next]_vars => SocketInv'
<1> SUFFICES ASSUME SocketInv, [Next]_vars PROVE SocketInv'
  OBVIOUS
<1>1. CASE \E c \in Clients : Server(c) \/ Expire(c)
  BY <1>1, ConnectionKeeps, OnCloseKeeps, MessageKeeps DEF Server
<1>2. CASE CloseAll
  BY <1>2, CloseAllKeeps
<1>3. CASE HandleLoadRequest \/ RunReturns \/ EventThread \/ Tick \/ LoadThread
  BY <1>3, SocketsUnchanged
     DEF HandleLoadRequest, RunReturns, EventThread, Tick, LoadThread, Wake, CheckLoad,
         CheckTemp, LoadSend, LoadSent, LoadThrows, sockets
<1>4. CASE Stop \/ ServerJoined \/ StopThread \/ LoadJoined
  BY <1>4, SocketsUnchanged DEF Stop, ServerJoined, StopThread, LoadJoined, sockets
<1>5. CASE \E t \in Senders : FollowDangling(t)
  BY <1>5, SocketsUnchanged DEF FollowDangling, sockets
<1>6. CASE UNCHANGED vars
  BY <1>6, SocketsUnchanged DEF vars, sockets
<1> QED  BY <1>1, <1>2, <1>3, <1>4, <1>5, <1>6 DEF Next, Step, Ended

\* However connections, logins, subscriptions, broadcasts and Stop interleave, no
\* channel keeps a closed connection or one that never carried a token
\* (WebsocketCommunication::OnClose and OnMessage, WebsocketChannel).
THEOREM OnlyKnownClients == Spec => []ClientsKnown
<1>1. SocketInv => ClientsKnown
  BY DEF SocketInv
<1> QED  BY <1>1, InitSockets, NextSockets, PTL DEF Spec

-----------------------------------------------------------------------------
(* The broadcasts. *)

LoadStates == {"waiting", "checkLoad", "sendLoad", "checkTemp", "sendTemp", "ended"}
Sending == {"sendLoad", "sendTemp"}

SenderTypes ==
  /\ used \subseteq Channels /\ handling \in Clients \cup {None}
  /\ load \in LoadStates
  /\ cursor \in [Senders -> Clients \cup {None, Dangling}]
  /\ owed \in [Senders -> SUBSET Clients]

\* A sender stands at a subscriber, unless that was erased, and the open ones it has
\* not reached are there or behind it.
InPlace(t) ==
  /\ cursor[t] \in m_clients[ChannelOf(t)] \cup {None, Dangling}
  /\ cursor[t] = None => owed[t] = {}
  /\ \A c \in owed[t] :
       /\ c \in m_clients[ChannelOf(t)] /\ conn[c] = "open"
       /\ cursor[t] \in Clients => cursor[t] <= c

SendersInPlace == \A t \in Senders : InPlace(t)

LoadInPlace == load \notin Sending => cursor["load"] = None

SenderInv == SenderTypes /\ SendersInPlace /\ LoadInPlace

-----------------------------------------------------------------------------
\* A set of numbers that is not empty has a least element.
LEMMA LeastExists ==
  ASSUME NEW S \in SUBSET Nat, S # {}
  PROVE  \E x \in S : \A y \in S : x <= y
<1> DEFINE T == {0..x : x \in S}
<1>1. T \subseteq FiniteSubsetsOf(Nat) /\ T # {}
  <2>1. \A x \in S : IsFiniteSet(0..x) /\ 0..x \in SUBSET Nat
    BY FS_Interval
  <2>2. \A x \in S : 0..x \in FiniteSubsetsOf(Nat)
    BY <2>1 DEF FiniteSubsetsOf
  <2> QED  BY <2>2
<1>2. PICK x \in S : \A y \in S : <<0..y, 0..x>> \notin StrictSubsetOrdering(Nat)
  <2> HIDE DEF T
  <2>1. PICK s \in T : \A u \in T : <<u, s>> \notin StrictSubsetOrdering(Nat)
    BY <1>1, FS_StrictSubsetOrderingWellFounded, WFMin
  <2> QED  BY <2>1 DEF T
<1>3. \A y \in S : x <= y
  <2> SUFFICES ASSUME NEW y \in S, y < x PROVE FALSE
    OBVIOUS
  <2>1. /\ 0..y \in SUBSET Nat /\ 0..x \in SUBSET Nat
        /\ 0..y \subseteq 0..x /\ x \in 0..x /\ x \notin 0..y
    OBVIOUS
  <2>2. <<0..y, 0..x>> \in StrictSubsetOrdering(Nat)
    BY <2>1 DEF StrictSubsetOrdering
  <2> QED  BY <2>2, <1>2
<1> QED  BY <1>3


\* The next client of a channel: none, or the first one behind.
LEMMA NextClientProperties ==
  ASSUME SocketInv, NEW ch \in Channels, NEW c
  PROVE  LET d == NextClient(ch, c)
         IN  \/ d = None /\ After(ch, c) = {}
             \/ d \in m_clients[ch] /\ d > c /\ \A e \in After(ch, c) : d <= e
<1> DEFINE S == After(ch, c)
<1>1. S \subseteq m_clients[ch] /\ m_clients[ch] \subseteq Clients /\ \A d \in S : d > c
  BY DEF After, SocketInv, SocketTypes
<1>2. S \in SUBSET Nat
  BY <1>1, WebsocketAssumption
<1> HIDE DEF S
<1>3. CASE S = {}
  BY <1>3 DEF NextClient, S
<1>4. CASE S # {}
  <2>1. Min(S) \in S /\ \A e \in S : Min(S) <= e
    BY <1>2, <1>4, LeastExists DEF Min
  <2> QED  BY <1>1, <1>4, <2>1 DEF NextClient, S
<1> QED  BY <1>3, <1>4

LEMMA TheChannels == \A t \in Senders : ChannelOf(t) \in Channels
BY WebsocketAssumption DEF Senders, ChannelOf

\* Nobody is called None or Dangling.
LEMMA ClientsAreNumbers == \A c \in Clients : c \in Nat /\ c # None /\ c # Dangling /\ c > None
BY WebsocketAssumption DEF None, Dangling

\* A broadcast begins with everybody before it.
LEMMA BeginKeeps ==
  ASSUME SocketInv, SenderInv, NEW t \in Senders, Begin(t), UNCHANGED <<used, sockets>>,
         load' \in LoadStates, t = "load" \/ UNCHANGED load, t = "load" => load' \in Sending
  PROVE  SenderInv'
<1> DEFINE ch == ChannelOf(t)
<1> USE DEF sockets
<1>1. ch \in Channels /\ m_clients[ch] \subseteq Clients
  BY TheChannels DEF SocketInv, SocketTypes
<1>2. /\ cursor' = [cursor EXCEPT ![t] = NextClient(ch, None)]
      /\ owed' = [owed EXCEPT ![t] = {c \in m_clients[ch] : conn[c] = "open"}]
  BY DEF Begin
<1> DEFINE d == NextClient(ch, None)
<1>3. \/ d = None /\ m_clients[ch] = {}
      \/ d \in m_clients[ch] /\ \A e \in m_clients[ch] : d <= e
  <2>1. After(ch, None) = m_clients[ch]
    BY <1>1, ClientsAreNumbers DEF After
  <2> QED  BY <1>1, <2>1, NextClientProperties
<1> HIDE DEF d, ch
<1>4. SenderTypes'
  BY <1>1, <1>2, <1>3 DEF SenderInv, SenderTypes, d
<1>5. InPlace(t)'
  BY <1>1, <1>2, <1>3, ClientsAreNumbers DEF InPlace, d, ch, SenderInv, SenderTypes
<1>6. \A u \in Senders \ {t} : InPlace(u)'
  BY <1>2 DEF InPlace, SenderInv, SenderTypes, SendersInPlace
<1>7. LoadInPlace'
  BY <1>2 DEF SenderInv, SenderTypes, LoadInPlace, Senders
<1> QED  BY <1>4, <1>5, <1>6, <1>7 DEF SenderInv, SendersInPlace

\* When the one at which a sender stands is the last, no other is owed anything.
LEMMA SendToKeeps ==
  ASSUME SocketInv, SenderInv, NEW t \in Senders, SendTo(t), UNCHANGED <<used, sockets, load>>,
         t = "load" => load \in Sending
  PROVE  /\ SenderInv'
         /\ cursor'[t] = None => owed[t] \subseteq {cursor[t]}
<1> DEFINE ch == ChannelOf(t)
           d  == NextClient(ch, cursor[t])
<1> USE DEF sockets
<1>1. /\ ch \in Channels /\ m_clients[ch] \subseteq Clients
      /\ cursor[t] \in Clients /\ cursor[t] \in Nat
  BY TheChannels, ClientsAreNumbers DEF SocketInv, SocketTypes, SendTo
<1>2. /\ cursor' = [cursor EXCEPT ![t] = d] /\ cursor'[t] = d
      /\ owed' = [owed EXCEPT ![t] = IF d = None THEN {} ELSE @ \ {cursor[t]}]
  BY DEF SendTo, SenderInv, SenderTypes
<1>3. \/ d = None /\ After(ch, cursor[t]) = {}
      \/ d \in m_clients[ch] /\ \A e \in After(ch, cursor[t]) : d <= e
  BY <1>1, NextClientProperties
<1> DEFINE x == cursor[t]
<1>10. InPlace(t)
  BY DEF SenderInv, SendersInPlace
<1>4. \A c \in owed[t] :
        /\ c \in m_clients[ch] /\ conn[c] = "open"
        /\ c = x \/ c \in After(ch, x)
  <2> TAKE c \in owed[t]
  <2>1. c \in m_clients[ch] /\ conn[c] = "open" /\ x <= c
    BY <1>1, <1>10 DEF InPlace
  <2>2. c \in Nat /\ x \in Nat
    BY <1>1, <2>1, ClientsAreNumbers
  <2>3. c = x \/ c > x
    BY <2>1, <2>2
  <2> QED  BY <2>1, <2>3 DEF After
<1> HIDE DEF d
<1>5. SenderTypes'
  BY <1>1, <1>2, <1>3 DEF SenderInv, SenderTypes
<1>6. InPlace(t)'
  <2>1. d \in m_clients[ch] \cup {None} /\ m_clients' = m_clients /\ conn' = conn
    BY <1>3
  <2>2. owed'[t] = IF d = None THEN {} ELSE owed[t] \ {x}
    BY <1>2 DEF SenderInv, SenderTypes
  <2>3. CASE d = None
    BY <1>2, <2>2, <2>3, ClientsAreNumbers DEF InPlace
  <2>4. CASE d # None
    <3>1. \A c \in owed'[t] : c \in m_clients[ch] /\ conn[c] = "open" /\ d <= c
      BY <1>3, <1>4, <2>2, <2>4
    <3> HIDE DEF x
    <3> QED  BY <1>2, <2>1, <2>4, <3>1 DEF InPlace
  <2> QED  BY <2>3, <2>4
<1>7. \A u \in Senders \ {t} : InPlace(u)'
  BY <1>2 DEF InPlace, SenderInv, SenderTypes, SendersInPlace
<1>8. LoadInPlace'
  BY <1>2 DEF SenderInv, SenderTypes, LoadInPlace, Senders
<1>9. d = None => owed[t] \subseteq {cursor[t]}
  BY <1>3, <1>4, <1>1, ClientsAreNumbers
<1> QED  BY <1>2, <1>5, <1>6, <1>7, <1>8, <1>9 DEF SenderInv, SendersInPlace

LEMMA SendThrowsKeeps ==
  ASSUME SocketInv, SenderInv, NEW t \in Senders, SendThrows(t), UNCHANGED <<used, sockets>>,
         load' \in LoadStates, t = "load" \/ UNCHANGED load
  PROVE  SenderInv'
BY DEF sockets, SendThrows, SenderInv, SenderTypes, SendersInPlace, InPlace, LoadInPlace, Senders

\* A connection that closes, or that leaves a channel.
LEMMA CloseKeepsSenders ==
  ASSUME SocketInv, SenderInv, NEW cs \in SUBSET Clients, Close(cs),
         UNCHANGED <<used, m_clients, handling, cursor, load>>
  PROVE  SenderInv'
BY DEF Close, SenderInv, SenderTypes, SendersInPlace, InPlace, LoadInPlace, SocketInv, SocketTypes

LEMMA EraseFromKeepsSenders ==
  ASSUME SocketInv, SenderInv, NEW chs \in SUBSET Channels, NEW c \in Clients, EraseFrom(chs, c),
         UNCHANGED <<used, handling, load>>,
         \A d \in Clients \ {c} : conn'[d] = conn[d],
         conn'[c] = conn[c] \/ \A t \in Senders : ChannelOf(t) \in chs
  PROVE  SenderInv'
<1>1. /\ \A t \in Senders : ChannelOf(t) \in Channels
      /\ m_clients' = [ch \in Channels |-> IF ch \in chs THEN m_clients[ch] \ {c} ELSE m_clients[ch]]
      /\ cursor' = [t \in Senders |-> IF ChannelOf(t) \in chs /\ cursor[t] = c THEN Dangling ELSE cursor[t]]
      /\ owed' = [t \in Senders |-> IF ChannelOf(t) \in chs THEN owed[t] \ {c} ELSE owed[t]]
  BY TheChannels DEF EraseFrom
<1>2. SenderTypes' /\ LoadInPlace'
  BY <1>1, ClientsAreNumbers DEF SenderInv, SenderTypes, LoadInPlace, Senders
<1>3. ASSUME NEW t \in Senders PROVE InPlace(t)'
  <2>1. InPlace(t) /\ owed[t] \subseteq Clients
    BY DEF SenderInv, SendersInPlace, SenderTypes
  <2>2. ChannelOf(t) \in Channels
    BY <1>1
  <2>3. Dangling \notin Clients /\ Dangling # None
    BY ClientsAreNumbers DEF Dangling, None
  <2>4. CASE ChannelOf(t) \in chs
    BY <1>1, <2>1, <2>2, <2>3, <2>4 DEF InPlace
  <2>5. CASE ChannelOf(t) \notin chs
    BY <1>1, <2>1, <2>2, <2>5 DEF InPlace
  <2> QED  BY <2>4, <2>5
<1> QED  BY <1>2, <1>3 DEF SenderInv, SendersInPlace

\* Steps that only let senders stay where they are.
LEMMA SendersStay ==
  ASSUME SocketInv, SenderInv, UNCHANGED <<used, broadcasts>>,
         handling' \in Clients \cup {None},
         \A ch \in Channels : m_clients[ch] \subseteq m_clients'[ch],
         \A c \in Clients : conn[c] = "open" => conn'[c] = "open",
         load' \in LoadStates, load' = load \/ load' \notin Sending,
         load' # load => cursor["load"] = None
  PROVE  SenderInv'
<1>1. SenderTypes' /\ LoadInPlace'
  BY DEF SenderInv, SenderTypes, LoadInPlace, broadcasts
<1>2. ASSUME NEW t \in Senders PROVE InPlace(t)'
  <2>1. InPlace(t) /\ owed[t] \subseteq Clients /\ ChannelOf(t) \in Channels
    BY TheChannels DEF SenderInv, SendersInPlace, SenderTypes
  <2> QED  BY <2>1 DEF InPlace, broadcasts
<1> QED  BY <1>1, <1>2 DEF SenderInv, SendersInPlace

LEMMA InitSenders == Init => SenderInv
<1> SUFFICES ASSUME Init PROVE SenderInv
  OBVIOUS
<1>1. used \subseteq Channels
  BY WebsocketAssumption DEF Init
<1> QED
  BY <1>1, TheChannels
     DEF Init, SenderInv, SenderTypes, SendersInPlace, InPlace, LoadInPlace, Senders, LoadStates, Sending

LEMMA ServerKeepsSenders ==
  ASSUME SocketInv, SenderInv, UNCHANGED used, NEW c \in Clients, Server(c) \/ Expire(c)
  PROVE  SenderInv'
<1>1. CASE Connect(c) \/ HandshakeFails(c) \/ OnOpen(c)
  BY <1>1, SendersStay
     DEF Connect, HandshakeFails, OnOpen, SocketInv, SocketTypes, stats, SenderInv, SenderTypes
<1>2. CASE Drop(c)
  BY <1>2, CloseKeepsSenders DEF Drop, stats
<1>3. CASE OnClose(c)
  <2>1. /\ c \in m_connections /\ EraseFrom(Channels, c)
        /\ conn' = [conn EXCEPT ![c] = "none"]
        /\ UNCHANGED <<handling, load>>
    BY <1>3 DEF OnClose, SocketInv, SocketTypes, ConnectionsKnown, EveryChannel
  <2>2. \A d \in Clients \ {c} : conn'[d] = conn[d]
    BY <2>1 DEF SocketInv, SocketTypes
  <2> QED  BY <2>1, <2>2, TheChannels, EraseFromKeepsSenders
<1>4. CASE Login(c) \/ Expire(c) \/ LoadRequest(c)
  BY <1>4, SendersStay DEF Login, Expire, LoadRequest, stats, SenderInv, SenderTypes
<1>5. ASSUME NEW ch \in used, Subscribe(c, ch) PROVE SenderInv'
  <2>1. ch \in Channels
    BY DEF SenderInv, SenderTypes
  <2>2. handling' \in Clients \cup {None} /\ UNCHANGED <<conn, broadcasts, load>>
    BY <1>5 DEF Subscribe, stats
  <2>3. \A k \in Channels : m_clients[k] \subseteq m_clients'[k]
    BY <1>5 DEF Subscribe, SocketInv, SocketTypes
  <2> QED  BY <2>1, <2>2, <2>3, SendersStay DEF SenderInv, SenderTypes
<1>6. ASSUME NEW ch \in used, Unsubscribe(c, ch) PROVE SenderInv'
  <2>1. {ch} \in SUBSET Channels
    BY DEF SenderInv, SenderTypes
  <2> QED  BY <1>6, <2>1, EraseFromKeepsSenders DEF Unsubscribe, stats
<1> QED  BY <1>1, <1>2, <1>3, <1>4, <1>5, <1>6 DEF Server

LEMMA EventThreadKeepsSenders == SocketInv /\ SenderInv /\ UNCHANGED used /\ EventThread => SenderInv'
BY BeginKeeps, SendToKeeps, SendThrowsKeeps DEF EventThread, stats, Senders, SenderInv, SenderTypes

LEMMA LoadThreadKeepsSenders == SocketInv /\ SenderInv /\ UNCHANGED used /\ LoadThread => SenderInv'
<1> SUFFICES ASSUME SocketInv, SenderInv, UNCHANGED used, LoadThread PROVE SenderInv'
  OBVIOUS
<1> USE DEF LoadStates, Sending
<1>0. "load" \in Senders /\ load \in LoadStates /\ handling \in Clients \cup {None}
      /\ (load \notin Sending => cursor["load"] = None)
  BY DEF Senders, SenderInv, SenderTypes, LoadInPlace
<1>1. CASE Wake
  BY <1>0, <1>1, SendersStay DEF Wake, sockets
<1>2. CASE CheckLoad
  <2>1. CASE since.load >= LoadDuration
    BY <1>0, <1>2, <2>1, BeginKeeps DEF CheckLoad
  <2>2. CASE ~(since.load >= LoadDuration)
    BY <1>0, <1>2, <2>2, SendersStay DEF CheckLoad, sockets
  <2> QED  BY <2>1, <2>2
<1>3. CASE CheckTemp
  <2>1. CASE Begin("load") /\ load' = "sendTemp"
    BY <1>0, <1>3, <2>1, BeginKeeps DEF CheckTemp
  <2>2. CASE load' = "waiting" /\ UNCHANGED broadcasts
    BY <1>0, <1>3, <2>2, SendersStay DEF CheckTemp, sockets
  <2> QED  BY <1>3, <2>1, <2>2 DEF CheckTemp
<1>4. CASE LoadSend
  BY <1>0, <1>4, SendToKeeps DEF LoadSend
<1>5. CASE LoadSent
  BY <1>0, <1>5, SendersStay DEF LoadSent, sockets
<1>6. CASE LoadThrows
  BY <1>0, <1>6, SendThrowsKeeps DEF LoadThrows, WaitsAgain
<1> QED  BY <1>1, <1>2, <1>3, <1>4, <1>5, <1>6 DEF LoadThread

LEMMA NextSenders == SocketInv /\ SenderInv /\ [Next]_vars => SenderInv'
<1> SUFFICES ASSUME SocketInv, SenderInv, [Next]_vars PROVE SenderInv'
  OBVIOUS
<1>0. UNCHANGED used
  BY DEF Next, Running, Ended, vars
<1>1. CASE \E c \in Clients : Server(c) \/ Expire(c)
  BY <1>0, <1>1, ServerKeepsSenders
<1>2. CASE HandleLoadRequest
  BY <1>0, <1>2, SendersStay DEF HandleLoadRequest, SenderInv, SenderTypes
<1>3. CASE CloseAll
  <2>1. CloseOpen \in SUBSET Clients
    BY DEF CloseOpen, SocketInv, ConnectionsKnown
  <2> QED  BY <1>0, <1>3, <2>1, CloseKeepsSenders DEF CloseAll, stats
<1>4. CASE RunReturns \/ Stop \/ ServerJoined \/ StopThread \/ LoadJoined \/ Tick
  BY <1>0, <1>4, SendersStay
     DEF RunReturns, Stop, ServerJoined, StopThread, LoadJoined, Tick, sockets, stats, SenderInv, SenderTypes
<1>5. CASE EventThread
  BY <1>0, <1>5, EventThreadKeepsSenders
<1>6. CASE LoadThread
  BY <1>0, <1>6, LoadThreadKeepsSenders
<1>7. CASE (\E t \in Senders : FollowDangling(t)) \/ UNCHANGED vars
  BY <1>0, <1>7, SendersStay DEF FollowDangling, vars, sockets, stats, SenderInv, SenderTypes
<1> QED  BY <1>1, <1>2, <1>3, <1>4, <1>5, <1>6, <1>7 DEF Next, Step, Ended

\* A broadcast ends by the last client or by one that closes, and by nothing else.
LEMMA HowBroadcastsEnd ==
  ASSUME SocketInv, SenderInv, [Next]_vars, NEW t \in Senders, Ends(t)
  PROVE  (SendTo(t) /\ UNCHANGED <<used, sockets, load>> /\ (t = "load" => load \in Sending)) \/ SendThrows(t)
<1> USE DEF Ends
<1>0. cursor \in [Senders -> Clients \cup {None, Dangling}] /\ None # Dangling
  BY DEF SenderInv, SenderTypes, None, Dangling
<1>1. ASSUME NEW c \in Clients, Server(c) \/ Expire(c) PROVE FALSE
  BY <1>0, <1>1
     DEF Server, Connect, HandshakeFails, OnOpen, Drop, OnClose, Login, LoadRequest, Subscribe, Unsubscribe,
         Expire, EraseFrom, broadcasts
<1>2. CASE EventThread
  BY <1>0, <1>2 DEF EventThread, Begin, SendTo, SendThrows, Senders, stats, Next, Running, Ended, vars
<1>3. CASE LoadThread
  <2>1. load \notin Sending => cursor["load"] = None
    BY DEF SenderInv, LoadInPlace
  <2>2. ~Wake /\ ~CheckLoad /\ ~CheckTemp /\ ~LoadSent
    BY <1>0, <2>1 DEF Wake, CheckLoad, CheckTemp, LoadSent, Begin, broadcasts, Senders, Sending
  <2> QED
    BY <1>0, <1>3, <2>2
       DEF LoadThread, LoadSend, LoadThrows, SendTo, SendThrows, Senders, Sending, Next, Running, Ended, vars
<1>4. CASE HandleLoadRequest \/ CloseAll \/ RunReturns \/ Tick \/ Stop \/ ServerJoined \/ StopThread \/ LoadJoined
  BY <1>4 DEF HandleLoadRequest, CloseAll, RunReturns, Tick, Stop, ServerJoined, StopThread, LoadJoined, broadcasts
<1>5. CASE (\E u \in Senders : FollowDangling(u)) \/ UNCHANGED vars
  BY <1>5 DEF FollowDangling, vars, broadcasts
<1> QED  BY <1>1, <1>2, <1>3, <1>4, <1>5 DEF Next, Step, Ended

\* Subscriptions that come and go while a broadcast goes through the clients make it
\* skip nobody; only a connection that closes does, to those behind it
\* (the loop of WebsocketChannel::Broadcast and the exception of send).
THEOREM SkipsOnlyBehindClosing == Spec => MissedBehindClosing
<1> DEFINE Misses == \A t \in Senders : Ends(t) =>
             \A c \in owed[t] \ {cursor[t]} : conn[cursor[t]] # "open" /\ cursor[t] < c
<1>1. ASSUME SocketInv, SenderInv, [Next]_vars PROVE Misses
  <2> SUFFICES ASSUME NEW t \in Senders, Ends(t), NEW c \in owed[t] \ {cursor[t]}
               PROVE  conn[cursor[t]] # "open" /\ cursor[t] < c
    OBVIOUS
  <2>1. CASE SendTo(t) /\ UNCHANGED <<used, sockets, load>> /\ (t = "load" => load \in Sending)
    BY <1>1, <2>1, SendToKeeps DEF Ends
  <2>2. CASE SendThrows(t)
    <3>1. cursor[t] \in Clients /\ conn[cursor[t]] # "open"
      BY <2>2 DEF SendThrows
    <3>2. InPlace(t) /\ c \in Clients
      BY <1>1 DEF SenderInv, SendersInPlace, SenderTypes
    <3>3. cursor[t] <= c
      BY <3>1, <3>2 DEF InPlace
    <3> QED  BY <3>1, <3>2, <3>3, ClientsAreNumbers
  <2> QED  BY <1>1, <2>1, <2>2, HowBroadcastsEnd
<1>2. Misses => [Misses]_vars
  OBVIOUS
<1> HIDE DEF Misses
<1>3. SocketInv /\ SenderInv /\ [Next]_vars => [Misses]_vars
  BY <1>1, <1>2
<1>4. Spec => [][Misses]_vars
  BY <1>3, InitSockets, NextSockets, InitSenders, NextSenders, PTL DEF Spec
<1> QED  BY <1>4 DEF Misses, MissedBehindClosing

-----------------------------------------------------------------------------
(* The history of temperatures. *)

Entry == [kind : {"due", "retry", "early"}, failed : BOOLEAN, seen : SUBSET Clients]

HistoryTypes ==
  /\ m_tempData \in Seq(Entry) /\ Len(m_tempData) <= MaxTempData
  /\ since \in [load : 0..LoadDuration, temp : 0..TempDuration, entry : 0..TempDuration]
  /\ tempFailed \in BOOLEAN

\* What is being sent is in the history.
SentIsLast == load = "sendTemp" => Len(m_tempData) >= 1

\* The last entry is at least as old as the last check, but for the one that is being
\* sent and after a broadcast that threw.
EntryBeforeCheck == ~tempFailed /\ load # "sendTemp" => since.entry >= since.temp

HistoryInv == HistoryTypes /\ SentIsLast /\ EntryBeforeCheck /\ HistoryComplete

-----------------------------------------------------------------------------
\* Changing entries one by one leaves their number.
LEMMA EntryByEntry ==
  ASSUME NEW S, NEW s \in Seq(S), NEW T, NEW r \in [DOMAIN s -> T]
  PROVE  r \in Seq(T) /\ Len(r) = Len(s) /\ DOMAIN r = DOMAIN s
<1>1. Len(s) \in Nat /\ DOMAIN s = 1..Len(s)
  OBVIOUS
<1>2. r \in [1..Len(s) -> T]
  BY <1>1
<1>3. r \in Seq(T)
  BY <1>1, <1>2, SeqDef
<1> QED  BY <1>1, <1>2, <1>3, LenProperties

\* The new entry is the last, and those before it were there before.
LEMMA LimitedAppend ==
  ASSUME NEW S, NEW s \in Seq(S), Len(s) <= MaxTempData, NEW e \in S
  PROVE  LET r == Append(Limited(s), e)
         IN  /\ r \in Seq(S) /\ Len(r) \in 1..MaxTempData /\ r[Len(r)] = e
             /\ \A i \in 1..(Len(r) - 1) : \E j \in DOMAIN s : r[i] = s[j]
<1> DEFINE l == Limited(s)
<1>0. MaxTempData \in Nat /\ MaxTempData >= 1 /\ Len(s) \in Nat /\ DOMAIN s = 1..Len(s)
  BY WebsocketAssumption
<1>1. l \in Seq(S) /\ Len(l) < MaxTempData /\ \A i \in 1..Len(l) : \E j \in DOMAIN s : l[i] = s[j]
  <2>1. CASE Len(s) >= MaxTempData
    <3>1. s # <<>> /\ l = Tail(s)
      BY <1>0, <2>1 DEF Limited
    <3>2. l \in Seq(S) /\ Len(l) = Len(s) - 1 /\ \A i \in 1..Len(l) : l[i] = s[i + 1]
      BY <3>1, HeadTailProperties
    <3>3. \A i \in 1..Len(l) : i + 1 \in DOMAIN s
      BY <1>0, <3>2
    <3> QED  BY <1>0, <3>2, <3>3
  <2>2. CASE ~(Len(s) >= MaxTempData)
    BY <1>0, <2>2 DEF Limited
  <2> QED  BY <2>1, <2>2
<1> HIDE DEF l
<1>2. /\ Append(l, e) \in Seq(S) /\ Len(Append(l, e)) = Len(l) + 1
      /\ \A i \in 1..Len(l) : Append(l, e)[i] = l[i]
      /\ Append(l, e)[Len(l) + 1] = e
  BY <1>1, AppendProperties
<1>3. Len(l) \in Nat
  BY <1>1
<1>4. Len(l) + 1 \in 1..MaxTempData /\ (Len(l) + 1) - 1 = Len(l)
  BY <1>0, <1>1, <1>3
<1>5. /\ Append(l, e) \in Seq(S) /\ Len(Append(l, e)) \in 1..MaxTempData
      /\ Append(l, e)[Len(Append(l, e))] = e
      /\ \A i \in 1..(Len(Append(l, e)) - 1) : \E j \in DOMAIN s : Append(l, e)[i] = s[j]
  BY <1>1, <1>2, <1>4
<1> QED  BY <1>5 DEF l

LEMMA InitHistory == Init => HistoryInv
<1> SUFFICES ASSUME Init PROVE HistoryInv
  OBVIOUS
<1>1. m_tempData = <<>> /\ m_tempData \in Seq(Entry) /\ Len(m_tempData) = 0 /\ DOMAIN m_tempData = {}
  BY DEF Init
<1>2. HistoryTypes
  <2>1. since = [load |-> 0, temp |-> 0, entry |-> TempDuration] /\ tempFailed = FALSE
    BY DEF Init
  <2>2. /\ 0 \in 0..LoadDuration /\ 0 \in 0..TempDuration /\ TempDuration \in 0..TempDuration
        /\ 0 <= MaxTempData
    BY WebsocketAssumption
  <2>3. since \in [load : 0..LoadDuration, temp : 0..TempDuration, entry : 0..TempDuration]
    BY <2>1, <2>2
  <2> QED  BY <1>1, <2>1, <2>2, <2>3 DEF HistoryTypes
<1>3. SentIsLast /\ EntryBeforeCheck
  BY WebsocketAssumption DEF Init, SentIsLast, EntryBeforeCheck
<1>4. HistoryComplete
  BY <1>1 DEF HistoryComplete, NoTemperatureMissed, HistoryEven
<1> QED  BY <1>2, <1>3, <1>4 DEF HistoryInv

\* A step that shows at least as much and asks for no more.
LEMMA HistoryStays ==
  ASSUME HistoryInv, UNCHANGED <<load, since, tempFailed, m_tempData>>,
         \A c \in m_clients'["stats"] : conn'[c] = "open" /\ handling' # c =>
           /\ c \in m_clients["stats"] /\ conn[c] = "open" /\ handling # c
           /\ c \in owed["load"] => c \in owed'["load"]
  PROVE  HistoryInv'
<1>1. HistoryTypes' /\ SentIsLast' /\ EntryBeforeCheck' /\ HistoryEven'
  BY DEF HistoryInv, HistoryTypes, SentIsLast, EntryBeforeCheck, HistoryComplete, HistoryEven
<1>2. NoTemperatureMissed'
  BY DEF HistoryInv, HistoryComplete, NoTemperatureMissed
<1> QED  BY <1>1, <1>2 DEF HistoryInv, HistoryComplete

\* Subscribing and asking begin with the server's thread waiting to answer; leaving
\* and closing ask for less; nobody who opens has subscribed yet.
LEMMA ServerKeepsHistory ==
  ASSUME SocketInv, SenderInv, HistoryInv, NEW c \in Clients, Server(c) \/ Expire(c)
  PROVE  HistoryInv'
<1> USE DEF stats, broadcasts
<1>0. /\ "stats" \in Channels /\ m_clients["stats"] \subseteq Clients
      /\ owed["load"] \subseteq Clients /\ "load" \in Senders /\ "load" # "event"
      /\ \A d \in m_clients["stats"] : conn[d] \in {"open", "closing"}
      /\ m_clients \in [Channels -> SUBSET Clients]
      /\ conn \in [Clients -> {"none", "handshake", "open", "closing"}]
      /\ owed \in [Senders -> SUBSET Clients] /\ None \notin Clients /\ used \subseteq Channels
  BY WebsocketAssumption, ClientsAreNumbers
     DEF SocketInv, SocketTypes, ClientsKnown, ConnectionsKnown, SenderInv, SenderTypes, Senders
<1>1. CASE Connect(c) \/ HandshakeFails(c) \/ OnOpen(c)
  BY <1>0, <1>1, HistoryStays DEF Connect, HandshakeFails, OnOpen
<1>2. CASE Drop(c)
  BY <1>0, <1>2, HistoryStays DEF Drop, Close
<1>3. CASE Login(c) \/ Expire(c) \/ LoadRequest(c)
  BY <1>0, <1>3, HistoryStays DEF Login, Expire, LoadRequest, Ready
<1>4. ASSUME NEW ch \in used, Subscribe(c, ch) PROVE HistoryInv'
  BY <1>0, <1>4, HistoryStays DEF Subscribe, Ready
<1>5. ASSUME NEW ch \in used, Unsubscribe(c, ch) PROVE HistoryInv'
  <2>1. UNCHANGED <<conn, handling, load, since, tempFailed, m_tempData>>
    BY <1>5 DEF Unsubscribe
  <2>2. /\ m_clients'["stats"] = IF ch = "stats" THEN m_clients["stats"] \ {c} ELSE m_clients["stats"]
        /\ owed'["load"] = IF ch = "stats" THEN owed["load"] \ {c} ELSE owed["load"]
    BY <1>0, <1>5 DEF Unsubscribe, EraseFrom, ChannelOf
  <2> QED  BY <2>1, <2>2, HistoryStays
<1>6. CASE OnClose(c)
  <2>1. /\ c \in m_connections
        /\ conn' = [conn EXCEPT ![c] = "none"]
        /\ m_tempData' = [i \in DOMAIN m_tempData |-> [m_tempData[i] EXCEPT !.seen = @ \ {c}]]
        /\ UNCHANGED <<handling, load, since, tempFailed>>
    BY <1>6 DEF OnClose, SocketInv, SocketTypes, ConnectionsKnown
  <2>2. m_clients'["stats"] = m_clients["stats"] \ {c} /\ owed'["load"] = owed["load"] \ {c}
    BY <1>0, <1>6, <2>1 DEF OnClose, EraseFrom, EveryChannel, ChannelOf
  <2>3. \A i \in DOMAIN m_tempData : m_tempData[i] \in Entry
    BY DEF HistoryInv, HistoryTypes
  <2>4. m_tempData' \in [DOMAIN m_tempData -> Entry]
    BY <2>1, <2>3 DEF Entry
  <2>5. m_tempData' \in Seq(Entry) /\ Len(m_tempData') = Len(m_tempData) /\ DOMAIN m_tempData' = DOMAIN m_tempData
    BY <2>4, EntryByEntry DEF HistoryInv, HistoryTypes
  <2>6. \A i \in DOMAIN m_tempData : /\ m_tempData'[i].kind = m_tempData[i].kind
                                     /\ m_tempData'[i].failed = m_tempData[i].failed
                                     /\ m_tempData'[i].seen = m_tempData[i].seen \ {c}
    BY <2>1, <2>3 DEF Entry
  <2>7. HistoryTypes' /\ SentIsLast' /\ EntryBeforeCheck' /\ HistoryEven'
    BY <2>1, <2>5, <2>6 DEF HistoryInv, HistoryTypes, SentIsLast, EntryBeforeCheck, HistoryComplete, HistoryEven
  <2>8. NoTemperatureMissed'
    BY <1>0, <2>1, <2>2, <2>5, <2>6 DEF HistoryInv, HistoryComplete, NoTemperatureMissed
  <2> QED  BY <2>7, <2>8 DEF HistoryInv, HistoryComplete
<1> QED  BY <1>1, <1>2, <1>3, <1>4, <1>5, <1>6 DEF Server

\* The answer shows the whole history.
LEMMA AnswerKeepsHistory == SocketInv /\ SenderInv /\ HistoryInv /\ HandleLoadRequest => HistoryInv'
<1> SUFFICES ASSUME SocketInv, SenderInv, HistoryInv, HandleLoadRequest PROVE HistoryInv'
  OBVIOUS
<1>1. /\ handling \in Clients /\ handling' = None /\ None \notin Clients
      /\ UNCHANGED <<conn, m_clients, load, since, tempFailed, owed>>
      /\ m_tempData' = [i \in DOMAIN m_tempData |->
            IF ~m_tempData[i].failed
            THEN [m_tempData[i] EXCEPT !.seen = @ \cup {handling}] ELSE m_tempData[i]]
  BY ClientsAreNumbers DEF HandleLoadRequest, SenderInv, SenderTypes, WholeHistory, broadcasts
<1>2. \A i \in DOMAIN m_tempData : m_tempData[i] \in Entry
  BY DEF HistoryInv, HistoryTypes
<1>3. m_tempData' \in [DOMAIN m_tempData -> Entry]
  BY <1>1, <1>2 DEF Entry
<1>4. m_tempData' \in Seq(Entry) /\ Len(m_tempData') = Len(m_tempData) /\ DOMAIN m_tempData' = DOMAIN m_tempData
  BY <1>3, EntryByEntry DEF HistoryInv, HistoryTypes
<1>5. \A i \in DOMAIN m_tempData :
        /\ m_tempData'[i].kind = m_tempData[i].kind
        /\ m_tempData'[i].failed = m_tempData[i].failed
        /\ m_tempData[i].seen \subseteq m_tempData'[i].seen
        /\ m_tempData[i].failed \/ handling \in m_tempData'[i].seen
  BY <1>1, <1>2 DEF Entry
<1>6. HistoryTypes' /\ SentIsLast' /\ EntryBeforeCheck' /\ HistoryEven'
  BY <1>1, <1>4, <1>5 DEF HistoryInv, HistoryTypes, SentIsLast, EntryBeforeCheck, HistoryComplete, HistoryEven
<1>7. NoTemperatureMissed'
  BY <1>1, <1>4, <1>5 DEF HistoryInv, HistoryComplete, NoTemperatureMissed
<1> QED  BY <1>6, <1>7 DEF HistoryInv, HistoryComplete

\* Tick, which runs while no check is due.
LEMMA TickKeepsHistory == HistoryInv /\ Tick => HistoryInv'
<1> SUFFICES ASSUME HistoryInv, Tick PROVE HistoryInv'
  OBVIOUS
<1>1. /\ load = "waiting" /\ since.load < LoadDuration /\ since.temp < TempDuration
      /\ since' = [load |-> since.load + 1, temp |-> since.temp + 1,
                   entry |-> IF since.entry < TempDuration THEN since.entry + 1 ELSE since.entry]
      /\ since \in [load : 0..LoadDuration, temp : 0..TempDuration, entry : 0..TempDuration]
      /\ LoadDuration \in Nat /\ TempDuration \in Nat
      /\ UNCHANGED <<load, m_tempData, tempFailed, handling, conn, m_clients, owed>>
  BY WebsocketAssumption DEF Tick, Due, HistoryInv, HistoryTypes, sockets, broadcasts
<1>2. /\ since.load + 1 \in 0..LoadDuration /\ since.temp + 1 \in 0..TempDuration
      /\ (IF since.entry < TempDuration THEN since.entry + 1 ELSE since.entry) \in 0..TempDuration
  BY <1>1
<1>3. since' \in [load : 0..LoadDuration, temp : 0..TempDuration, entry : 0..TempDuration]
  BY <1>1, <1>2
<1>4. EntryBeforeCheck'
  BY <1>1 DEF HistoryInv, EntryBeforeCheck
<1>5. HistoryTypes' /\ SentIsLast' /\ HistoryEven'
  BY <1>1, <1>3 DEF HistoryInv, HistoryTypes, SentIsLast, HistoryComplete, HistoryEven
<1>6. NoTemperatureMissed'
  BY <1>1 DEF HistoryInv, HistoryComplete, NoTemperatureMissed
<1> QED  BY <1>4, <1>5, <1>6 DEF HistoryInv, HistoryComplete

\* A new entry is owed to everybody who is there; unless a broadcast threw, one
\* interval has passed since the last.
LEMMA CheckTempKeepsHistory == SocketInv /\ SenderInv /\ HistoryInv /\ CheckTemp => HistoryInv'
<1> SUFFICES ASSUME SocketInv, SenderInv, HistoryInv, CheckTemp PROVE HistoryInv'
  OBVIOUS
<1>1. /\ load = "checkTemp" /\ UNCHANGED <<conn, m_clients, handling>>
      /\ since \in [load : 0..LoadDuration, temp : 0..TempDuration, entry : 0..TempDuration]
      /\ TempDuration \in Nat
      /\ m_tempData \in Seq(Entry) /\ Len(m_tempData) <= MaxTempData
  BY WebsocketAssumption DEF CheckTemp, HistoryInv, HistoryTypes, sockets
<1>2. CASE /\ since.temp >= TempDuration
           /\ m_tempData' = Append(Limited(m_tempData), [kind |-> Kind, failed |-> FALSE, seen |-> {}])
           /\ since' = [since EXCEPT !.entry = 0]
           /\ tempFailed' = FALSE
           /\ Begin("load") /\ load' = "sendTemp"
  <2> DEFINE e == [kind |-> Kind, failed |-> FALSE, seen |-> {}]
  <2>1. Kind \in {"due", "retry"}
    BY <1>1, <1>2 DEF Kind, HistoryInv, EntryBeforeCheck
  <2>2. e \in Entry /\ e.kind # "early"
    BY <2>1 DEF Entry
  <2> HIDE DEF e
  <2>3. m_tempData' = Append(Limited(m_tempData), e)
    BY <1>2 DEF e
  <2>4. /\ m_tempData' \in Seq(Entry) /\ Len(m_tempData') \in 1..MaxTempData
        /\ m_tempData'[Len(m_tempData')] = e
        /\ \A i \in 1..(Len(m_tempData') - 1) : \E j \in DOMAIN m_tempData : m_tempData'[i] = m_tempData[j]
    BY <1>1, <2>2, <2>3, LimitedAppend
  <2>5. \A i \in DOMAIN m_tempData' : i = Len(m_tempData') \/ \E j \in DOMAIN m_tempData : m_tempData'[i] = m_tempData[j]
    <3>1. DOMAIN m_tempData' = 1..Len(m_tempData') /\ Len(m_tempData') \in Nat
      BY <2>4
    <3> QED  BY <2>4, <3>1
  <2>6. owed'["load"] = {c \in m_clients["stats"] : conn[c] = "open"}
    BY <1>2 DEF Begin, ChannelOf, Senders, SenderInv, SenderTypes
  <2>7. HistoryEven'
    BY <2>2, <2>4, <2>5 DEF HistoryEven, HistoryInv, HistoryComplete
  <2>8. NoTemperatureMissed'
    <3> SUFFICES ASSUME NEW c \in m_clients["stats"], conn[c] = "open", handling # c,
                        NEW i \in DOMAIN m_tempData', i # Len(m_tempData')
                 PROVE  c \in m_tempData'[i].seen \/ m_tempData'[i].failed
      BY <1>1, <1>2, <2>6 DEF NoTemperatureMissed
    <3> QED  BY <1>1, <2>5 DEF HistoryInv, HistoryComplete, NoTemperatureMissed
  <2>9. HistoryTypes' /\ SentIsLast' /\ EntryBeforeCheck'
    <3>1. since' \in [load : 0..LoadDuration, temp : 0..TempDuration, entry : 0..TempDuration]
      BY <1>1, <1>2
    <3>2. Len(m_tempData') <= MaxTempData /\ Len(m_tempData') >= 1
      BY <2>4, WebsocketAssumption
    <3> QED  BY <1>2, <2>4, <3>1, <3>2 DEF HistoryTypes, SentIsLast, EntryBeforeCheck
  <2> QED  BY <2>7, <2>8, <2>9 DEF HistoryInv, HistoryComplete
<1>3. CASE /\ load' = "waiting"
           /\ since' = IF since.temp >= TempDuration THEN [since EXCEPT !.temp = 0] ELSE since
           /\ UNCHANGED <<broadcasts, m_tempData, tempFailed>>
  <2>1. since' \in [load : 0..LoadDuration, temp : 0..TempDuration, entry : 0..TempDuration]
    BY <1>1, <1>3
  <2>2. HistoryTypes' /\ SentIsLast' /\ HistoryEven'
    BY <1>3, <2>1 DEF HistoryInv, HistoryTypes, SentIsLast, HistoryComplete, HistoryEven
  <2>3. EntryBeforeCheck'
    BY <1>1, <1>3 DEF HistoryInv, EntryBeforeCheck
  <2>4. NoTemperatureMissed'
    BY <1>1, <1>3 DEF HistoryInv, HistoryComplete, NoTemperatureMissed
  <2> QED  BY <2>2, <2>3, <2>4 DEF HistoryInv, HistoryComplete
<1> QED  BY <1>2, <1>3 DEF CheckTemp

\* Who is sent a temperature has seen it; if it was the last, nobody was left.
LEMMA LoadSendKeepsHistory == SocketInv /\ SenderInv /\ HistoryInv /\ LoadSend /\ UNCHANGED used => HistoryInv'
<1> SUFFICES ASSUME SocketInv, SenderInv, HistoryInv, LoadSend, UNCHANGED used PROVE HistoryInv'
  OBVIOUS
<1> DEFINE x == cursor["load"]
           n == Len(m_tempData)
<1>1. /\ load \in Sending /\ "load" \in Senders /\ SendTo("load") /\ x \in Clients
      /\ UNCHANGED <<conn, m_clients, handling, load, since, tempFailed>> /\ UNCHANGED sockets
      /\ m_tempData \in Seq(Entry)
  BY DEF LoadSend, Sending, Senders, SendTo, sockets, HistoryInv, HistoryTypes
<1>2. \A c \in owed["load"] : c = x \/ c \in owed'["load"]
  <2>1. cursor'["load"] = None => owed["load"] \subseteq {x}
    BY <1>1, SendToKeeps
  <2> QED  BY <1>1, <2>1 DEF SendTo, SenderInv, SenderTypes
<1>3. CASE load = "sendLoad"
  <2>1. m_tempData' = m_tempData
    BY <1>3 DEF LoadSend
  <2>2. HistoryTypes' /\ SentIsLast' /\ EntryBeforeCheck' /\ HistoryEven'
    BY <1>1, <2>1 DEF HistoryInv, HistoryTypes, SentIsLast, EntryBeforeCheck, HistoryComplete, HistoryEven
  <2>3. NoTemperatureMissed'
    BY <1>1, <1>3, <2>1 DEF HistoryInv, HistoryComplete, NoTemperatureMissed
  <2> QED  BY <2>2, <2>3 DEF HistoryInv, HistoryComplete
<1>4. CASE load = "sendTemp"
  <2>1. /\ n \in Nat /\ n >= 1 /\ DOMAIN m_tempData = 1..n /\ n \in DOMAIN m_tempData
        /\ \A i \in DOMAIN m_tempData : m_tempData[i] \in Entry
    BY <1>1, <1>4 DEF HistoryInv, SentIsLast
  <2> HIDE DEF x, n
  <2>2. m_tempData' = [m_tempData EXCEPT ![n].seen = @ \cup {x}]
    BY <1>4 DEF LoadSend, x, n
  <2>3. m_tempData' \in [DOMAIN m_tempData -> Entry]
    BY <1>1, <2>1, <2>2 DEF Entry
  <2>4. m_tempData' \in Seq(Entry) /\ Len(m_tempData') = n /\ DOMAIN m_tempData' = DOMAIN m_tempData
    BY <1>1, <2>3, EntryByEntry DEF n
  <2>5. \A i \in DOMAIN m_tempData : /\ m_tempData'[i].kind = m_tempData[i].kind
                                     /\ m_tempData'[i].failed = m_tempData[i].failed
                                     /\ m_tempData[i].seen \subseteq m_tempData'[i].seen
                                     /\ i = n => x \in m_tempData'[i].seen
    BY <2>1, <2>2 DEF Entry
  <2>6. HistoryTypes' /\ SentIsLast' /\ EntryBeforeCheck' /\ HistoryEven'
    BY <1>1, <2>4, <2>5
       DEF HistoryInv, HistoryTypes, SentIsLast, EntryBeforeCheck, HistoryComplete, HistoryEven, n
  <2>7. NoTemperatureMissed'
    BY <1>1, <1>2, <1>4, <2>4, <2>5 DEF HistoryInv, HistoryComplete, NoTemperatureMissed, n
  <2> QED  BY <2>6, <2>7 DEF HistoryInv, HistoryComplete
<1> QED  BY <1>1, <1>3, <1>4 DEF Sending

\* The entry whose broadcast throws is marked.
LEMMA LoadThrowsKeepsHistory == SocketInv /\ SenderInv /\ HistoryInv /\ LoadThrows => HistoryInv'
<1> SUFFICES ASSUME SocketInv, SenderInv, HistoryInv, LoadThrows PROVE HistoryInv'
  OBVIOUS
<1> DEFINE n == Len(m_tempData)
<1>1. /\ load \in Sending /\ load' = "waiting"
      /\ UNCHANGED <<conn, m_clients, handling, since>>
      /\ m_tempData \in Seq(Entry)
  BY DEF LoadThrows, WaitsAgain, Sending, sockets, HistoryInv, HistoryTypes
<1>2. CASE load = "sendLoad"
  <2>1. UNCHANGED <<m_tempData, tempFailed>>
    BY <1>2 DEF LoadThrows
  <2>2. HistoryTypes' /\ SentIsLast' /\ EntryBeforeCheck' /\ HistoryEven'
    BY <1>1, <1>2, <2>1 DEF HistoryInv, HistoryTypes, SentIsLast, EntryBeforeCheck, HistoryComplete, HistoryEven
  <2>3. NoTemperatureMissed'
    BY <1>1, <1>2, <2>1 DEF HistoryInv, HistoryComplete, NoTemperatureMissed
  <2> QED  BY <2>2, <2>3 DEF HistoryInv, HistoryComplete
<1>3. CASE load = "sendTemp"
  <2>1. /\ n \in Nat /\ n >= 1 /\ DOMAIN m_tempData = 1..n /\ n \in DOMAIN m_tempData
        /\ \A i \in DOMAIN m_tempData : m_tempData[i] \in Entry
    BY <1>1, <1>3 DEF HistoryInv, SentIsLast
  <2> HIDE DEF n
  <2>2. /\ m_tempData' = [m_tempData EXCEPT ![n].failed = TRUE, ![n].seen = {}]
        /\ tempFailed' = TRUE
    BY <1>3 DEF LoadThrows, n
  <2>3. \A i \in DOMAIN m_tempData :
          /\ m_tempData'[i] = IF i = n THEN [m_tempData[i] EXCEPT !.failed = TRUE, !.seen = {}] ELSE m_tempData[i]
          /\ m_tempData'[i] \in Entry
    BY <2>1, <2>2 DEF Entry
  <2>4. m_tempData' \in [DOMAIN m_tempData -> Entry]
    BY <2>1, <2>2 DEF Entry
  <2>5. m_tempData' \in Seq(Entry) /\ Len(m_tempData') = n /\ DOMAIN m_tempData' = DOMAIN m_tempData
    BY <1>1, <2>4, EntryByEntry DEF n
  <2>6. \A i \in DOMAIN m_tempData : /\ m_tempData'[i].kind = m_tempData[i].kind
                                     /\ i = n => m_tempData'[i].failed
                                     /\ i # n => m_tempData'[i] = m_tempData[i]
    BY <2>1, <2>3 DEF Entry
  <2>7. HistoryTypes' /\ SentIsLast' /\ EntryBeforeCheck' /\ HistoryEven'
    <3>1. HistoryTypes'
      BY <1>1, <2>2, <2>5 DEF HistoryInv, HistoryTypes, n
    <3>2. SentIsLast' /\ EntryBeforeCheck'
      BY <1>1, <2>2 DEF SentIsLast, EntryBeforeCheck
    <3>3. HistoryEven'
      BY <2>5, <2>6 DEF HistoryInv, HistoryComplete, HistoryEven
    <3> QED  BY <3>1, <3>2, <3>3
  <2>8. NoTemperatureMissed'
    BY <1>1, <1>3, <2>5, <2>6 DEF HistoryInv, HistoryComplete, NoTemperatureMissed, n
  <2> QED  BY <2>7, <2>8 DEF HistoryInv, HistoryComplete
<1> QED  BY <1>1, <1>2, <1>3 DEF Sending

\* A broadcast that is over owes nothing.
LEMMA LoadSentKeepsHistory == SenderInv /\ HistoryInv /\ LoadSent => HistoryInv'
<1> SUFFICES ASSUME SenderInv, HistoryInv, LoadSent PROVE HistoryInv'
  OBVIOUS
<1>1. /\ load \in Sending /\ load' \in {"checkTemp", "waiting"} /\ owed["load"] = {}
      /\ UNCHANGED <<conn, m_clients, handling, m_tempData, tempFailed>>
      /\ since' = IF load = "sendLoad" THEN [since EXCEPT !.load = 0] ELSE [since EXCEPT !.temp = 0]
  BY DEF LoadSent, LastCheckSet, Sending, Senders, SenderInv, SendersInPlace, InPlace, sockets
<1>2. /\ since \in [load : 0..LoadDuration, temp : 0..TempDuration, entry : 0..TempDuration]
      /\ LoadDuration \in Nat /\ TempDuration \in Nat
  BY WebsocketAssumption DEF HistoryInv, HistoryTypes
<1>3. since' \in [load : 0..LoadDuration, temp : 0..TempDuration, entry : 0..TempDuration]
  BY <1>1, <1>2
<1>4. EntryBeforeCheck'
  BY <1>1, <1>2 DEF HistoryInv, EntryBeforeCheck, Sending
<1>5. HistoryTypes' /\ SentIsLast' /\ HistoryEven'
  BY <1>1, <1>3 DEF HistoryInv, HistoryTypes, SentIsLast, HistoryComplete, HistoryEven
<1>6. NoTemperatureMissed'
  BY <1>1 DEF HistoryInv, HistoryComplete, NoTemperatureMissed
<1> QED  BY <1>4, <1>5, <1>6 DEF HistoryInv, HistoryComplete

\* Steps of the load thread that neither send nor check temperatures.
LEMMA OtherLoadStepsKeepHistory == HistoryInv /\ (Wake \/ CheckLoad) => HistoryInv'
<1> SUFFICES ASSUME HistoryInv, Wake \/ CheckLoad PROVE HistoryInv'
  OBVIOUS
<1>1. /\ load # "sendTemp" /\ load' # "sendTemp"
      /\ UNCHANGED <<conn, m_clients, handling, m_tempData, since, tempFailed>>
  BY DEF Wake, CheckLoad, sockets
<1>2. HistoryTypes' /\ SentIsLast' /\ EntryBeforeCheck' /\ HistoryEven'
  BY <1>1 DEF HistoryInv, HistoryTypes, SentIsLast, EntryBeforeCheck, HistoryComplete, HistoryEven
<1>3. NoTemperatureMissed'
  BY <1>1 DEF HistoryInv, HistoryComplete, NoTemperatureMissed
<1> QED  BY <1>2, <1>3 DEF HistoryInv, HistoryComplete

LEMMA NextHistory == SocketInv /\ SenderInv /\ HistoryInv /\ [Next]_vars => HistoryInv'
<1> SUFFICES ASSUME SocketInv, SenderInv, HistoryInv, [Next]_vars PROVE HistoryInv'
  OBVIOUS
<1>0. UNCHANGED used
  BY DEF Next, Running, Ended, vars
<1>1. CASE \E c \in Clients : Server(c) \/ Expire(c)
  BY <1>1, ServerKeepsHistory
<1>2. CASE HandleLoadRequest
  BY <1>2, AnswerKeepsHistory
<1>3. CASE CloseAll
  <2>1. /\ UNCHANGED <<load, since, tempFailed, m_tempData, m_clients, handling>>
        /\ conn' = [c \in Clients |-> IF c \in CloseOpen THEN "closing" ELSE conn[c]]
        /\ owed' = [t \in Senders |-> owed[t] \ CloseOpen]
    BY <1>3 DEF CloseAll, Close, stats
  <2>2. m_clients["stats"] \subseteq Clients /\ "load" \in Senders
    BY WebsocketAssumption DEF SocketInv, SocketTypes, Senders
  <2> QED  BY <2>1, <2>2, HistoryStays
<1>4. CASE RunReturns \/ Stop \/ ServerJoined \/ StopThread \/ LoadJoined
  BY <1>4, HistoryStays DEF RunReturns, Stop, ServerJoined, StopThread, LoadJoined, sockets, stats, broadcasts
<1>5. CASE EventThread
  <2>1. UNCHANGED <<sockets, stats>> /\ owed'["load"] = owed["load"]
    BY <1>5 DEF EventThread, Begin, SendTo, SendThrows, Senders, SenderInv, SenderTypes
  <2> QED  BY <2>1, HistoryStays DEF sockets, stats
<1>6. CASE Tick
  BY <1>6, TickKeepsHistory
<1>7. CASE LoadThread
  BY <1>0, <1>7, OtherLoadStepsKeepHistory, CheckTempKeepsHistory, LoadSendKeepsHistory,
     LoadSentKeepsHistory, LoadThrowsKeepsHistory DEF LoadThread
<1>8. CASE (\E t \in Senders : FollowDangling(t)) \/ UNCHANGED vars
  BY <1>8, HistoryStays DEF FollowDangling, vars, sockets, stats, broadcasts
<1> QED  BY <1>1, <1>2, <1>3, <1>4, <1>5, <1>6, <1>7, <1>8 DEF Next, Step, Ended

\* Whoever's subscription has been answered has been shown every temperature of the
\* history but what is being sent or whose broadcast threw, and the temperatures are
\* an interval apart as far as broadcasts succeed (LoadRequestHandler's Run,
\* HandleLoadRequest and the connect event).
THEOREM NothingMissing == Spec => []HistoryComplete
<1>1. HistoryInv => HistoryComplete
  BY DEF HistoryInv
<1> QED
  BY <1>1, InitSockets, NextSockets, InitSenders, NextSenders, InitHistory, NextHistory, PTL DEF Spec

-----------------------------------------------------------------------------
\* The threads that no property above is about.
ThreadTypes ==
  /\ server \in {"accepting", "closing", "ended"} /\ m_running \in BOOLEAN /\ crashed \in BOOLEAN
  /\ main \in {"run", "joinServer", "stopThread", "joinLoad", "done"}

LEMMA NextThreads == ThreadTypes /\ [Next]_vars => ThreadTypes'
<1> SUFFICES ASSUME ThreadTypes, [Next]_vars PROVE ThreadTypes'
  OBVIOUS
<1> USE DEF ThreadTypes, stats
<1>1. CASE \E c \in Clients : Server(c) \/ Expire(c)
  BY <1>1
     DEF Server, Connect, HandshakeFails, OnOpen, Drop, OnClose, Login, LoadRequest, Subscribe, Unsubscribe, Expire
<1>2. CASE HandleLoadRequest \/ CloseAll \/ RunReturns \/ EventThread \/ Tick
  BY <1>2 DEF HandleLoadRequest, CloseAll, RunReturns, EventThread, Tick
<1>3. CASE LoadThread
  BY <1>3 DEF LoadThread, Wake, CheckLoad, CheckTemp, LoadSend, LoadSent, LoadThrows
<1>4. CASE Stop \/ ServerJoined \/ StopThread \/ LoadJoined
  BY <1>4 DEF Stop, ServerJoined, StopThread, LoadJoined
<1>5. CASE (\E t \in Senders : FollowDangling(t)) \/ UNCHANGED vars
  BY <1>5 DEF FollowDangling, vars
<1> QED  BY <1>1, <1>2, <1>3, <1>4, <1>5 DEF Next, Step, Ended

\* Every variable keeps its type: a sender stands at a client of its channel or
\* nowhere, and the history and the clocks stay within their bounds.
THEOREM SocketTypeCorrect == Spec => []TypeOK
<1>1. Init => ThreadTypes
  BY DEF Init, ThreadTypes
<1>2. SocketInv /\ SenderInv /\ HistoryInv /\ ThreadTypes => TypeOK
  BY DEF SocketInv, SocketTypes, ConnectionsKnown, SenderInv, SenderTypes, SendersInPlace, InPlace,
         HistoryInv, HistoryTypes, ThreadTypes, LoadStates, TypeOK
<1> QED
  BY <1>1, <1>2, InitSockets, NextSockets, InitSenders, NextSenders, InitHistory, NextHistory, NextThreads,
     PTL DEF Spec
=============================================================================
