------------------------------ MODULE MqttClient ------------------------------
(***************************************************************************)
(* One MQTTClient (communication/MQTTClient.cpp): its subscriptions, the   *)
(* promises of requests under way, and the loop thread that runs callbacks *)
(* for messages.  The broker and libmosquitto are modelled as MQTTClient   *)
(* uses them: requests reach the broker in order; one that finds no        *)
(* connection, or whose connection breaks before the answer, is not        *)
(* repeated; the session, and with it the broker's subscriptions, survives *)
(* a new connection.                                                       *)
(***************************************************************************)
EXTENDS Naturals, Sequences, FiniteSets, SequencesExt

CONSTANTS
  Topics,               \* topic filters that are subscribed to
  MaxSubscribes,        \* bound: calls of Subscribe
  MaxPublishes,         \* bound: calls of Publish
  MaxMessages,          \* bound: messages from the broker
  MaxConnectionLosses   \* bound: how often the connection is missing or breaks

ASSUME MqttClientAssumption ==
  {MaxSubscribes, MaxPublishes, MaxMessages, MaxConnectionLosses} \subseteq Nat

VARIABLES
  subscriptions,        \* sequence of [topic, id]: id tells callbacks apart
  activeSubscriptions,  \* sequence of topics
  newSubscriptions,     \* message ids of subscribe requests with an unset promise
  newPublishes,         \* message ids of publish requests with an unset promise
  publishing,           \* Publish calls between mosquitto_publish and m_mutex
  connected,
  requests,             \* sequence of requests on their way to the broker
  brokerTopics,         \* what the broker has subscribed this client to
  fulfilled,            \* message ids whose promise is set
  loop,                 \* loop thread: "idle", "calling", "erasing", "undefined"
  slots,                \* slots of subscriptions that the references point to
  moved,                \* subscriptions was reallocated since the references were taken
  shifted,              \* history: a callback was erased since the references were taken
  due, called,          \* history: the ids that match the message, those called for it
  subscribes, publishes, messages, losses   \* counters (bounds)

subscribeVars == <<subscriptions, activeSubscriptions, newSubscriptions>>
publishVars == <<newPublishes, publishing>>
clientVars == <<subscribeVars, publishVars>>
networkVars == <<connected, requests, brokerTopics>>
loopVars == <<loop, slots, moved, shifted, due, called>>
counters == <<subscribes, publishes, messages, losses>>
vars == <<clientVars, networkVars, fulfilled, loopVars, counters>>

TopicsOf(s) == {s[i].topic : i \in DOMAIN s}

\* isSubscribed
IsSubscribed(topic) == Contains(activeSubscriptions, topic)

\* After an erase: whether nobody else has the topic.
NobodyLeft(topic, rest) == TRUE
LastOfTopic(topic, rest) == topic \notin TopicsOf(rest)

\* Message ids are given by the library.  MOSQ_ERR_NO_CONN is not an error for
\* the callers: without a connection nothing is sent, and the call goes on.
SubscribeRequest(id, topic) == [type |-> "subscribe", messageId |-> id, topic |-> topic]
UnsubscribeRequest(topic) == [type |-> "unsubscribe", topic |-> topic]
PublishRequest(id) == [type |-> "publish", messageId |-> id]

SentTwice(request) == requests \o <<request, request>>
Sent(request) == IF connected THEN Append(requests, request) ELSE requests

Init ==
  /\ subscriptions = <<>> /\ activeSubscriptions = <<>> /\ newSubscriptions = {}
  /\ newPublishes = {} /\ publishing = {}
  /\ connected \in BOOLEAN   \* whether the constructor reaches the broker
  /\ losses = IF connected THEN 0 ELSE 1
  /\ losses <= MaxConnectionLosses
  /\ requests = <<>> /\ brokerTopics = {} /\ fulfilled = {}
  /\ loop = "idle" /\ slots = <<>> /\ moved = FALSE /\ shifted = FALSE
  /\ due = {} /\ called = <<>>
  /\ subscribes = 0 /\ publishes = 0 /\ messages = 0

\* The ids of subscribe requests are 1.., those of publish requests follow.
SubscribeIds == 1..MaxSubscribes
PublishIds == MaxSubscribes + 1..MaxSubscribes + MaxPublishes

\* Subscribe holds m_mutex from the test to the end.
Subscribe(topic, reallocates) ==
  LET messageId == subscribes + 1
  IN  /\ subscribes < MaxSubscribes
      /\ subscribes' = messageId
      /\ subscriptions' = Append(subscriptions, [topic |-> topic, id |-> messageId])
      /\ moved' = (loop # "idle" /\ (moved \/ reallocates))
      /\ \/ /\ IsSubscribed(topic)
            /\ fulfilled' = fulfilled \cup {messageId}
            /\ UNCHANGED <<activeSubscriptions, newSubscriptions, requests>>
         \/ /\ ~IsSubscribed(topic)
            /\ requests' = Sent(SubscribeRequest(messageId, topic))
            /\ activeSubscriptions' = Append(activeSubscriptions, topic)
            /\ newSubscriptions' = newSubscriptions \cup {messageId}
            /\ UNCHANGED fulfilled
      /\ UNCHANGED <<publishVars, connected, brokerTopics, loop, slots, shifted, due,
                     called, publishes, messages, losses>>

\* Publish sends without m_mutex, ...
PublishSend ==
  LET messageId == MaxSubscribes + publishes + 1
  IN  /\ publishes < MaxPublishes
      /\ publishes' = publishes + 1
      /\ requests' = Sent(PublishRequest(messageId))
      /\ publishing' = publishing \cup {messageId}
      /\ UNCHANGED <<subscribeVars, newPublishes, connected, brokerTopics, fulfilled, loopVars,
                     subscribes, messages, losses>>

\* ... then takes it to store the promise.
PublishStore(messageId) ==
  /\ messageId \in publishing
  /\ publishing' = publishing \ {messageId}
  /\ newPublishes' = newPublishes \cup {messageId}
  /\ UNCHANGED <<subscribeVars, networkVars, fulfilled, loopVars, counters>>

(***************************************************************************)
(* What happens to the first request: the broker answers it and the loop   *)
(* thread runs the callback.  A publish is answered when it is written,    *)
(* which may be inside mosquitto_publish, whatever the loop thread does.   *)
(***************************************************************************)
Answered(type) ==
  /\ connected /\ requests # <<>> /\ Head(requests).type = type
  /\ requests' = Tail(requests)
  /\ UNCHANGED <<connected, subscriptions, activeSubscriptions, publishing, loopVars, counters>>

\* The promise with this id is set, if there is one.
NoneSet(ids, messageId) == fulfilled
SetPromise(ids, messageId) ==
  IF messageId \in ids THEN fulfilled \cup {messageId} ELSE fulfilled

OnSubscribe ==
  /\ loop = "idle"
  /\ Answered("subscribe")
  /\ LET r == Head(requests)
     IN  /\ brokerTopics' = brokerTopics \cup {r.topic}
         /\ fulfilled' = SetPromise(newSubscriptions, r.messageId)
         /\ newSubscriptions' = newSubscriptions \ {r.messageId}
  /\ UNCHANGED newPublishes

OnUnsubscribe ==
  /\ loop = "idle"
  /\ Answered("unsubscribe")
  /\ brokerTopics' = brokerTopics \ {Head(requests).topic}
  /\ UNCHANGED <<newSubscriptions, newPublishes, fulfilled>>

OnPublish ==
  /\ Answered("publish")
  /\ LET id == Head(requests).messageId
     IN  /\ fulfilled' = SetPromise(newPublishes, id)
         /\ newPublishes' = newPublishes \ {id}
  /\ UNCHANGED <<newSubscriptions, brokerTopics>>

\* OnMessage collects references to the callbacks whose topic matches, under
\* m_mutex, and runs the callbacks without it.
FirstMatching(topics) ==
  {i \in DOMAIN subscriptions : /\ subscriptions[i].topic \in topics
                                /\ \A j \in 1..i - 1 : subscriptions[j].topic \notin topics}
Matching(topics) == {i \in DOMAIN subscriptions : subscriptions[i].topic \in topics}

Increasing(s) == \A i, j \in DOMAIN s : i < j => s[i] < s[j]
InOrder(S) == {s \in [1..Cardinality(S) -> S] : ToSet(s) = S /\ Increasing(s)}

OnMessage(topics) ==
  /\ loop = "idle" /\ connected
  /\ topics # {} /\ topics \subseteq brokerTopics
  /\ messages < MaxMessages
  /\ messages' = messages + 1
  /\ loop' = "calling"
  /\ slots' \in InOrder(Matching(topics))
  /\ moved' = FALSE /\ shifted' = FALSE
  /\ due' = {s.id : s \in {t \in ToSet(subscriptions) : t.topic \in topics}}
  /\ called' = <<>>
  /\ UNCHANGED <<clientVars, networkVars, fulfilled, subscribes, publishes, losses>>

\* The next reference is called.  After a reallocation, or if the sequence has
\* become shorter than its slot, it refers to no callback.
CallCallback(unsubscribe) ==
  /\ loop = "calling" /\ slots # <<>>
  /\ \/ /\ ~moved /\ Head(slots) <= Len(subscriptions)
        /\ called' = Append(called, subscriptions[Head(slots)].id)
        /\ loop' = IF unsubscribe THEN "erasing" ELSE "calling"
        /\ slots' = IF unsubscribe THEN slots ELSE Tail(slots)
     \/ /\ moved \/ Head(slots) > Len(subscriptions)
        /\ loop' = "undefined"
        /\ UNCHANGED <<slots, called>>
  /\ UNCHANGED <<clientVars, networkVars, fulfilled, moved, shifted, due, counters>>

\* The callback returned true: lock, find it by its address and erase it.  The
\* last one of a topic ends the topic's subscription.
Erase ==
  /\ loop = "erasing"
  /\ loop' = "calling"
  /\ slots' = Tail(slots)
  /\ IF moved
     THEN UNCHANGED <<subscriptions, activeSubscriptions, requests, shifted>>
     ELSE LET topic == subscriptions[Head(slots)].topic
              rest  == RemoveAt(subscriptions, Head(slots))
          IN  /\ subscriptions' = rest
              /\ shifted' = TRUE
              /\ IF LastOfTopic(topic, rest)
                 THEN /\ activeSubscriptions' = RemoveFirst(activeSubscriptions, topic)
                      /\ requests' = Sent(UnsubscribeRequest(topic))
                 ELSE UNCHANGED <<activeSubscriptions, requests>>
  /\ UNCHANGED <<newSubscriptions, publishVars, connected, brokerTopics, fulfilled, moved, due,
                 called, counters>>

DispatchDone ==
  /\ loop = "calling" /\ slots = <<>>
  /\ loop' = "idle"
  /\ moved' = FALSE
  /\ UNCHANGED <<clientVars, networkVars, fulfilled, slots, shifted, due, called, counters>>

\* mosquitto_loop reports an error; what was on its way is lost.
ConnectionLost ==
  /\ connected /\ loop = "idle" /\ losses < MaxConnectionLosses
  /\ losses' = losses + 1
  /\ connected' = FALSE
  /\ requests' = <<>>
  /\ UNCHANGED <<clientVars, brokerTopics, fulfilled, loopVars, subscribes, publishes, messages>>

\* Loop() calls mosquitto_reconnect.
Reconnect ==
  /\ ~connected /\ loop = "idle"
  /\ connected' = TRUE
  /\ UNCHANGED <<clientVars, requests, brokerTopics, fulfilled, loopVars, counters>>

\* The client waits for calls and messages that the bounds do not let come.
Quiet ==
  /\ loop \in {"idle", "undefined"} /\ connected
  /\ UNCHANGED vars

LoopThread ==
  \/ OnSubscribe
  \/ OnUnsubscribe
  \/ OnPublish
  \/ CallCallback(FALSE)
  \/ Erase
  \/ DispatchDone
  \/ Reconnect

Next ==
  \/ \E topic \in Topics, reallocates \in BOOLEAN : Subscribe(topic, reallocates)
  \/ PublishSend
  \/ \E messageId \in PublishIds : PublishStore(messageId)
  \/ LoopThread
  \/ \E topics \in SUBSET Topics : OnMessage(topics)
  \/ CallCallback(TRUE)
  \/ ConnectionLost
  \/ Quiet

Spec == Init /\ [][Next]_vars

\* The loop thread runs, and the broker answers.
FairSpec == Spec /\ WF_vars(LoopThread)

-----------------------------------------------------------------------------
\* What the members of the client may hold.
TypeOK ==
  /\ \A i \in DOMAIN subscriptions :
       subscriptions[i].topic \in Topics /\ subscriptions[i].id \in 1..subscribes
  /\ ToSet(activeSubscriptions) \subseteq Topics
  /\ newSubscriptions \subseteq SubscribeIds
  /\ newPublishes \cup publishing \subseteq PublishIds
  /\ fulfilled \subseteq SubscribeIds \cup PublishIds
  /\ brokerTopics \subseteq Topics
  /\ loop \in {"idle", "calling", "erasing", "undefined"}

\* activeSubscriptions lists each topic that has a subscription exactly once: no
\* topic is subscribed twice, and none is unsubscribed under a remaining callback.
ActiveMatchesSubscriptions ==
  /\ ToSet(activeSubscriptions) = TopicsOf(subscriptions)
  /\ IsInjective(activeSubscriptions)

\* As long as the connection holds, the broker is told of everything: it has the
\* topics of the client once the requests on their way have been handled, in
\* particular none that no callback wants (MQTTClient.cpp 49-55, 164-171).  Of the
\* requests about a topic the last one decides.
Concerns(r, topic) == r.type # "publish" /\ r.topic = topic
WillHave(topic) ==
  \/ /\ topic \in brokerTopics
     /\ \A i \in DOMAIN requests : ~Concerns(requests[i], topic)
  \/ \E i \in DOMAIN requests :
       /\ Concerns(requests[i], topic) /\ requests[i].type = "subscribe"
       /\ \A j \in i + 1..Len(requests) : ~Concerns(requests[j], topic)
BrokerKeepsUp ==
  losses = 0 => ToSet(activeSubscriptions) = {topic \in Topics : WillHave(topic)}

\* Together: callbacks, active topics and the broker's subscriptions agree.
SubscriptionsAgree == ActiveMatchesSubscriptions /\ BrokerKeepsUp

\* No promise is set twice, which would throw in the loop thread: a set promise
\* has left newSubscriptions and newPublishes, and a request is answered at most once.
PromiseSetOnce ==
  /\ (newSubscriptions \cup newPublishes) \cap fulfilled = {}
  /\ \A i, j \in DOMAIN requests :
       /\ i # j /\ {requests[i].type, requests[j].type} \subseteq {"subscribe", "publish"}
       => requests[i].messageId # requests[j].messageId

\* The callbacks that were subscribed when a message came are called ("get published
\* messages on the given callback", MQTTClient.h:32), unless a callback unsubscribes
\* itself or a Subscribe reallocates the vector in between: then callbacks are missed,
\* and others called instead (MQTTClient.cpp:151).  But whatever happens to the vector,
\* none is called twice for a message, and all are called in the order of subscription.
EveryCallbackCalled ==
  /\ Increasing(called)   \* ids are given out in the order of the calls of Subscribe
  /\ ~moved /\ ~shifted =>
       /\ loop # "undefined"
       /\ ToSet(called) \subseteq due
       /\ loop = "calling" /\ slots = <<>> => ToSet(called) = due

\* No callback is called through a reference to a moved or destroyed one.
DispatchDefined == loop # "undefined"

\* The future of a request that is on its way when its promise has been stored
\* becomes ready, or the connection breaks, or the loop thread has called what is
\* no callback.
OnItsWay(id) ==
  /\ id \in newSubscriptions \cup newPublishes
  /\ \E i \in DOMAIN requests : requests[i].type # "unsubscribe" /\ requests[i].messageId = id
FuturesReady ==
  \A id \in SubscribeIds \cup PublishIds :
    OnItsWay(id) ~> id \in fulfilled \/ ~connected \/ loop = "undefined"
=============================================================================
