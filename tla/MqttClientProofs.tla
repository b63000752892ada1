---------------------------- MODULE MqttClientProofs ----------------------------
(***************************************************************************)
(* Theorems about the promises, the subscriptions and the calls of         *)
(* callbacks of an MQTT client, for all topics and bounds, and about the   *)
(* devices that the Tasmota plugin stores for what its client receives.    *)
(***************************************************************************)
EXTENDS MqttClient, SequenceTheorems, FiniteSetTheorems, TLAPS

\* The message ids given out so far.
SubscribeIssued == 1..subscribes
PublishIssued == MaxSubscribes + 1..MaxSubscribes + publishes
Issued == SubscribeIssued \cup PublishIssued

HasId(r) == r.type \in {"subscribe", "publish"}

\* The counters have not passed their bounds.
CountersInv == subscribes \in 0..MaxSubscribes /\ publishes \in 0..MaxPublishes

\* Every id in use was given out by the call that uses it.
IdsInv ==
  /\ newSubscriptions \subseteq SubscribeIssued
  /\ newPublishes \cup publishing \subseteq PublishIssued
  /\ fulfilled \subseteq Issued

\* A publish request's promise is not stored yet, or waits to be set, or is set.
PromisesInv ==
  /\ (newSubscriptions \cup newPublishes) \cap fulfilled = {}
  /\ publishing \cap (newPublishes \cup fulfilled) = {}

\* The requests on their way carry different ids that were given out.
Distinct(rs) ==
  \A i, j \in 1..Len(rs) :
    i # j /\ HasId(rs[i]) /\ HasId(rs[j]) => rs[i].messageId # rs[j].messageId
IdsIn(rs, ids) == \A i \in 1..Len(rs) : HasId(rs[i]) => rs[i].messageId \in ids

IsSequence(s) == s \in Seq(ToSet(s))

RequestsInv == IsSequence(requests) /\ Distinct(requests) /\ IdsIn(requests, Issued)

IInv == CountersInv /\ IdsInv /\ PromisesInv /\ RequestsInv

-----------------------------------------------------------------------------
\* A sequence is one over its own elements.
LEMMA OverItsElements ==
  ASSUME NEW S, NEW s \in Seq(S)
  PROVE  IsSequence(s)
<1>1. Len(s) \in Nat /\ DOMAIN s = 1..Len(s) /\ s = [i \in 1..Len(s) |-> s[i]]
  OBVIOUS
<1>2. \A i \in 1..Len(s) : s[i] \in ToSet(s)
  BY <1>1 DEF ToSet
<1>3. s \in [1..Len(s) -> ToSet(s)]
  BY <1>1, <1>2
<1> QED  BY <1>1, <1>3, SeqDef DEF IsSequence

\* A request with a new id, or without one, may be appended.
LEMMA AppendRequest ==
  ASSUME NEW rs, IsSequence(rs), NEW ids, NEW r, Distinct(rs), IdsIn(rs, ids),
         NEW newIds, ids \subseteq newIds,
         HasId(r) => r.messageId \in newIds \ ids
  PROVE  /\ IsSequence(Append(rs, r))
         /\ Distinct(Append(rs, r))
         /\ IdsIn(Append(rs, r), newIds)
<1> DEFINE S == ToSet(rs) \cup {r}
           as == Append(rs, r)
<1>1. rs \in Seq(S) /\ r \in S
  BY DEF IsSequence
<1>2. /\ as \in Seq(S)
      /\ Len(rs) \in Nat /\ Len(as) = Len(rs) + 1
      /\ \A i \in 1..Len(rs) : as[i] = rs[i]
      /\ as[Len(rs) + 1] = r
  BY <1>1, AppendProperties
<1>3. IsSequence(as)
  BY <1>2 DEF IsSequence, ToSet
<1>4. ASSUME NEW i \in 1..Len(as)
      PROVE  i \in 1..Len(rs) \/ (i = Len(rs) + 1 /\ as[i] = r)
  BY <1>2
<1>5. IdsIn(as, newIds)
  BY <1>2, <1>4 DEF IdsIn
<1>6. ASSUME NEW i \in 1..Len(rs), HasId(rs[i]), HasId(r)
      PROVE  rs[i].messageId # r.messageId
  BY <1>6 DEF IdsIn
<1>7. Distinct(as)
  <2> SUFFICES ASSUME NEW i \in 1..Len(as), NEW j \in 1..Len(as),
                      i # j, HasId(as[i]), HasId(as[j])
               PROVE  as[i].messageId # as[j].messageId
    BY DEF Distinct
  <2>1. CASE i \in 1..Len(rs) /\ j \in 1..Len(rs)
    BY <2>1, <1>2 DEF Distinct
  <2>2. CASE i \in 1..Len(rs) /\ j = Len(rs) + 1
    BY <2>2, <1>2, <1>6
  <2>3. CASE j \in 1..Len(rs) /\ i = Len(rs) + 1
    BY <2>3, <1>2, <1>6
  <2> QED  BY <1>4, <2>1, <2>2, <2>3
<1> QED  BY <1>3, <1>5, <1>7

\* Taking the first request away keeps the others apart.
LEMMA TailRequest ==
  ASSUME NEW rs, IsSequence(rs), rs # <<>>, NEW ids, Distinct(rs), IdsIn(rs, ids)
  PROVE  IsSequence(Tail(rs)) /\ Distinct(Tail(rs)) /\ IdsIn(Tail(rs), ids)
<1>1. /\ Tail(rs) \in Seq(ToSet(rs))
      /\ Len(rs) \in Nat /\ Len(Tail(rs)) = Len(rs) - 1
      /\ \A i \in 1..Len(Tail(rs)) : Tail(rs)[i] = rs[i + 1]
  BY HeadTailProperties, LenProperties DEF IsSequence
<1>2. IsSequence(Tail(rs))
  BY <1>1, OverItsElements
<1>3. \A i \in 1..Len(Tail(rs)) : i + 1 \in 1..Len(rs)
  BY <1>1
<1>4. IdsIn(Tail(rs), ids)
  BY <1>1, <1>3 DEF IdsIn
<1>5. Distinct(Tail(rs))
  <2> SUFFICES ASSUME NEW i \in 1..Len(Tail(rs)), NEW j \in 1..Len(Tail(rs)), i # j,
                      HasId(Tail(rs)[i]), HasId(Tail(rs)[j])
               PROVE  Tail(rs)[i].messageId # Tail(rs)[j].messageId
    BY DEF Distinct
  <2>1. i + 1 # j + 1
    OBVIOUS
  <2> QED  BY <2>1, <1>1, <1>3 DEF Distinct
<1> QED  BY <1>2, <1>4, <1>5

\* What is sent, if it is, has a new id or none.
LEMMA SentRequest ==
  ASSUME RequestsInv, NEW r, NEW newIds, Issued \subseteq newIds,
         HasId(r) => r.messageId \in newIds \ Issued
  PROVE  IsSequence(Sent(r)) /\ Distinct(Sent(r)) /\ IdsIn(Sent(r), newIds)
<1>1. IdsIn(requests, newIds)
  BY DEF RequestsInv, IdsIn
<1> QED  BY <1>1, AppendRequest DEF RequestsInv, Sent

\* RequestsInv stays when the ids and the requests do.
LEMMA RequestsKept ==
  ASSUME RequestsInv, UNCHANGED <<requests, subscribes, publishes>>
  PROVE  RequestsInv'
BY DEF RequestsInv, IsSequence, Distinct, IdsIn, Issued, SubscribeIssued, PublishIssued

-----------------------------------------------------------------------------
LEMMA InitIInv == Init => IInv
<1> SUFFICES ASSUME Init PROVE IInv
  OBVIOUS
<1>1. CountersInv /\ IdsInv /\ PromisesInv
  BY MqttClientAssumption
     DEF Init, CountersInv, IdsInv, PromisesInv, Issued, SubscribeIssued, PublishIssued
<1>2. requests = <<>> /\ <<>> \in Seq(ToSet(<<>>)) /\ Len(<<>>) = 0
  BY DEF Init, ToSet
<1>3. RequestsInv
  BY <1>2 DEF RequestsInv, IsSequence, Distinct, IdsIn
<1> QED  BY <1>1, <1>3 DEF IInv

LEMMA SubscribeKeeps ==
  ASSUME IInv, NEW topic, NEW reallocates, Subscribe(topic, reallocates)
  PROVE  IInv'
<1> DEFINE id == subscribes + 1
           r  == SubscribeRequest(id, topic)
<1> USE MqttClientAssumption
<1>1. subscribes \in Nat /\ publishes \in Nat /\ subscribes < MaxSubscribes
      /\ subscribes' = id /\ publishes' = publishes
  BY DEF Subscribe, IInv, CountersInv
<1>2. CountersInv'
  BY <1>1 DEF IInv, CountersInv
<1>3. /\ Issued' = Issued \cup {id} /\ id \notin Issued
      /\ SubscribeIssued' = SubscribeIssued \cup {id} /\ PublishIssued' = PublishIssued
      /\ id \notin PublishIssued
  BY <1>1 DEF Issued, SubscribeIssued, PublishIssued
<1>4. IdsInv' /\ PromisesInv'
  BY <1>3 DEF Subscribe, publishVars, IInv, IdsInv, PromisesInv, Issued
<1>5. RequestsInv'
  <2>1. CASE requests' = requests
    BY <2>1, <1>3 DEF IInv, RequestsInv, IsSequence, Distinct, IdsIn
  <2>2. CASE requests' = Sent(r)
    <3>1. HasId(r) => r.messageId \in Issued' \ Issued
      BY <1>3 DEF SubscribeRequest
    <3> QED  BY <2>2, <3>1, <1>3, SentRequest DEF IInv, RequestsInv, IsSequence, Distinct, IdsIn
  <2> QED  BY <2>1, <2>2 DEF Subscribe
<1> QED  BY <1>2, <1>4, <1>5 DEF IInv

LEMMA PublishSendKeeps ==
  ASSUME IInv, PublishSend
  PROVE  IInv'
<1> DEFINE id == MaxSubscribes + publishes + 1
           r  == PublishRequest(id)
<1> USE MqttClientAssumption
<1>1. /\ subscribes \in 0..MaxSubscribes /\ publishes \in Nat /\ publishes < MaxPublishes
      /\ subscribes' = subscribes /\ publishes' = publishes + 1 /\ MaxSubscribes \in Nat
  BY DEF PublishSend, IInv, CountersInv
<1>2. CountersInv'
  BY <1>1 DEF IInv, CountersInv
<1>3. /\ Issued' = Issued \cup {id} /\ id \notin Issued
      /\ PublishIssued' = PublishIssued \cup {id} /\ SubscribeIssued' = SubscribeIssued
      /\ id \notin SubscribeIssued
  BY <1>1 DEF Issued, SubscribeIssued, PublishIssued
<1>4. IdsInv' /\ PromisesInv'
  BY <1>3 DEF PublishSend, subscribeVars, IInv, IdsInv, PromisesInv, Issued
<1>5. RequestsInv'
  <2>1. HasId(r) => r.messageId \in Issued' \ Issued
    BY <1>3 DEF PublishRequest
  <2> QED  BY <2>1, <1>3, SentRequest
           DEF PublishSend, IInv, RequestsInv, IsSequence, Distinct, IdsIn
<1> QED  BY <1>2, <1>4, <1>5 DEF IInv

LEMMA AnswerKeeps ==
  ASSUME IInv, OnSubscribe \/ OnUnsubscribe \/ OnPublish
  PROVE  IInv'
<1>1. /\ requests # <<>> /\ requests' = Tail(requests)
      /\ subscribes' = subscribes /\ publishes' = publishes /\ publishing' = publishing
  BY DEF OnSubscribe, OnUnsubscribe, OnPublish, Answered, counters
<1>2. CountersInv'
  BY <1>1 DEF IInv, CountersInv
<1>3. /\ Issued' = Issued /\ SubscribeIssued' = SubscribeIssued
      /\ PublishIssued' = PublishIssued
  BY <1>1 DEF Issued, SubscribeIssued, PublishIssued
<1>4. RequestsInv'
  BY <1>1, <1>3, TailRequest DEF IInv, RequestsInv, IsSequence, Distinct, IdsIn
<1>5. SubscribeIssued \cap PublishIssued = {}
  BY MqttClientAssumption DEF IInv, CountersInv, SubscribeIssued, PublishIssued
<1>6. CASE OnSubscribe
  <2>1. PICK id : /\ fulfilled' = SetPromise(newSubscriptions, id)
                  /\ newSubscriptions' = newSubscriptions \ {id}
                  /\ newPublishes' = newPublishes
    BY <1>6 DEF OnSubscribe
  <2>2. IdsInv' /\ PromisesInv'
    BY <2>1, <1>1, <1>3, <1>5 DEF SetPromise, IInv, IdsInv, PromisesInv, Issued
  <2> QED  BY <2>2, <1>2, <1>4 DEF IInv
<1>7. CASE OnUnsubscribe
  <2>1. IdsInv' /\ PromisesInv'
    BY <1>7, <1>1, <1>3 DEF OnUnsubscribe, IInv, IdsInv, PromisesInv
  <2> QED  BY <2>1, <1>2, <1>4 DEF IInv
<1>8. CASE OnPublish
  <2>1. PICK id : /\ fulfilled' = SetPromise(newPublishes, id)
                  /\ newPublishes' = newPublishes \ {id}
                  /\ newSubscriptions' = newSubscriptions
    BY <1>8 DEF OnPublish
  <2>2. IdsInv' /\ PromisesInv'
    BY <2>1, <1>1, <1>3, <1>5 DEF SetPromise, IInv, IdsInv, PromisesInv, Issued
  <2> QED  BY <2>2, <1>2, <1>4 DEF IInv
<1> QED  BY <1>6, <1>7, <1>8

\* What leaves ids and promises alone keeps the invariant if it keeps the requests apart.
LEMMA PromisesUntouched ==
  ASSUME IInv, RequestsInv',
         UNCHANGED <<newSubscriptions, newPublishes, publishing, fulfilled, subscribes, publishes>>
  PROVE  IInv'
BY DEF IInv, CountersInv, IdsInv, PromisesInv, Issued, SubscribeIssued, PublishIssued

LEMMA EraseKeeps ==
  ASSUME IInv, Erase
  PROVE  IInv'
<1>1. UNCHANGED <<newSubscriptions, newPublishes, publishing, fulfilled, subscribes, publishes>>
  BY DEF Erase, publishVars, counters
<1>2. CASE requests' = requests
  BY <1>1, <1>2, RequestsKept, PromisesUntouched DEF IInv
<1>3. ASSUME NEW topic, requests' = Sent(UnsubscribeRequest(topic))
      PROVE  RequestsInv'
  <2>1. ~HasId(UnsubscribeRequest(topic))
    BY DEF HasId, UnsubscribeRequest
  <2>2. Issued' = Issued
    BY <1>1 DEF Issued, SubscribeIssued, PublishIssued
  <2> QED  BY <1>3, <2>1, <2>2, SentRequest
           DEF IInv, RequestsInv, IsSequence, Distinct, IdsIn
<1>4. requests' = requests \/ \E topic : requests' = Sent(UnsubscribeRequest(topic))
  BY DEF Erase
<1> QED  BY <1>1, <1>2, <1>3, <1>4, PromisesUntouched

LEMMA NextIInv == IInv /\ [Next]_vars => IInv'
<1> SUFFICES ASSUME IInv, [Next]_vars PROVE IInv'
  OBVIOUS
<1> USE DEF vars, clientVars, subscribeVars, publishVars, networkVars, counters
<1>1. CASE \E topic \in Topics, reallocates \in BOOLEAN : Subscribe(topic, reallocates)
  BY <1>1, SubscribeKeeps
<1>2. CASE PublishSend
  BY <1>2, PublishSendKeeps
<1>3. CASE \E messageId \in PublishIds : PublishStore(messageId)
  <2> PICK messageId : PublishStore(messageId)
    BY <1>3
  <2>1. RequestsInv'
    BY RequestsKept DEF PublishStore, IInv
  <2>2. CountersInv' /\ IdsInv' /\ PromisesInv'
    BY DEF PublishStore, IInv, CountersInv, IdsInv, PromisesInv, Issued, SubscribeIssued,
           PublishIssued
  <2> QED  BY <2>1, <2>2 DEF IInv
<1>4. CASE OnSubscribe \/ OnUnsubscribe \/ OnPublish
  BY <1>4, AnswerKeeps
<1>5. CASE Erase
  BY <1>5, EraseKeeps
<1>6. CASE ConnectionLost
  <2>1. RequestsInv'
    <3>1. requests' = <<>> /\ <<>> \in Seq(ToSet(<<>>)) /\ Len(<<>>) = 0
      BY <1>6 DEF ConnectionLost, ToSet
    <3> QED  BY <3>1 DEF RequestsInv, IsSequence, Distinct, IdsIn
  <2> QED  BY <1>6, <2>1, PromisesUntouched DEF ConnectionLost
<1>7. CASE \/ \E unsubscribe \in BOOLEAN : CallCallback(unsubscribe)
           \/ DispatchDone \/ Reconnect
           \/ \E topics \in SUBSET Topics : OnMessage(topics)
           \/ Quiet \/ UNCHANGED vars
  <2>1. UNCHANGED <<requests, newSubscriptions, newPublishes, publishing, fulfilled,
                    subscribes, publishes>>
    BY <1>7 DEF CallCallback, DispatchDone, Reconnect, OnMessage, Quiet
  <2> QED  BY <2>1, RequestsKept, PromisesUntouched DEF IInv
<1> QED  BY <1>1, <1>2, <1>3, <1>4, <1>5, <1>6, <1>7 DEF Next, LoopThread

-----------------------------------------------------------------------------
\* No promise is set twice: a request whose promise is set has left the lists, and
\* no two requests that will be answered have one id (MQTTClient::OnSubscribe,
\* OnPublish, which call set_value in the loop thread).
THEOREM PromisesSetOnce == Spec => []PromiseSetOnce
<1>1. IInv => PromiseSetOnce
  <2> SUFFICES ASSUME IInv PROVE PromiseSetOnce
    OBVIOUS
  <2>1. DOMAIN requests = 1..Len(requests)
    BY LenProperties DEF IInv, RequestsInv, IsSequence
  <2>2. (newSubscriptions \cup newPublishes) \cap fulfilled = {}
    BY DEF IInv, PromisesInv
  <2>3. ASSUME NEW i \in DOMAIN requests, NEW j \in DOMAIN requests, i # j,
               {requests[i].type, requests[j].type} \subseteq {"subscribe", "publish"}
        PROVE  requests[i].messageId # requests[j].messageId
    BY <2>1, <2>3 DEF IInv, RequestsInv, Distinct, HasId
  <2> QED  BY <2>2, <2>3 DEF PromiseSetOnce
<1> QED  BY <1>1, InitIInv, NextIInv, PTL DEF Spec

-----------------------------------------------------------------------------
(* The lists of the client. *)

Subscription == [topic : Topics, id : SubscribeIds]

\* The ids of subscriptions increase, as they are given out.
ListTypes ==
  /\ subscriptions \in Seq(Subscription)
  /\ \A i \in 1..Len(subscriptions) : subscriptions[i].id <= subscribes
  /\ \A i, j \in 1..Len(subscriptions) : i < j => subscriptions[i].id < subscriptions[j].id
  /\ activeSubscriptions \in Seq(Topics)
  /\ slots \in Seq(Nat \ {0})
  /\ loop \in {"idle", "calling", "erasing", "undefined"}

\* While no subscription was moved, the reference of the callback that is to be
\* erased refers to one.
ErasedIsThere ==
  loop = "erasing" => slots # <<>> /\ (~moved => Head(slots) <= Len(subscriptions))

ListInv == ListTypes /\ ErasedIsThere /\ ActiveMatchesSubscriptions

-----------------------------------------------------------------------------
\* Taking one element out of a sequence.
LEMMA RemoveAtProperties ==
  ASSUME NEW S, NEW s \in Seq(S), NEW k \in 1..Len(s)
  PROVE  /\ RemoveAt(s, k) \in Seq(S)
         /\ Len(s) \in Nat /\ Len(RemoveAt(s, k)) = Len(s) - 1
         /\ \A i \in 1..(Len(s) - 1) : RemoveAt(s, k)[i] = IF i < k THEN s[i] ELSE s[i + 1]
<1> DEFINE a == SubSeq(s, 1, k - 1)
           b == SubSeq(s, k + 1, Len(s))
<1>1. Len(s) \in Nat /\ \A i \in 1..Len(s) : s[i] \in S
  BY LenProperties, ElementOfSeq
<1>2. /\ a \in Seq(S) /\ Len(a) = k - 1
      /\ \A i \in 1..(k - 1) : a[i] = s[i]
  <2>1. /\ 1 \in Int /\ k - 1 \in Int /\ \A i \in 1..(k - 1) : s[i] \in S
    BY <1>1
  <2>2. /\ a \in Seq(S) /\ Len(a) = (IF 1 <= k - 1 THEN k - 1 - 1 + 1 ELSE 0)
        /\ \A i \in 1..(k - 1 - 1 + 1) : a[i] = s[1 + i - 1]
    BY <2>1, SubSeqProperties
  <2> QED  BY <2>2
<1>3. /\ b \in Seq(S) /\ Len(b) = Len(s) - k
      /\ \A i \in 1..(Len(s) - k) : b[i] = s[k + i]
  <2>1. /\ k + 1 \in Int /\ Len(s) \in Int /\ \A i \in (k + 1)..Len(s) : s[i] \in S
    BY <1>1
  <2>2. /\ b \in Seq(S) /\ Len(b) = (IF k + 1 <= Len(s) THEN Len(s) - (k + 1) + 1 ELSE 0)
        /\ \A i \in 1..(Len(s) - (k + 1) + 1) : b[i] = s[k + 1 + i - 1]
    BY <2>1, SubSeqProperties
  <2>3. Len(s) - (k + 1) + 1 = Len(s) - k
    BY <1>1
  <2> HIDE DEF b
  <2>4. Len(b) = Len(s) - k
    BY <1>1, <2>2
  <2>5. ASSUME NEW i \in 1..(Len(s) - k) PROVE b[i] = s[k + i]
    <3>1. i \in 1..(Len(s) - (k + 1) + 1) /\ k + 1 + i - 1 = k + i
      BY <1>1
    <3>2. b[i] = s[k + 1 + i - 1]
      BY <2>2, <3>1, Zenon
    <3> QED  BY <3>1, <3>2
  <2> QED  BY <2>2, <2>4, <2>5
<1> HIDE DEF a, b
<1>4. /\ a \o b \in Seq(S) /\ Len(a \o b) = Len(a) + Len(b)
      /\ \A i \in 1..(Len(a) + Len(b)) : (a \o b)[i] = IF i <= Len(a) THEN a[i] ELSE b[i - Len(a)]
  BY <1>2, <1>3, ConcatProperties
<1>5. Len(a) + Len(b) = Len(s) - 1
  BY <1>1, <1>2, <1>3
<1>6. \A i \in 1..(Len(s) - 1) : (a \o b)[i] = IF i < k THEN s[i] ELSE s[i + 1]
  <2> TAKE i \in 1..(Len(s) - 1)
  <2>1. CASE i < k
    BY <1>1, <1>2, <1>4, <1>5, <2>1
  <2>2. CASE i >= k
    <3>1. i - (k - 1) \in 1..(Len(s) - k) /\ k + (i - (k - 1)) = i + 1 /\ ~(i <= k - 1)
      BY <1>1, <2>2
    <3>2. b[i - (k - 1)] = s[i + 1]
      BY <1>3, <3>1
    <3>3. i \in 1..(Len(a) + Len(b))
      BY <1>5
    <3>4. (a \o b)[i] = IF i <= Len(a) THEN a[i] ELSE b[i - Len(a)]
      BY <1>4, <3>3, Zenon
    <3>5. (a \o b)[i] = s[i + 1]
      BY <1>2, <3>1, <3>2, <3>4
    <3>6. ~(i < k)
      BY <1>1, <2>2
    <3> QED  BY <3>5, <3>6
  <2>3. i < k \/ i >= k
    BY <1>1
  <2> QED  BY <2>1, <2>2, <2>3
<1> QED  BY <1>1, <1>4, <1>5, <1>6 DEF RemoveAt, a, b

\* The elements that are left.
LEMMA RemoveAtElements ==
  ASSUME NEW S, NEW s \in Seq(S), NEW k \in 1..Len(s)
  PROVE  /\ \A i \in 1..Len(RemoveAt(s, k)) :
              \E j \in 1..Len(s) : j # k /\ RemoveAt(s, k)[i] = s[j]
         /\ \A j \in 1..Len(s) : j # k => \E i \in 1..Len(RemoveAt(s, k)) : RemoveAt(s, k)[i] = s[j]
<1>1. /\ Len(s) \in Nat /\ Len(RemoveAt(s, k)) = Len(s) - 1
      /\ \A i \in 1..(Len(s) - 1) : RemoveAt(s, k)[i] = IF i < k THEN s[i] ELSE s[i + 1]
  BY RemoveAtProperties
<1>2. \A i \in 1..(Len(s) - 1) :
        /\ i < k => i \in 1..Len(s) /\ i # k
        /\ ~(i < k) => i + 1 \in 1..Len(s) /\ i + 1 # k
  BY <1>1
<1>3. ASSUME NEW j \in 1..Len(s), j # k
      PROVE  \E i \in 1..(Len(s) - 1) : RemoveAt(s, k)[i] = s[j]
  <2>1. CASE j < k
    BY <1>1, <2>1
  <2>2. CASE j > k
    <3>1. j - 1 \in 1..(Len(s) - 1) /\ ~(j - 1 < k) /\ (j - 1) + 1 = j
      BY <1>1, <2>2
    <3> QED  BY <1>1, <3>1
  <2> QED  BY <1>3, <2>1, <2>2
<1> QED  BY <1>1, <1>2, <1>3

\* The one occurrence of an element is removed.
LEMMA RemoveFirstProperties ==
  ASSUME NEW s \in Seq(Topics), IsInjective(s), NEW x \in ToSet(s)
  PROVE  /\ RemoveFirst(s, x) \in Seq(Topics)
         /\ ToSet(RemoveFirst(s, x)) = ToSet(s) \ {x}
         /\ IsInjective(RemoveFirst(s, x))
<1>1. Len(s) \in Nat /\ DOMAIN s = 1..Len(s)
  BY LenProperties
<1>2. PICK k \in 1..Len(s) : s[k] = x
  BY <1>1 DEF ToSet
<1>3. \A i \in 1..Len(s) : s[i] = x => i = k
  BY <1>1, <1>2 DEF IsInjective
<1>4. RemoveFirst(s, x) = RemoveAt(s, k)
  <2>1. {i \in 1..Len(s) : s[i] = x} = {k}
    BY <1>2, <1>3
  <2>2. Min({k}) = k
    BY <1>1 DEF Min
  <2>3. SelectInSeq(s, LAMBDA v : v = x) = k
    BY <2>1, <2>2 DEF SelectInSeq
  <2> QED  BY <1>2, <2>3 DEF RemoveFirst
<1> DEFINE t == RemoveAt(s, k)
<1>5. /\ t \in Seq(Topics) /\ Len(t) = Len(s) - 1
      /\ \A i \in 1..(Len(s) - 1) : t[i] = IF i < k THEN s[i] ELSE s[i + 1]
  BY RemoveAtProperties
<1>6. /\ \A i \in 1..Len(t) : \E j \in 1..Len(s) : j # k /\ t[i] = s[j]
      /\ \A j \in 1..Len(s) : j # k => \E i \in 1..Len(t) : t[i] = s[j]
  BY RemoveAtElements
<1> HIDE DEF t
<1>7. DOMAIN t = 1..Len(t)
  BY <1>5, LenProperties
<1>8. ToSet(t) = ToSet(s) \ {x}
  <2>1. ToSet(t) = {t[i] : i \in 1..Len(t)} /\ ToSet(s) = {s[i] : i \in 1..Len(s)}
    BY <1>1, <1>7 DEF ToSet
  <2>2. \A i \in 1..Len(t) : t[i] \in {s[j] : j \in 1..Len(s)} /\ t[i] # x
    BY <1>3, <1>6
  <2>3. \A j \in 1..Len(s) : s[j] # x => s[j] \in {t[i] : i \in 1..Len(t)}
    BY <1>2, <1>6
  <2> QED  BY <2>1, <2>2, <2>3
<1>9. IsInjective(t)
  <2> SUFFICES ASSUME NEW i \in 1..(Len(s) - 1), NEW j \in 1..(Len(s) - 1), t[i] = t[j]
               PROVE  i = j
    BY <1>5, <1>7 DEF IsInjective
  <2> DEFINE u == IF i < k THEN i ELSE i + 1
             v == IF j < k THEN j ELSE j + 1
  <2>1. u \in 1..Len(s) /\ v \in 1..Len(s) /\ s[u] = s[v]
    BY <1>1, <1>5
  <2>2. u = v
    BY <1>1, <2>1 DEF IsInjective
  <2> QED  BY <1>1, <2>2
<1> QED  BY <1>4, <1>5, <1>8, <1>9 DEF t

\* An element is added.
LEMMA AppendElements ==
  ASSUME NEW S, NEW s \in Seq(S), NEW x \in S
  PROVE  /\ Append(s, x) \in Seq(S) /\ Len(s) \in Nat /\ Len(Append(s, x)) = Len(s) + 1
         /\ DOMAIN s = 1..Len(s) /\ DOMAIN Append(s, x) = 1..(Len(s) + 1)
         /\ \A i \in 1..Len(s) : Append(s, x)[i] = s[i]
         /\ Append(s, x)[Len(s) + 1] = x
         /\ ToSet(Append(s, x)) = ToSet(s) \cup {x}
<1>1. /\ Append(s, x) \in Seq(S) /\ Len(s) \in Nat /\ Len(Append(s, x)) = Len(s) + 1
      /\ \A i \in 1..Len(s) : Append(s, x)[i] = s[i]
      /\ Append(s, x)[Len(s) + 1] = x
  BY AppendProperties, LenProperties
<1>2. DOMAIN s = 1..Len(s) /\ DOMAIN Append(s, x) = 1..(Len(s) + 1)
  BY <1>1, LenProperties
<1>3. \A i \in 1..(Len(s) + 1) : i \in 1..Len(s) \/ i = Len(s) + 1
  BY <1>1
<1>4. \A i \in 1..Len(s) : i \in 1..(Len(s) + 1)
  BY <1>1
<1>5. Len(s) + 1 \in 1..(Len(s) + 1)
  BY <1>1
<1>6. ToSet(Append(s, x)) = ToSet(s) \cup {x}
  BY <1>1, <1>2, <1>3, <1>4, <1>5 DEF ToSet
<1> QED  BY <1>1, <1>2, <1>6

-----------------------------------------------------------------------------
\* What leaves the lists alone, and the reference of the callback to be erased.
LEMMA ListsUntouched ==
  ASSUME ListInv, UNCHANGED <<subscriptions, activeSubscriptions, subscribes>>,
         slots' \in Seq(Nat \ {0}), loop' \in {"idle", "calling", "undefined"}
  PROVE  ListInv'
BY DEF ListInv, ListTypes, ErasedIsThere, ActiveMatchesSubscriptions, TopicsOf

LEMMA SubscribeKeepsLists ==
  ASSUME CountersInv, ListInv, NEW topic \in Topics, NEW reallocates, Subscribe(topic, reallocates)
  PROVE  ListInv'
<1> DEFINE id == subscribes + 1
           s  == [topic |-> topic, id |-> id]
           n  == Len(subscriptions)
<1>1. /\ subscribes \in Nat /\ id \in SubscribeIds /\ subscribes' = id
      /\ subscriptions' = Append(subscriptions, s) /\ UNCHANGED <<slots, loop>>
      /\ (moved /\ loop # "idle" => moved')
  <2>1. subscribes \in Nat /\ subscribes < MaxSubscribes /\ MaxSubscribes \in Nat
    BY MqttClientAssumption DEF Subscribe, CountersInv
  <2>2. id \in SubscribeIds
    BY <2>1 DEF SubscribeIds
  <2> QED  BY <2>1, <2>2 DEF Subscribe
<1>2. s \in Subscription /\ subscriptions \in Seq(Subscription)
  BY <1>1 DEF Subscription, ListInv, ListTypes
<1>3. /\ subscriptions' \in Seq(Subscription) /\ n \in Nat /\ Len(subscriptions') = n + 1
      /\ DOMAIN subscriptions = 1..n /\ DOMAIN subscriptions' = 1..(n + 1)
      /\ \A i \in 1..n : subscriptions'[i] = subscriptions[i]
      /\ subscriptions'[n + 1] = s
      /\ ToSet(subscriptions') = ToSet(subscriptions) \cup {s}
  BY <1>1, <1>2, AppendElements
<1>4. \A i \in 1..(n + 1) : i \in 1..n \/ i = n + 1
  BY <1>3
<1>5. activeSubscriptions' \in Seq(Topics) /\ IsInjective(activeSubscriptions')
      /\ ToSet(activeSubscriptions') = ToSet(activeSubscriptions) \cup {topic}
  <2>1. activeSubscriptions \in Seq(Topics) /\ IsInjective(activeSubscriptions)
    BY DEF ListInv, ListTypes, ActiveMatchesSubscriptions
  <2>2. CASE IsSubscribed(topic)
    <3>1. activeSubscriptions' = activeSubscriptions
      BY <2>2 DEF Subscribe
    <3>2. topic \in ToSet(activeSubscriptions)
      BY <2>1, <2>2, LenProperties DEF IsSubscribed, Contains, ToSet
    <3> QED  BY <2>1, <3>1, <3>2
  <2>3. CASE ~IsSubscribed(topic)
    <3> DEFINE a == activeSubscriptions
               k == Len(activeSubscriptions)
    <3>1. activeSubscriptions' = Append(a, topic)
      BY <2>3 DEF Subscribe
    <3>2. /\ Append(a, topic) \in Seq(Topics) /\ k \in Nat
          /\ DOMAIN a = 1..k /\ DOMAIN Append(a, topic) = 1..(k + 1)
          /\ \A i \in 1..k : Append(a, topic)[i] = a[i]
          /\ Append(a, topic)[k + 1] = topic
          /\ ToSet(Append(a, topic)) = ToSet(a) \cup {topic}
      BY <2>1, AppendElements
    <3>3. \A i \in 1..k : a[i] # topic
      BY <2>3 DEF IsSubscribed, Contains
    <3>4. \A i \in 1..(k + 1) : i \in 1..k \/ i = k + 1
      BY <3>2
    <3>5. IsInjective(Append(a, topic))
      <4> HIDE DEF a, k
      <4>1. IsInjective(a)
        BY <2>1 DEF a
      <4> QED  BY <3>2, <3>3, <3>4, <4>1 DEF IsInjective
    <3> QED  BY <3>1, <3>2, <3>5
  <2> QED  BY <2>2, <2>3
<1>6. TopicsOf(subscriptions') = TopicsOf(subscriptions) \cup {topic}
  <2>1. n + 1 \in 1..(n + 1) /\ \A i \in 1..n : i \in 1..(n + 1)
    BY <1>3
  <2> QED  BY <1>3, <1>4, <2>1 DEF TopicsOf
<1>7. /\ \A i \in 1..(n + 1) : subscriptions'[i].id <= id
      /\ \A i, j \in 1..(n + 1) : i < j => subscriptions'[i].id < subscriptions'[j].id
  <2>0. n \in Nat /\ subscribes \in Nat
    BY <1>1, <1>3
  <2>1. \A i \in 1..n : subscriptions[i].id \in Nat /\ subscriptions[i].id <= subscribes
    <3>1. \A i \in 1..n : subscriptions[i] \in Subscription
      BY <1>2, ElementOfSeq
    <3>2. \A x \in Subscription : x.id \in Nat
      BY DEF Subscription, SubscribeIds
    <3> QED  BY <3>1, <3>2 DEF ListInv, ListTypes
  <2>2. \A i \in 1..n : subscriptions'[i].id \in Nat /\ subscriptions'[i].id <= subscribes
    BY <1>3, <2>1
  <2>3. subscriptions'[n + 1].id = subscribes + 1
    BY <1>3
  <2>4. \A i, j \in 1..n : i < j => subscriptions'[i].id < subscriptions'[j].id
    BY <1>3 DEF ListInv, ListTypes
  <2>5. \A i, j \in 1..(n + 1) : i < j => i \in 1..n
    BY <1>3
  <2> HIDE DEF n, s
  <2>6. \A i \in 1..(n + 1) : subscriptions'[i].id <= id
    BY <2>0, <1>4, <2>2, <2>3
  <2>7. ASSUME NEW i \in 1..(n + 1), NEW j \in 1..(n + 1), i < j
        PROVE  subscriptions'[i].id < subscriptions'[j].id
    <3>1. i \in 1..n
      BY <2>5, <2>7
    <3>2. CASE j \in 1..n
      BY <2>4, <2>7, <3>1, <3>2
    <3>3. CASE j = n + 1
      BY <2>0, <2>2, <2>3, <3>1, <3>3
    <3> QED  BY <1>4, <3>2, <3>3
  <2> QED  BY <2>6, <2>7
<1>8. ListTypes'
  BY <1>1, <1>3, <1>5, <1>7 DEF ListInv, ListTypes
<1>9. ErasedIsThere'
  <2>1. loop = "erasing" => slots # <<>> /\ Head(slots) \in Nat
    BY HeadTailProperties DEF ListInv, ListTypes, ErasedIsThere
  <2> QED  BY <1>1, <1>3, <2>1 DEF ListInv, ErasedIsThere
<1>10. ActiveMatchesSubscriptions'
  BY <1>5, <1>6 DEF ListInv, ActiveMatchesSubscriptions
<1> QED  BY <1>8, <1>9, <1>10 DEF ListInv

LEMMA EraseKeepsLists ==
  ASSUME CountersInv, ListInv, Erase
  PROVE  ListInv'
<1>1. /\ loop' = "calling" /\ slots' = Tail(slots) /\ slots # <<>>
      /\ UNCHANGED <<moved, subscribes>>
  BY DEF Erase, counters, ListInv, ErasedIsThere
<1>2. slots' \in Seq(Nat \ {0}) /\ Head(slots) \in Nat \ {0}
  BY <1>1, HeadTailProperties DEF ListInv, ListTypes
<1>3. CASE moved
  BY <1>1, <1>2, <1>3, ListsUntouched DEF Erase
<1>4. CASE ~moved
  <2> DEFINE h == Head(slots)
             topic == subscriptions[h].topic
             rest == RemoveAt(subscriptions, h)
             n == Len(subscriptions)
  <2>1. h \in 1..n /\ subscriptions \in Seq(Subscription) /\ n \in Nat /\ DOMAIN subscriptions = 1..n
    BY <1>2, <1>4, LenProperties DEF ListInv, ListTypes, ErasedIsThere, Erase
  <2>2. /\ subscriptions' = rest
        /\ IF LastOfTopic(topic, rest)
           THEN activeSubscriptions' = RemoveFirst(activeSubscriptions, topic)
           ELSE activeSubscriptions' = activeSubscriptions
    BY <1>4 DEF Erase
  <2>3. /\ rest \in Seq(Subscription) /\ Len(rest) = n - 1
        /\ \A i \in 1..(n - 1) : rest[i] = IF i < h THEN subscriptions[i] ELSE subscriptions[i + 1]
    BY <2>1, RemoveAtProperties
  <2>4. /\ \A i \in 1..Len(rest) : \E j \in 1..n : j # h /\ rest[i] = subscriptions[j]
        /\ \A j \in 1..n : j # h => \E i \in 1..Len(rest) : rest[i] = subscriptions[j]
    BY <2>1, RemoveAtElements
  <2>5. DOMAIN rest = 1..Len(rest)
    BY <2>3, LenProperties
  <2>6. topic \in TopicsOf(subscriptions) /\ TopicsOf(subscriptions) = TopicsOf(rest) \cup {topic}
    <3>1. /\ TopicsOf(subscriptions) = {subscriptions[i].topic : i \in 1..n}
          /\ TopicsOf(rest) = {rest[i].topic : i \in 1..Len(rest)}
      BY <2>1, <2>5 DEF TopicsOf
    <3> HIDE DEF rest, n, h
    <3>2. topic \in {subscriptions[i].topic : i \in 1..n}
      BY <2>1
    <3>3. \A i \in 1..Len(rest) : rest[i].topic \in {subscriptions[j].topic : j \in 1..n}
      BY <2>4
    <3>4. \A j \in 1..n : subscriptions[j].topic \in {rest[i].topic : i \in 1..Len(rest)} \cup {topic}
      BY <2>4
    <3> QED  BY <3>1, <3>2, <3>3, <3>4
  <2>7. ListTypes' /\ ErasedIsThere'
    <3>1. \A i \in 1..(n - 1) : i \in 1..n /\ i + 1 \in 1..n
      BY <2>1
    <3>2. \A i \in 1..(n - 1) : rest[i].id <= subscribes
      <4> HIDE DEF rest, n, h
      <4> QED  BY <2>1, <2>3, <3>1 DEF ListInv, ListTypes, n
    <3>3. \A i, j \in 1..(n - 1) : i < j => rest[i].id < rest[j].id
      <4>1. \A i, j \in 1..n : i < j => subscriptions[i].id < subscriptions[j].id
        BY DEF ListInv, ListTypes
      <4> HIDE DEF rest, n, h
      <4> QED  BY <2>1, <2>3, <3>1, <4>1
    <3>4. activeSubscriptions' \in Seq(Topics)
      BY <2>2, <2>6, RemoveFirstProperties DEF ListInv, ListTypes, ActiveMatchesSubscriptions
    <3> HIDE DEF rest
    <3> QED  BY <1>1, <1>2, <2>2, <2>3, <3>2, <3>3, <3>4 DEF ListTypes, ErasedIsThere
  <2>8. ActiveMatchesSubscriptions'
    <3>1. /\ activeSubscriptions \in Seq(Topics) /\ IsInjective(activeSubscriptions)
          /\ ToSet(activeSubscriptions) = TopicsOf(subscriptions)
      BY DEF ListInv, ListTypes, ActiveMatchesSubscriptions
    <3> HIDE DEF rest, topic
    <3>2. CASE topic \in TopicsOf(rest)
      BY <2>2, <2>6, <3>1, <3>2 DEF ActiveMatchesSubscriptions, LastOfTopic
    <3>3. CASE topic \notin TopicsOf(rest)
      <4>1. activeSubscriptions' = RemoveFirst(activeSubscriptions, topic)
        BY <2>2, <3>3 DEF LastOfTopic
      <4>2. /\ ToSet(activeSubscriptions') = ToSet(activeSubscriptions) \ {topic}
            /\ IsInjective(activeSubscriptions')
        BY <2>6, <3>1, <4>1, RemoveFirstProperties
      <4>3. ToSet(activeSubscriptions') = TopicsOf(subscriptions')
        BY <2>2, <2>6, <3>1, <3>3, <4>2
      <4> QED  BY <4>2, <4>3 DEF ActiveMatchesSubscriptions
    <3> QED  BY <3>2, <3>3
  <2> QED  BY <2>7, <2>8 DEF ListInv
<1> QED  BY <1>3, <1>4

\* The slots of callbacks that match.
LEMMA MatchingSlots ==
  ASSUME ListTypes, NEW topics, NEW s \in InOrder(Matching(topics))
  PROVE  /\ s \in Seq(Nat \ {0}) /\ DOMAIN s = 1..Len(s)
         /\ ToSet(s) = Matching(topics) /\ Increasing(s)
         /\ Matching(topics) \subseteq 1..Len(subscriptions)
<1> DEFINE M == Matching(topics)
<1>1. M \subseteq 1..Len(subscriptions) /\ Len(subscriptions) \in Nat
  BY LenProperties DEF ListTypes, Matching
<1>2. IsFiniteSet(M)
  <2>1. IsFiniteSet(1..Len(subscriptions))
    BY <1>1, FS_Interval
  <2> HIDE DEF M
  <2> QED  BY <1>1, <2>1, FS_Subset
<1>3. Cardinality(M) \in Nat
  BY <1>2, FS_CardinalityType
<1>4. s \in [1..Cardinality(M) -> M] /\ ToSet(s) = M /\ Increasing(s)
  BY DEF InOrder
<1>5. M \subseteq Nat \ {0}
  BY <1>1
<1> HIDE DEF M
<1>6. s \in [1..Cardinality(M) -> Nat \ {0}]
  BY <1>4, <1>5
<1>7. s \in Seq(Nat \ {0})
  BY <1>3, <1>6, SeqDef
<1> QED  BY <1>1, <1>4, <1>7, LenProperties DEF M

LEMMA ListInit == Init => ListInv
<1> SUFFICES ASSUME Init PROVE ListInv
  OBVIOUS
<1>1. subscriptions = <<>> /\ activeSubscriptions = <<>> /\ slots = <<>> /\ loop = "idle"
  BY DEF Init
<1>2. /\ \A S : <<>> \in Seq(S)
      /\ Len(<<>>) = 0 /\ DOMAIN <<>> = {} /\ 1..0 = {}
  BY EmptySeq
<1>3. TopicsOf(<<>>) = {} /\ ToSet(<<>>) = {} /\ IsInjective(<<>>)
  BY <1>2 DEF TopicsOf, ToSet, IsInjective
<1> QED  BY <1>1, <1>2, <1>3 DEF ListInv, ListTypes, ErasedIsThere, ActiveMatchesSubscriptions

LEMMA ListStep ==
  ASSUME CountersInv, ListInv, [Next]_vars
  PROVE  ListInv'
<1> USE DEF clientVars, subscribeVars, publishVars, networkVars, loopVars, counters
<1>1. CASE \E topic \in Topics, reallocates \in BOOLEAN : Subscribe(topic, reallocates)
  BY <1>1, SubscribeKeepsLists
<1>2. CASE Erase
  BY <1>2, EraseKeepsLists
<1>3. ASSUME NEW topics, OnMessage(topics)
      PROVE  ListInv'
  <2>1. slots' \in Seq(Nat \ {0})
    BY <1>3, MatchingSlots DEF OnMessage, ListInv
  <2> QED  BY <1>3, <2>1, ListsUntouched DEF OnMessage
<1>4. ASSUME NEW unsubscribe \in BOOLEAN, CallCallback(unsubscribe)
      PROVE  ListInv'
  <2>1. /\ UNCHANGED <<subscriptions, activeSubscriptions, subscribes, moved>>
        /\ slots # <<>>
        /\ slots' \in {slots, Tail(slots)}
        /\ loop' = "erasing" => slots' = slots /\ ~moved /\ Head(slots) <= Len(subscriptions)
        /\ loop' \in {"calling", "erasing", "undefined"}
    BY <1>4 DEF CallCallback
  <2>2. slots' \in Seq(Nat \ {0})
    BY <2>1, HeadTailProperties DEF ListInv, ListTypes
  <2>3. CASE loop' = "erasing"
    BY <2>1, <2>2, <2>3 DEF ListInv, ListTypes, ErasedIsThere, ActiveMatchesSubscriptions, TopicsOf
  <2>4. CASE loop' # "erasing"
    BY <2>1, <2>2, <2>4, ListsUntouched
  <2> QED  BY <2>3, <2>4
<1>5. CASE DispatchDone
  BY <1>5, ListsUntouched DEF DispatchDone, ListInv, ListTypes
<1>6. CASE \/ PublishSend \/ \E messageId \in PublishIds : PublishStore(messageId)
           \/ OnSubscribe \/ OnUnsubscribe \/ OnPublish \/ Reconnect \/ ConnectionLost
           \/ Quiet \/ UNCHANGED vars
  <2>1. UNCHANGED <<subscriptions, activeSubscriptions, subscribes, slots, loop, moved>>
    BY <1>6 DEF PublishSend, PublishStore, OnSubscribe, OnUnsubscribe, OnPublish, Answered,
      Reconnect, ConnectionLost, Quiet, vars
  <2> QED  BY <2>1 DEF ListInv, ListTypes, ErasedIsThere, ActiveMatchesSubscriptions, TopicsOf
<1> QED  BY <1>1, <1>2, <1>3, <1>4, <1>5, <1>6 DEF Next, LoopThread

-----------------------------------------------------------------------------
(* The subscriptions that the broker will have. *)

\* WillHave, of any topics and requests.
EndsWith(topics, rs, topic) ==
  \/ topic \in topics /\ \A i \in 1..Len(rs) : ~Concerns(rs[i], topic)
  \/ \E i \in 1..Len(rs) :
       /\ Concerns(rs[i], topic) /\ rs[i].type = "subscribe"
       /\ \A j \in i + 1..Len(rs) : ~Concerns(rs[j], topic)

TopicsIn(rs) == \A i \in 1..Len(rs) : rs[i].type # "publish" => rs[i].topic \in Topics

BrokerInv ==
  /\ losses \in Nat /\ (losses = 0 => connected)
  /\ brokerTopics \subseteq Topics /\ TopicsIn(requests)
  /\ BrokerKeepsUp

LEMMA WillHaveIsEndsWith ==
  ASSUME RequestsInv, NEW topic
  PROVE  WillHave(topic) <=> EndsWith(brokerTopics, requests, topic)
<1>1. DOMAIN requests = 1..Len(requests)
  BY LenProperties DEF RequestsInv, IsSequence
<1> QED  BY <1>1 DEF WillHave, EndsWith

\* A request that is sent decides about its topic.
LEMMA EndsWithAppend ==
  ASSUME NEW topics, NEW rs, IsSequence(rs), NEW r, NEW topic
  PROVE  EndsWith(topics, Append(rs, r), topic)
           <=> IF Concerns(r, topic) THEN r.type = "subscribe" ELSE EndsWith(topics, rs, topic)
<1> DEFINE S == ToSet(rs) \cup {r}
           as == Append(rs, r)
           n  == Len(rs)
<1>1. rs \in Seq(S) /\ r \in S
  BY DEF IsSequence
<1>2. n \in Nat /\ Len(as) = n + 1 /\ as[n + 1] = r /\ \A i \in 1..n : as[i] = rs[i]
  BY <1>1, AppendElements
<1>3. /\ \A i \in 1..n : i \in 1..(n + 1) /\ n + 1 \in i + 1..(n + 1)
      /\ n + 1 \in 1..(n + 1)
      /\ \A i \in 1..(n + 1) : i \in 1..n \/ i = n + 1
  BY <1>2
<1> HIDE DEF as, n
<1>4. CASE Concerns(r, topic)
  <2>1. EndsWith(topics, as, topic) => r.type = "subscribe"
    BY <1>2, <1>3, <1>4 DEF EndsWith
  <2>2. r.type = "subscribe" => EndsWith(topics, as, topic)
    <3>1. \A j \in n + 1 + 1..n + 1 : FALSE
      BY <1>2
    <3> QED  BY <1>2, <1>3, <1>4, <3>1 DEF EndsWith
  <2> QED  BY <1>4, <2>1, <2>2 DEF as
<1>5. CASE ~Concerns(r, topic)
  <2>1. (\A i \in 1..(n + 1) : ~Concerns(as[i], topic)) <=> (\A i \in 1..n : ~Concerns(rs[i], topic))
    BY <1>2, <1>3, <1>5
  <2>2. \A i \in 1..n : (\A j \in i + 1..(n + 1) : ~Concerns(as[j], topic))
                          <=> (\A j \in i + 1..n : ~Concerns(rs[j], topic))
    <3> TAKE i \in 1..n
    <3>1. /\ \A j \in i + 1..n : j \in i + 1..(n + 1) /\ j \in 1..n
          /\ \A j \in i + 1..(n + 1) : j \in i + 1..n \/ j = n + 1
      BY <1>2
    <3> QED  BY <1>2, <1>5, <3>1
  <2>3. EndsWith(topics, as, topic) <=>
          \/ topic \in topics /\ \A i \in 1..n : ~Concerns(rs[i], topic)
          \/ \E i \in 1..n : /\ Concerns(rs[i], topic) /\ rs[i].type = "subscribe"
                              /\ \A j \in i + 1..n : ~Concerns(rs[j], topic)
    BY <1>2, <1>3, <1>5, <2>1, <2>2 DEF EndsWith
  <2> QED  BY <1>5, <2>3 DEF EndsWith, as, n
<1> QED  BY <1>4, <1>5

\* An answer does to the topics what the request was going to do.
LEMMA EndsWithTail ==
  ASSUME NEW topics, NEW newTopics, NEW rs, IsSequence(rs), rs # <<>>, NEW topic,
         topic \in newTopics <=> IF Concerns(Head(rs), topic) THEN Head(rs).type = "subscribe"
                                                             ELSE topic \in topics
  PROVE  EndsWith(newTopics, Tail(rs), topic) <=> EndsWith(topics, rs, topic)
<1> DEFINE ts == Tail(rs)
           n  == Len(ts)
<1>1. n \in Nat /\ Len(rs) = n + 1 /\ rs[1] = Head(rs) /\ \A i \in 1..n : ts[i] = rs[i + 1]
  BY HeadTailProperties, LenProperties DEF IsSequence
<1>2. /\ \A i \in 1..n : i + 1 \in 1..(n + 1)
      /\ \A i \in 1..(n + 1) : i = 1 \/ (i - 1 \in 1..n /\ (i - 1) + 1 = i)
      /\ 1 \in 1..(n + 1)
  BY <1>1
<1> HIDE DEF ts, n
<1>3. (\A i \in 1..n : ~Concerns(ts[i], topic)) <=> (\A i \in 2..(n + 1) : ~Concerns(rs[i], topic))
  <2>1. /\ \A i \in 1..n : i + 1 \in 2..(n + 1)
        /\ \A i \in 2..(n + 1) : i - 1 \in 1..n /\ (i - 1) + 1 = i
    BY <1>1
  <2> QED  BY <1>1, <2>1
<1>4. (\A i \in 1..(n + 1) : ~Concerns(rs[i], topic))
        <=> ~Concerns(rs[1], topic) /\ \A i \in 2..(n + 1) : ~Concerns(rs[i], topic)
  <2>1. \A i \in 1..(n + 1) : i = 1 \/ i \in 2..(n + 1)
    BY <1>1
  <2>2. 1 \in 1..(n + 1) /\ \A i \in 2..(n + 1) : i \in 1..(n + 1)
    BY <1>1
  <2> QED  BY <2>1, <2>2
<1> DEFINE LastAt(q, i, m) == /\ Concerns(q[i], topic) /\ q[i].type = "subscribe"
                              /\ \A j \in i + 1..m : ~Concerns(q[j], topic)
<1>5. \A i \in 1..n : LastAt(ts, i, n) <=> LastAt(rs, i + 1, n + 1)
  <2> TAKE i \in 1..n
  <2>1. /\ \A j \in i + 1..n : j \in 1..n /\ j + 1 \in (i + 1) + 1..(n + 1)
        /\ \A j \in (i + 1) + 1..(n + 1) : j - 1 \in i + 1..n /\ j - 1 \in 1..n /\ (j - 1) + 1 = j
    BY <1>1
  <2> QED  BY <1>1, <2>1
<1>6. (\E i \in 1..(n + 1) : LastAt(rs, i, n + 1))
        <=> LastAt(rs, 1, n + 1) \/ \E i \in 1..n : LastAt(ts, i, n)
  <2>1. ASSUME NEW i \in 1..(n + 1), LastAt(rs, i, n + 1), i # 1
        PROVE  \E k \in 1..n : LastAt(ts, k, n)
    <3>1. i - 1 \in 1..n /\ (i - 1) + 1 = i
      BY <1>1, <2>1
    <3> HIDE DEF LastAt
    <3> QED  BY <1>5, <2>1, <3>1
  <2> HIDE DEF LastAt
  <2> QED  BY <1>2, <1>5, <2>1
<1>7. LastAt(rs, 1, n + 1) <=> /\ Concerns(rs[1], topic) /\ rs[1].type = "subscribe"
                               /\ \A i \in 2..(n + 1) : ~Concerns(rs[i], topic)
  <2>1. 1 + 1 = 2
    OBVIOUS
  <2> QED  BY <2>1
<1>8. /\ EndsWith(topics, rs, topic)
           <=> \/ topic \in topics /\ \A i \in 1..(n + 1) : ~Concerns(rs[i], topic)
               \/ \E i \in 1..(n + 1) : LastAt(rs, i, n + 1)
      /\ EndsWith(newTopics, ts, topic)
           <=> \/ topic \in newTopics /\ \A i \in 1..n : ~Concerns(ts[i], topic)
               \/ \E i \in 1..n : LastAt(ts, i, n)
  BY <1>1 DEF EndsWith, n
<1> HIDE DEF LastAt
<1> QED  BY <1>1, <1>3, <1>4, <1>6, <1>7, <1>8 DEF ts

-----------------------------------------------------------------------------
\* What leaves the requests, the broker's topics and the active ones alone.
LEMMA BrokerUntouched ==
  ASSUME IInv, BrokerInv,
         UNCHANGED <<brokerTopics, requests, losses>>, connected => connected',
         ToSet(activeSubscriptions') = ToSet(activeSubscriptions)
  PROVE  BrokerInv'
BY DEF BrokerInv, TopicsIn, BrokerKeepsUp, WillHave

\* A request about one topic is sent, or no topic, and the client's list follows.
LEMMA SentKeepsBroker ==
  ASSUME IInv, IInv', BrokerInv, NEW r, requests' = Sent(r), r.type # "publish" => r.topic \in Topics,
         UNCHANGED <<brokerTopics, losses, connected>>,
         \A topic \in Topics : topic \in ToSet(activeSubscriptions')
           <=> IF Concerns(r, topic) THEN r.type = "subscribe" ELSE topic \in ToSet(activeSubscriptions),
         ToSet(activeSubscriptions') \subseteq Topics
  PROVE  BrokerInv'
<1>1. IsSequence(requests) /\ RequestsInv /\ RequestsInv'
  BY DEF IInv, RequestsInv
<1>2. TopicsIn(requests')
  <2>1. CASE ~connected
    BY <2>1 DEF Sent, BrokerInv
  <2>2. CASE connected
    <3> DEFINE S == ToSet(requests) \cup {r}
               n == Len(requests)
    <3>1. requests' = Append(requests, r) /\ requests \in Seq(S) /\ r \in S
      BY <1>1, <2>2 DEF Sent, IsSequence
    <3>2. /\ n \in Nat /\ Len(requests') = n + 1
          /\ \A i \in 1..n : requests'[i] = requests[i]
          /\ requests'[n + 1] = r
      BY <3>1, AppendElements
    <3>3. \A i \in 1..(n + 1) : i \in 1..n \/ i = n + 1
      BY <3>2
    <3> QED  BY <3>2, <3>3 DEF TopicsIn, BrokerInv
  <2> QED  BY <2>1, <2>2
<1>3. ASSUME losses = 0
      PROVE  ToSet(activeSubscriptions') = {topic \in Topics : EndsWith(brokerTopics', requests', topic)}
  <2>1. connected /\ requests' = Append(requests, r)
    BY <1>3 DEF BrokerInv, Sent
  <2>2. ToSet(activeSubscriptions) = {topic \in Topics : EndsWith(brokerTopics, requests, topic)}
    BY <1>1, <1>3, WillHaveIsEndsWith DEF BrokerInv, BrokerKeepsUp
  <2>3. \A topic \in Topics :
          EndsWith(brokerTopics', requests', topic)
            <=> IF Concerns(r, topic) THEN r.type = "subscribe" ELSE topic \in ToSet(activeSubscriptions)
    BY <1>1, <2>1, <2>2, EndsWithAppend
  <2> QED  BY <2>3
<1>4. BrokerKeepsUp'
  <2>1. \A topic : WillHave(topic)' <=> EndsWith(brokerTopics', requests', topic)
    <3>1. DOMAIN requests' = 1..Len(requests')
      BY <1>1, LenProperties DEF RequestsInv, IsSequence
    <3> QED  BY <3>1 DEF WillHave, EndsWith
  <2> QED  BY <1>3, <2>1 DEF BrokerKeepsUp
<1> QED  BY <1>2, <1>4 DEF BrokerInv

LEMMA AnswerKeepsBroker ==
  ASSUME IInv, IInv', BrokerInv, OnSubscribe \/ OnUnsubscribe \/ OnPublish
  PROVE  BrokerInv'
<1> DEFINE r == Head(requests)
<1>1. IsSequence(requests) /\ RequestsInv /\ RequestsInv'
  BY DEF IInv, RequestsInv
<1>2. /\ requests # <<>> /\ requests' = Tail(requests)
      /\ UNCHANGED <<connected, losses, activeSubscriptions>>
  BY DEF OnSubscribe, OnUnsubscribe, OnPublish, Answered, counters
<1>3. /\ Len(requests) \in Nat /\ Len(requests') = Len(requests) - 1
      /\ requests[1] = r /\ 1 \in 1..Len(requests)
      /\ \A i \in 1..Len(requests') : requests'[i] = requests[i + 1] /\ i + 1 \in 1..Len(requests)
  <2>1. /\ Len(requests) \in Nat /\ Len(requests') = Len(requests) - 1
        /\ requests[1] = r /\ 1 <= Len(requests)
        /\ \A i \in 1..Len(requests') : requests'[i] = requests[i + 1]
    BY <1>1, <1>2, HeadTailProperties, EmptySeq, LenProperties DEF IsSequence
  <2> QED  BY <2>1
<1> HIDE DEF r
<1>4. TopicsIn(requests') /\ (r.type # "publish" => r.topic \in Topics)
  BY <1>3 DEF TopicsIn, BrokerInv
<1>5. /\ brokerTopics' \subseteq Topics
      /\ \A topic \in Topics : topic \in brokerTopics'
           <=> IF Concerns(r, topic) THEN r.type = "subscribe" ELSE topic \in brokerTopics
  <2>1. CASE OnSubscribe
    BY <1>4, <2>1 DEF OnSubscribe, Answered, BrokerInv, Concerns, r
  <2>2. CASE OnUnsubscribe
    BY <1>4, <2>2 DEF OnUnsubscribe, Answered, BrokerInv, Concerns, r
  <2>3. CASE OnPublish
    BY <1>4, <2>3 DEF OnPublish, Answered, BrokerInv, Concerns, r
  <2> QED  BY <2>1, <2>2, <2>3
<1>6. \A topic \in Topics :
        EndsWith(brokerTopics', requests', topic) <=> EndsWith(brokerTopics, requests, topic)
  BY <1>1, <1>2, <1>5, EndsWithTail DEF r
<1>7. BrokerKeepsUp'
  <2>1. \A topic : WillHave(topic)' <=> EndsWith(brokerTopics', requests', topic)
    <3>1. DOMAIN requests' = 1..Len(requests')
      BY <1>1, LenProperties DEF RequestsInv, IsSequence
    <3> QED  BY <3>1 DEF WillHave, EndsWith
  <2>2. \A topic : WillHave(topic) <=> EndsWith(brokerTopics, requests, topic)
    BY <1>1, WillHaveIsEndsWith
  <2> QED  BY <1>2, <1>6, <2>1, <2>2 DEF BrokerKeepsUp, BrokerInv
<1> QED  BY <1>2, <1>4, <1>5, <1>7 DEF BrokerInv

LEMMA BrokerStep ==
  ASSUME IInv, IInv', ListInv, BrokerInv, [Next]_vars
  PROVE  BrokerInv'
<1> USE DEF clientVars, subscribeVars, publishVars, networkVars, loopVars, counters
<1>1. ASSUME NEW topic \in Topics, NEW reallocates, Subscribe(topic, reallocates)
      PROVE  BrokerInv'
  <2>1. UNCHANGED <<brokerTopics, losses, connected>>
    BY <1>1 DEF Subscribe
  <2>2. CASE IsSubscribed(topic)
    <3>1. UNCHANGED <<requests, activeSubscriptions>>
      BY <1>1, <2>2 DEF Subscribe
    <3> QED  BY <2>1, <3>1, BrokerUntouched
  <2>3. CASE ~IsSubscribed(topic)
    <3> DEFINE r == SubscribeRequest(subscribes + 1, topic)
    <3>1. requests' = Sent(r) /\ activeSubscriptions' = Append(activeSubscriptions, topic)
      BY <1>1, <2>3 DEF Subscribe
    <3>2. activeSubscriptions \in Seq(Topics)
      BY DEF ListInv, ListTypes
    <3>3. ToSet(activeSubscriptions') = ToSet(activeSubscriptions) \cup {topic}
          /\ ToSet(activeSubscriptions) \subseteq Topics
      BY <3>1, <3>2, AppendElements, LenProperties, ElementOfSeq DEF ToSet
    <3>4. r.type = "subscribe" /\ r.topic = topic
      BY DEF SubscribeRequest
    <3> HIDE DEF r
    <3> QED  BY <2>1, <3>1, <3>3, <3>4, SentKeepsBroker DEF Concerns
  <2> QED  BY <2>2, <2>3
<1>2. CASE PublishSend
  <2> DEFINE r == PublishRequest(MaxSubscribes + publishes + 1)
  <2>1. requests' = Sent(r) /\ UNCHANGED <<brokerTopics, losses, connected, activeSubscriptions>>
    BY <1>2 DEF PublishSend
  <2>2. r.type = "publish"
    BY DEF PublishRequest
  <2>3. ToSet(activeSubscriptions) \subseteq Topics
    BY LenProperties, ElementOfSeq DEF ListInv, ListTypes, ToSet
  <2> HIDE DEF r
  <2> QED  BY <2>1, <2>2, <2>3, SentKeepsBroker DEF Concerns
<1>3. CASE Erase
  <2>1. UNCHANGED <<brokerTopics, losses, connected>>
    BY <1>3 DEF Erase
  <2>2. CASE UNCHANGED <<activeSubscriptions, requests>>
    BY <2>1, <2>2, BrokerUntouched
  <2>3. CASE ~UNCHANGED <<activeSubscriptions, requests>>
    <3> DEFINE h == Head(slots)
               topic == subscriptions[h].topic
               r == UnsubscribeRequest(topic)
    <3>1. /\ ~moved /\ activeSubscriptions' = RemoveFirst(activeSubscriptions, topic)
          /\ requests' = Sent(r)
      BY <1>3, <2>3 DEF Erase
    <3>2. /\ activeSubscriptions \in Seq(Topics) /\ IsInjective(activeSubscriptions)
          /\ ToSet(activeSubscriptions) = TopicsOf(subscriptions)
          /\ ToSet(activeSubscriptions) \subseteq Topics
      BY LenProperties, ElementOfSeq DEF ListInv, ListTypes, ActiveMatchesSubscriptions, ToSet
    <3>3. topic \in TopicsOf(subscriptions)
      <4>1. h \in Nat \ {0} /\ h <= Len(subscriptions)
        BY <1>3, <3>1, HeadTailProperties DEF ListInv, ListTypes, ErasedIsThere, Erase
      <4>2. DOMAIN subscriptions = 1..Len(subscriptions) /\ Len(subscriptions) \in Nat
        BY LenProperties DEF ListInv, ListTypes
      <4>3. h \in DOMAIN subscriptions
        BY <4>1, <4>2
      <4> QED  BY <4>3 DEF TopicsOf
    <3>4. ToSet(activeSubscriptions') = ToSet(activeSubscriptions) \ {topic}
      BY <3>1, <3>2, <3>3, RemoveFirstProperties
    <3>5. r.type = "unsubscribe" /\ r.topic = topic
      BY DEF UnsubscribeRequest
    <3> HIDE DEF r, topic
    <3> QED  BY <2>1, <3>1, <3>2, <3>3, <3>4, <3>5, SentKeepsBroker DEF Concerns
  <2> QED  BY <2>2, <2>3
<1>4. CASE OnSubscribe \/ OnUnsubscribe \/ OnPublish
  BY <1>4, AnswerKeepsBroker
<1>5. CASE ConnectionLost
  <2>1. /\ requests' = <<>> /\ brokerTopics' = brokerTopics /\ losses' \in Nat /\ losses' # 0
    BY <1>5 DEF ConnectionLost, BrokerInv
  <2>2. TopicsIn(<<>>)
    BY DEF TopicsIn
  <2> QED  BY <2>1, <2>2 DEF BrokerInv, BrokerKeepsUp
<1>6. CASE \/ \E messageId \in PublishIds : PublishStore(messageId)
           \/ \E unsubscribe \in BOOLEAN : CallCallback(unsubscribe)
           \/ DispatchDone \/ Reconnect
           \/ \E topics \in SUBSET Topics : OnMessage(topics)
           \/ Quiet \/ UNCHANGED vars
  <2>1. /\ UNCHANGED <<brokerTopics, requests, losses, activeSubscriptions>>
        /\ connected => connected'
    BY <1>6 DEF PublishStore, CallCallback, DispatchDone, Reconnect, OnMessage, Quiet, vars
  <2> QED  BY <2>1, BrokerUntouched
<1> QED  BY <1>1, <1>2, <1>3, <1>4, <1>5, <1>6 DEF Next, LoopThread

\* The lists and the requests keep their invariant.
LEMMA ListsHold == Spec => [](ListInv /\ BrokerInv)
<1>1. Init => BrokerInv
  <2> SUFFICES ASSUME Init PROVE BrokerInv
    OBVIOUS
  <2>1. /\ activeSubscriptions = <<>> /\ requests = <<>> /\ brokerTopics = {}
        /\ losses = IF connected THEN 0 ELSE 1
    BY DEF Init
  <2>2. Len(<<>>) = 0 /\ DOMAIN <<>> = {} /\ 1..0 = {} /\ ToSet(<<>>) = {}
    BY EmptySeq DEF ToSet
  <2>3. \A topic : ~WillHave(topic)
    BY <2>1, <2>2 DEF WillHave
  <2> QED  BY <2>1, <2>2, <2>3 DEF BrokerInv, TopicsIn, BrokerKeepsUp
<1>2. IInv /\ ListInv /\ [Next]_vars => ListInv'
  BY ListStep DEF IInv
<1>3. IInv /\ IInv' /\ ListInv /\ BrokerInv /\ [Next]_vars => BrokerInv'
  BY BrokerStep
<1> QED  BY <1>1, <1>2, <1>3, ListInit, InitIInv, NextIInv, PTL DEF Spec

\* The client's callbacks, its active topics and what the broker has or will have
\* subscribed it to agree, whatever is subscribed while callbacks run and unsubscribe
\* themselves; the broker's part as long as the connection holds.
THEOREM ListsAgree == Spec => []SubscriptionsAgree
<1>1. ListInv /\ BrokerInv => SubscriptionsAgree
  BY DEF ListInv, BrokerInv, SubscriptionsAgree
<1> QED  BY <1>1, ListsHold, PTL

-----------------------------------------------------------------------------
(* The calls of callbacks. *)

IdAt(i) == subscriptions[slots[i]].id

\* What has been called was due and in order; and as long as the references are good,
\* what is due is what has been called and what the slots refer to, in that order.
CalledInv ==
  /\ called \in Seq(Nat)
  /\ ~shifted => ToSet(called) \subseteq due /\ Increasing(called)
  /\ loop = "undefined" => moved \/ shifted
  /\ loop = "calling" /\ ~moved /\ ~shifted =>
       /\ \A i \in 1..Len(slots) : slots[i] \in 1..Len(subscriptions)
       /\ \A i, j \in 1..Len(slots) : i < j => slots[i] < slots[j]
       /\ due = ToSet(called) \cup {IdAt(i) : i \in 1..Len(slots)}
       /\ \A i \in 1..Len(called), j \in 1..Len(slots) : called[i] < IdAt(j)

LEMMA IncreasingIds ==
  ASSUME ListInv
  PROVE  /\ \A i \in 1..Len(subscriptions) : subscriptions[i].id \in Nat
         /\ \A i, j \in 1..Len(subscriptions) : i < j => subscriptions[i].id < subscriptions[j].id
<1>1. \A i \in 1..Len(subscriptions) : subscriptions[i] \in Subscription
  BY ElementOfSeq DEF ListInv, ListTypes
<1>2. \A x \in Subscription : x.id \in Nat
  BY DEF Subscription, SubscribeIds
<1> QED  BY <1>1, <1>2 DEF ListInv, ListTypes

LEMMA OnMessageKeepsCalled ==
  ASSUME ListInv, CalledInv, NEW topics, OnMessage(topics)
  PROVE  CalledInv'
<1> DEFINE M == Matching(topics)
<1>1. /\ called' = <<>> /\ loop' = "calling" /\ UNCHANGED subscriptions
      /\ slots' \in InOrder(M)
      /\ due' = {s.id : s \in {t \in ToSet(subscriptions) : t.topic \in topics}}
  BY DEF OnMessage, clientVars, subscribeVars
<1>2. /\ DOMAIN slots' = 1..Len(slots') /\ ToSet(slots') = M /\ Increasing(slots')
      /\ M \subseteq 1..Len(subscriptions)
  BY <1>1, MatchingSlots DEF ListInv
<1>3. /\ <<>> \in Seq(Nat) /\ Len(<<>>) = 0 /\ 1..0 = {} /\ DOMAIN <<>> = {} /\ ToSet(<<>>) = {}
      /\ Increasing(<<>>)
  BY EmptySeq DEF ToSet, Increasing
<1>4. due' = {subscriptions[i].id : i \in M}
  <2>1. {t \in ToSet(subscriptions) : t.topic \in topics} = {subscriptions[i] : i \in M}
    BY DEF Matching, ToSet
  <2> HIDE DEF M
  <2> QED  BY <1>1, <2>1
<1> HIDE DEF M
<1>5. M = {slots'[i] : i \in 1..Len(slots')}
  BY <1>2 DEF ToSet
<1>6. due' = {IdAt(i)' : i \in 1..Len(slots')}
  <2>1. {IdAt(i)' : i \in 1..Len(slots')} = {subscriptions[slots'[i]].id : i \in 1..Len(slots')}
    BY <1>1 DEF IdAt
  <2> QED  BY <1>4, <1>5, <2>1
<1> QED  BY <1>1, <1>2, <1>3, <1>5, <1>6 DEF CalledInv, Increasing

LEMMA CallKeepsCalled ==
  ASSUME ListInv, CalledInv, NEW unsubscribe \in BOOLEAN, CallCallback(unsubscribe)
  PROVE  CalledInv'
<1> DEFINE h == Head(slots)
           id == subscriptions[h].id
           n == Len(called)
           m == Len(slots)
<1>1. /\ loop = "calling" /\ slots # <<>>
      /\ UNCHANGED <<subscriptions, moved, shifted, due>>
  BY DEF CallCallback, clientVars, subscribeVars
<1>2. /\ h \in Nat \ {0} /\ h = slots[1] /\ m \in Nat \ {0} /\ n \in Nat
      /\ Tail(slots) \in Seq(Nat \ {0}) /\ Len(Tail(slots)) = m - 1
      /\ \A i \in 1..(m - 1) : Tail(slots)[i] = slots[i + 1]
  BY <1>1, HeadTailProperties, EmptySeq, LenProperties DEF ListInv, ListTypes, CalledInv
<1>3. CASE loop' = "undefined"
  <2>1. UNCHANGED <<called, slots>> /\ (moved \/ h > Len(subscriptions))
    BY <1>3 DEF CallCallback
  <2>2. moved \/ shifted
    <3> SUFFICES ASSUME ~moved, ~shifted PROVE FALSE
      OBVIOUS
    <3>1. h \in 1..Len(subscriptions)
      BY <1>1, <1>2 DEF CalledInv
    <3> QED  BY <2>1, <3>1
  <2> QED  BY <1>1, <1>3, <2>1, <2>2 DEF CalledInv
<1>4. CASE loop' # "undefined"
  <2>1. /\ ~moved /\ h <= Len(subscriptions) /\ called' = Append(called, id)
        /\ loop' = "calling" => slots' = Tail(slots)
    BY <1>4 DEF CallCallback
  <2>2. Len(subscriptions) \in Nat /\ h \in 1..Len(subscriptions)
    BY <1>2, <2>1, LenProperties DEF ListInv, ListTypes
  <2>3. id \in Nat
    BY <2>2, IncreasingIds
  <2> HIDE DEF id
  <2>4. /\ called' \in Seq(Nat) /\ Len(called') = n + 1 /\ DOMAIN called' = 1..(n + 1)
        /\ DOMAIN called = 1..n
        /\ \A i \in 1..n : called'[i] = called[i] /\ called[i] \in Nat
        /\ called'[n + 1] = id
        /\ ToSet(called') = ToSet(called) \cup {id}
    BY <2>1, <2>3, AppendElements, ElementOfSeq DEF CalledInv
  <2>5. CASE shifted
    BY <1>1, <1>4, <2>4, <2>5 DEF CalledInv
  <2>6. CASE ~shifted
    <3>1. /\ \A i \in 1..m : slots[i] \in 1..Len(subscriptions)
          /\ \A i, j \in 1..m : i < j => slots[i] < slots[j]
          /\ due = ToSet(called) \cup {IdAt(i) : i \in 1..m}
          /\ \A i \in 1..n, j \in 1..m : called[i] < IdAt(j)
          /\ Increasing(called)
      BY <1>1, <2>1, <2>6 DEF CalledInv
    <3>2. 1 \in 1..m /\ IdAt(1) = id /\ \A i \in 1..(m - 1) : i + 1 \in 1..m /\ 1 < i + 1
      BY <1>2 DEF IdAt, id
    <3> HIDE DEF n, m
    <3>3. \A i \in 1..(n + 1) : i \in 1..n \/ i = n + 1
      BY <1>2
    <3>4. Increasing(called')
      <4> SUFFICES ASSUME NEW i \in 1..(n + 1), NEW j \in 1..(n + 1), i < j
                   PROVE  called'[i] < called'[j]
        BY <2>4 DEF Increasing
      <4>1. i \in 1..n
        BY <1>2
      <4>2. CASE j \in 1..n
        BY <2>4, <3>1, <4>1, <4>2 DEF Increasing
      <4>3. CASE j = n + 1
        BY <2>4, <3>1, <3>2, <4>1, <4>3
      <4> QED  BY <3>3, <4>2, <4>3
    <3>5. ToSet(called') \subseteq due
      BY <2>4, <3>1, <3>2
    <3>6. ASSUME loop' = "calling"
          PROVE  /\ \A i \in 1..Len(slots') : slots'[i] \in 1..Len(subscriptions)
                 /\ \A i, j \in 1..Len(slots') : i < j => slots'[i] < slots'[j]
                 /\ due = ToSet(called') \cup {IdAt(i)' : i \in 1..Len(slots')}
                 /\ \A i \in 1..Len(called'), j \in 1..Len(slots') : called'[i] < IdAt(j)'
      <4>1. /\ Len(slots') = m - 1
            /\ \A i \in 1..(m - 1) : slots'[i] = slots[i + 1] /\ IdAt(i)' = IdAt(i + 1)
        BY <1>1, <1>2, <2>1, <3>6 DEF IdAt, m
      <4>2. \A i \in 1..(m - 1) : id < IdAt(i + 1)
        <5> TAKE i \in 1..(m - 1)
        <5>1. slots[1] < slots[i + 1] /\ {slots[1], slots[i + 1]} \subseteq 1..Len(subscriptions)
          BY <3>1, <3>2
        <5> QED  BY <1>2, <5>1, IncreasingIds DEF IdAt, id
      <4>3. \A i \in 1..m : i = 1 \/ (i - 1 \in 1..(m - 1) /\ (i - 1) + 1 = i)
        BY <1>2
      <4>4. \A i \in 1..Len(slots') : slots'[i] \in 1..Len(subscriptions)
        BY <3>1, <3>2, <4>1
      <4>5. \A i, j \in 1..Len(slots') : i < j => slots'[i] < slots'[j]
        <5> SUFFICES ASSUME NEW i \in 1..(m - 1), NEW j \in 1..(m - 1), i < j
                     PROVE  slots'[i] < slots'[j]
          BY <4>1
        <5>1. i + 1 < j + 1
          OBVIOUS
        <5> QED  BY <3>1, <3>2, <4>1, <5>1
      <4>6. {IdAt(i) : i \in 1..m} = {id} \cup {IdAt(i)' : i \in 1..(m - 1)}
        <5>1. \A i \in 1..m : IdAt(i) \in {id} \cup {IdAt(k)' : k \in 1..(m - 1)}
          <6> TAKE i \in 1..m
          <6>1. CASE i = 1
            BY <3>2, <6>1
          <6>2. CASE i # 1
            <7>1. i - 1 \in 1..(m - 1) /\ IdAt(i - 1)' = IdAt(i)
              BY <4>1, <4>3, <6>2
            <7> QED  BY <7>1
          <6> QED  BY <6>1, <6>2
        <5>2. \A i \in 1..(m - 1) : IdAt(i)' \in {IdAt(k) : k \in 1..m}
          BY <3>2, <4>1
        <5> QED  BY <3>2, <5>1, <5>2
      <4>7. due = ToSet(called') \cup {IdAt(i)' : i \in 1..Len(slots')}
        BY <2>4, <3>1, <4>1, <4>6
      <4>8. \A i \in 1..Len(called'), j \in 1..Len(slots') : called'[i] < IdAt(j)'
        <5>1. ASSUME NEW i \in 1..(n + 1), NEW j \in 1..(m - 1)
              PROVE  called'[i] < IdAt(j + 1)
          <6>1. CASE i \in 1..n
            BY <2>4, <3>1, <3>2, <6>1
          <6>2. CASE i = n + 1
            BY <2>4, <4>2, <6>2
          <6> QED  BY <3>3, <6>1, <6>2
        <5> QED  BY <2>4, <4>1, <5>1
      <4> QED  BY <4>4, <4>5, <4>7, <4>8
    <3> QED  BY <1>1, <1>4, <2>4, <3>4, <3>5, <3>6 DEF CalledInv
  <2> QED  BY <2>5, <2>6
<1> QED  BY <1>3, <1>4

LEMMA CalledStep ==
  ASSUME CountersInv, ListInv, CalledInv, [Next]_vars
  PROVE  CalledInv'
<1> USE DEF clientVars, subscribeVars, publishVars, networkVars, loopVars, counters
<1>1. ASSUME NEW topics, OnMessage(topics)
      PROVE  CalledInv'
  BY <1>1, OnMessageKeepsCalled
<1>2. ASSUME NEW unsubscribe \in BOOLEAN, CallCallback(unsubscribe)
      PROVE  CalledInv'
  BY <1>2, CallKeepsCalled
<1>3. ASSUME NEW topic \in Topics, NEW reallocates, Subscribe(topic, reallocates)
      PROVE  CalledInv'
  <2> DEFINE s == [topic |-> topic, id |-> subscribes + 1]
             n == Len(subscriptions)
  <2>1. /\ UNCHANGED <<loop, slots, shifted, due, called>>
        /\ subscriptions' = Append(subscriptions, s)
        /\ moved /\ loop # "idle" => moved'
    BY <1>3 DEF Subscribe
  <2>2. s \in Subscription /\ subscriptions \in Seq(Subscription)
    <3>1. subscribes + 1 \in SubscribeIds
      BY <1>3, MqttClientAssumption DEF Subscribe, SubscribeIds, CountersInv
    <3> QED  BY <3>1 DEF Subscription, ListInv, ListTypes
  <2>3. /\ n \in Nat /\ Len(subscriptions') = n + 1
        /\ \A i \in 1..n : subscriptions'[i] = subscriptions[i]
    BY <2>1, <2>2, AppendElements
  <2>4. \A i \in 1..n : i \in 1..(n + 1)
    BY <2>3
  <2>5. CASE loop = "calling" /\ ~moved' /\ ~shifted
    <3> HIDE DEF s, n
    <3>1. \A i \in 1..Len(slots) : slots[i] \in 1..n /\ slots[i] \in 1..(n + 1) /\ IdAt(i)' = IdAt(i)
      BY <2>1, <2>3, <2>4, <2>5 DEF CalledInv, IdAt, n
    <3>2. {IdAt(i)' : i \in 1..Len(slots)} = {IdAt(i) : i \in 1..Len(slots)}
      BY <3>1
    <3> QED  BY <2>1, <2>3, <2>5, <3>1, <3>2 DEF CalledInv
  <2>6. CASE ~(loop = "calling" /\ ~moved' /\ ~shifted)
    BY <2>1, <2>6 DEF CalledInv
  <2> QED  BY <2>5, <2>6
<1>4. CASE Erase
  <2>1. loop' = "calling" /\ called' = called /\ due' = due /\ moved' = moved
        /\ (~shifted' => moved /\ ~shifted)
    BY <1>4 DEF Erase
  <2> QED  BY <2>1 DEF CalledInv
<1>5. CASE DispatchDone
  BY <1>5 DEF DispatchDone, CalledInv
<1>6. CASE \/ PublishSend \/ \E messageId \in PublishIds : PublishStore(messageId)
           \/ OnSubscribe \/ OnUnsubscribe \/ OnPublish \/ Reconnect \/ ConnectionLost
           \/ Quiet \/ UNCHANGED vars
  <2>1. UNCHANGED <<subscriptions, slots, loop, moved, shifted, due, called>>
    BY <1>6 DEF PublishSend, PublishStore, OnSubscribe, OnUnsubscribe, OnPublish, Answered,
      Reconnect, ConnectionLost, Quiet, vars
  <2> QED  BY <2>1 DEF CalledInv, IdAt
<1> QED  BY <1>1, <1>2, <1>3, <1>4, <1>5, <1>6 DEF Next, LoopThread

\* Whatever is erased or appended, the slots that are left refer to callbacks that were
\* subscribed after those that have been called.
Later(first) ==
  \A i \in 1..Len(called), j \in first..Len(slots) :
    slots[j] \in 1..Len(subscriptions) => called[i] < IdAt(j)

CallsRise ==
  /\ called \in Seq(Nat) /\ Increasing(called)
  /\ \A i \in 1..Len(called) : called[i] <= subscribes
  /\ loop \in {"calling", "erasing"} => \A i, j \in 1..Len(slots) : i < j => slots[i] < slots[j]
  /\ loop = "calling" /\ ~moved => Later(1)
  /\ loop = "erasing" /\ ~moved => Later(2)

LEMMA OnMessageRises ==
  ASSUME ListInv, CallsRise, NEW topics, OnMessage(topics)
  PROVE  CallsRise'
<1>1. called' = <<>> /\ loop' = "calling" /\ slots' \in InOrder(Matching(topics))
  BY DEF OnMessage
<1>2. DOMAIN slots' = 1..Len(slots') /\ Increasing(slots')
  BY <1>1, MatchingSlots DEF ListInv
<1>3. /\ <<>> \in Seq(Nat) /\ Len(<<>>) = 0 /\ 1..0 = {} /\ Increasing(<<>>)
  BY EmptySeq DEF Increasing
<1> QED  BY <1>1, <1>2, <1>3 DEF CallsRise, Later, Increasing

LEMMA CallRises ==
  ASSUME ListInv, CallsRise, NEW unsubscribe \in BOOLEAN, CallCallback(unsubscribe)
  PROVE  CallsRise'
<1> DEFINE h == Head(slots)
           id == subscriptions[h].id
           n == Len(called)
           m == Len(slots)
<1>1. /\ loop = "calling" /\ slots # <<>> /\ subscribes' = subscribes
      /\ UNCHANGED <<subscriptions, moved>>
  BY DEF CallCallback, clientVars, subscribeVars, counters
<1>2. /\ h \in Nat \ {0} /\ h = slots[1] /\ m \in Nat \ {0} /\ n \in Nat
      /\ Tail(slots) \in Seq(Nat \ {0}) /\ Len(Tail(slots)) = m - 1
      /\ \A i \in 1..(m - 1) : Tail(slots)[i] = slots[i + 1]
      /\ \A i \in 1..m : slots[i] \in Nat
  BY <1>1, HeadTailProperties, EmptySeq, LenProperties, ElementOfSeq
     DEF ListInv, ListTypes, CallsRise
<1>3. CASE loop' = "undefined"
  <2>1. UNCHANGED <<called, slots>>
    BY <1>3 DEF CallCallback
  <2> QED  BY <1>1, <1>3, <2>1 DEF CallsRise
<1>4. CASE loop' # "undefined"
  <2>1. /\ ~moved /\ h <= Len(subscriptions) /\ called' = Append(called, id)
        /\ loop' = "calling" => slots' = Tail(slots)
        /\ loop' = "erasing" => slots' = slots
        /\ loop' \in {"calling", "erasing"}
    BY <1>4 DEF CallCallback
  <2>2. Len(subscriptions) \in Nat /\ h \in 1..Len(subscriptions)
    BY <1>2, <2>1, LenProperties DEF ListInv, ListTypes
  <2>3. id \in Nat /\ id <= subscribes
    BY <2>2, IncreasingIds DEF ListInv, ListTypes
  <2>4. /\ \A j \in 2..m : slots[1] < slots[j]
        /\ \A i, j \in 1..m : i < j => slots[i] < slots[j]
        /\ \A i \in 1..n, j \in 1..m : slots[j] \in 1..Len(subscriptions) => called[i] < IdAt(j)
        /\ Increasing(called) /\ \A i \in 1..n : called[i] <= subscribes
    <3>1. \A i, j \in 1..m : i < j => slots[i] < slots[j]
      BY <1>1 DEF CallsRise
    <3>2. \A j \in 2..m : 1 \in 1..m /\ j \in 1..m /\ 1 < j
      BY <1>2
    <3> QED  BY <1>1, <2>1, <3>1, <3>2 DEF CallsRise, Later
  <2>5. \A j \in 2..m : slots[j] \in 1..Len(subscriptions) => id < IdAt(j)
    <3> SUFFICES ASSUME NEW j \in 2..m, slots[j] \in 1..Len(subscriptions) PROVE id < IdAt(j)
      OBVIOUS
    <3>1. h < slots[j]
      BY <1>2, <2>4
    <3> QED  BY <2>2, <3>1, IncreasingIds DEF IdAt
  <2>6. \A i \in 1..n : called[i] < id
    <3>1. 1 \in 1..m /\ IdAt(1) = id /\ slots[1] \in 1..Len(subscriptions)
      BY <1>2, <2>2 DEF IdAt
    <3> QED  BY <2>4, <3>1
  <2> HIDE DEF id, h
  <2>7. /\ called' \in Seq(Nat) /\ Len(called') = n + 1 /\ DOMAIN called' = 1..(n + 1)
        /\ DOMAIN called = 1..n
        /\ \A i \in 1..n : called'[i] = called[i] /\ called[i] \in Nat
        /\ called'[n + 1] = id
    BY <2>1, <2>3, AppendElements, ElementOfSeq DEF CallsRise
  <2> HIDE DEF n, m
  <2>8. \A i \in 1..(n + 1) : i \in 1..n \/ i = n + 1
    BY <1>2
  <2>9. Increasing(called') /\ \A i \in 1..(n + 1) : called'[i] <= subscribes
    <3>1. ASSUME NEW i \in 1..(n + 1), NEW j \in 1..(n + 1), i < j PROVE called'[i] < called'[j]
      <4>1. i \in 1..n
        BY <1>2, <3>1
      <4>2. CASE j \in 1..n
        BY <2>4, <2>7, <3>1, <4>1, <4>2 DEF Increasing
      <4>3. CASE j = n + 1
        BY <2>6, <2>7, <4>1, <4>3
      <4> QED  BY <2>8, <4>2, <4>3
    <3>2. \A i \in 1..(n + 1) : called'[i] <= subscribes
      BY <2>3, <2>4, <2>7, <2>8
    <3> QED  BY <2>7, <3>1, <3>2 DEF Increasing
  <2>10. \A i \in 1..(n + 1), j \in 2..m : slots[j] \in 1..Len(subscriptions) => called'[i] < IdAt(j)
    <3> SUFFICES ASSUME NEW i \in 1..(n + 1), NEW j \in 2..m, slots[j] \in 1..Len(subscriptions)
                 PROVE  called'[i] < IdAt(j)
      OBVIOUS
    <3>1. j \in 1..m
      BY <1>2
    <3>2. CASE i \in 1..n
      BY <2>4, <2>7, <3>1, <3>2
    <3>3. CASE i = n + 1
      BY <2>5, <2>7, <3>3
    <3> QED  BY <2>8, <3>2, <3>3
  <2>11. CASE loop' = "erasing"
    <3>1. slots' = slots /\ \A j \in 2..m : IdAt(j)' = IdAt(j)
      BY <1>1, <2>1, <2>11 DEF IdAt
    <3>2. Later(2)'
      BY <1>1, <2>7, <2>10, <3>1 DEF Later, m
    <3> QED  BY <1>1, <2>4, <2>7, <2>9, <2>11, <3>1, <3>2 DEF CallsRise, m
  <2>12. CASE loop' = "calling"
    <3>1. /\ Len(slots') = m - 1
          /\ \A i \in 1..(m - 1) : /\ slots'[i] = slots[i + 1] /\ IdAt(i)' = IdAt(i + 1)
                                   /\ i + 1 \in 2..m /\ i + 1 \in 1..m
      <4>1. Len(slots') = m - 1 /\ \A i \in 1..(m - 1) : slots'[i] = slots[i + 1]
        BY <1>2, <2>1, <2>12
      <4>2. \A i \in 1..(m - 1) : IdAt(i)' = IdAt(i + 1)
        BY <1>1, <4>1 DEF IdAt
      <4>3. \A i \in 1..(m - 1) : i + 1 \in 2..m /\ i + 1 \in 1..m
        BY <1>2
      <4> QED  BY <4>1, <4>2, <4>3
    <3>2. Later(1)'
      BY <1>1, <2>7, <2>10, <3>1 DEF Later
    <3>3. \A i, j \in 1..Len(slots') : i < j => slots'[i] < slots'[j]
      <4> SUFFICES ASSUME NEW i \in 1..(m - 1), NEW j \in 1..(m - 1), i < j
                   PROVE  slots'[i] < slots'[j]
        BY <3>1
      <4>1. i + 1 < j + 1
        OBVIOUS
      <4> QED  BY <2>4, <3>1, <4>1
    <3> QED  BY <1>1, <2>7, <2>9, <2>12, <3>2, <3>3 DEF CallsRise
  <2> QED  BY <2>1, <2>11, <2>12
<1> QED  BY <1>3, <1>4

\* What is appended has a later id than everything that was called.
LEMMA SubscribeRises ==
  ASSUME CountersInv, ListInv, CallsRise, NEW topic \in Topics, NEW reallocates,
         Subscribe(topic, reallocates)
  PROVE  CallsRise'
<1> DEFINE s == [topic |-> topic, id |-> subscribes + 1]
           n == Len(subscriptions)
<1>1. /\ UNCHANGED <<loop, slots, called>> /\ subscribes' = subscribes + 1
      /\ subscriptions' = Append(subscriptions, s)
      /\ moved /\ loop # "idle" => moved'
  BY DEF Subscribe
<1>2. s \in Subscription /\ subscriptions \in Seq(Subscription) /\ subscribes \in Nat
  <2>1. subscribes + 1 \in SubscribeIds /\ subscribes \in Nat
    BY MqttClientAssumption DEF Subscribe, SubscribeIds, CountersInv
  <2> QED  BY <2>1 DEF Subscription, ListInv, ListTypes
<1>3. /\ n \in Nat /\ Len(subscriptions') = n + 1
      /\ \A i \in 1..n : subscriptions'[i] = subscriptions[i]
      /\ subscriptions'[n + 1] = s
  BY <1>1, <1>2, AppendElements
<1>4. \A i \in 1..Len(called) : called[i] \in Nat /\ called[i] <= subscribes
  BY ElementOfSeq DEF CallsRise
<1>5. \A j \in 1..Len(slots) : slots[j] \in 1..(n + 1) =>
        \/ slots[j] \in 1..n /\ IdAt(j)' = IdAt(j)
        \/ IdAt(j)' = subscribes + 1
  <2> SUFFICES ASSUME NEW j \in 1..Len(slots), slots[j] \in 1..(n + 1)
               PROVE  \/ slots[j] \in 1..n /\ IdAt(j)' = IdAt(j)
                      \/ IdAt(j)' = subscribes + 1
    OBVIOUS
  <2>1. slots[j] \in 1..n \/ slots[j] = n + 1
    BY <1>3
  <2> HIDE DEF n
  <2> QED  BY <1>1, <1>3, <2>1 DEF IdAt
<1> HIDE DEF s, n
<1>6. ASSUME NEW first \in {1, 2}, Later(first) PROVE Later(first)'
  <2> SUFFICES ASSUME NEW i \in 1..Len(called), NEW j \in first..Len(slots), slots[j] \in 1..(n + 1)
               PROVE  called[i] < IdAt(j)'
    BY <1>1, <1>3 DEF Later
  <2>1. j \in 1..Len(slots)
    OBVIOUS
  <2>2. CASE slots[j] \in 1..n /\ IdAt(j)' = IdAt(j)
    BY <1>6, <2>2 DEF Later, n
  <2>3. CASE IdAt(j)' = subscribes + 1
    BY <1>2, <1>4, <2>3
  <2> QED  BY <1>5, <2>1, <2>2, <2>3
<1>7. \A i \in 1..Len(called') : called'[i] <= subscribes'
  BY <1>1, <1>2, <1>4
<1>8. Later(1) => Later(1)'
  BY <1>6
<1>9. Later(2) => Later(2)'
  BY <1>6
<1> QED  BY <1>1, <1>7, <1>8, <1>9 DEF CallsRise

\* After an erase each slot behind refers to the callback after the one before.
LEMMA EraseRises ==
  ASSUME ListInv, CallsRise, Erase
  PROVE  CallsRise'
<1> DEFINE h == Head(slots)
           m == Len(slots)
           n == Len(subscriptions)
<1>1. /\ loop = "erasing" /\ loop' = "calling" /\ slots' = Tail(slots)
      /\ UNCHANGED <<called, moved, subscribes>>
      /\ ~moved => subscriptions' = RemoveAt(subscriptions, h)
  BY DEF Erase, counters
<1>2. /\ slots # <<>> /\ slots \in Seq(Nat \ {0}) /\ (~moved => h <= n)
  BY <1>1 DEF ListInv, ListTypes, ErasedIsThere
<1>3. /\ h \in Nat \ {0} /\ h = slots[1] /\ m \in Nat \ {0} /\ n \in Nat
      /\ Len(slots') = m - 1
      /\ \A i \in 1..(m - 1) : slots'[i] = slots[i + 1]
      /\ \A i \in 1..m : slots[i] \in Nat \ {0}
  BY <1>1, <1>2, HeadTailProperties, EmptySeq, LenProperties, ElementOfSeq
     DEF ListInv, ListTypes
<1>4. \A i, j \in 1..m : i < j => slots[i] < slots[j]
  BY <1>1 DEF CallsRise
<1>5. \A i \in 1..(m - 1) : i + 1 \in 1..m /\ i + 1 \in 2..m /\ 1 \in 1..m /\ 1 < i + 1
  BY <1>3
<1>6. \A i, j \in 1..Len(slots') : i < j => slots'[i] < slots'[j]
  <2> SUFFICES ASSUME NEW i \in 1..(m - 1), NEW j \in 1..(m - 1), i < j
               PROVE  slots'[i] < slots'[j]
    BY <1>3
  <2>1. i + 1 < j + 1
    OBVIOUS
  <2> QED  BY <1>3, <1>4, <1>5, <2>1
<1>7. ~moved => Later(1)'
  <2> SUFFICES ASSUME ~moved, NEW i \in 1..Len(called), NEW j \in 1..(m - 1),
                      slots'[j] \in 1..Len(subscriptions')
               PROVE  called[i] < IdAt(j)'
    BY <1>1, <1>3 DEF Later
  <2> DEFINE k == slots[j + 1]
  <2>1. h \in 1..n /\ subscriptions \in Seq(Subscription)
    BY <1>2, <1>3 DEF ListInv, ListTypes
  <2>2. /\ Len(subscriptions') = n - 1
        /\ \A x \in 1..(n - 1) : subscriptions'[x] = IF x < h THEN subscriptions[x] ELSE subscriptions[x + 1]
    BY <1>1, <2>1, RemoveAtProperties
  <2>3. slots'[j] = k /\ k \in 1..(n - 1) /\ h < k /\ k \in 1..n /\ k + 1 \in 1..n
    BY <1>3, <1>4, <1>5, <2>2
  <2>4. IdAt(j)' = subscriptions[k + 1].id
    <3>1. IdAt(j)' = subscriptions'[k].id
      BY <2>3 DEF IdAt
    <3>2. ~(k < h)
      <4> HIDE DEF k, h, n
      <4> QED  BY <1>3, <2>3
    <3>3. subscriptions'[k] = subscriptions[k + 1]
      <4> HIDE DEF k, h, n
      <4> QED  BY <2>2, <2>3, <3>2
    <3> QED  BY <3>1, <3>3
  <2>5. called[i] < IdAt(j + 1)
    BY <1>1, <1>5, <2>3 DEF CallsRise, Later
  <2>6. IdAt(j + 1) = subscriptions[k].id
    BY DEF IdAt
  <2> HIDE DEF k, n
  <2>7. subscriptions[k].id < subscriptions[k + 1].id /\ subscriptions[k].id \in Nat
        /\ subscriptions[k + 1].id \in Nat
    BY <2>3, IncreasingIds DEF n
  <2>8. called[i] \in Nat
    BY ElementOfSeq DEF CallsRise
  <2> QED  BY <2>4, <2>5, <2>6, <2>7, <2>8
<1> QED  BY <1>1, <1>6, <1>7 DEF CallsRise

LEMMA RiseStep ==
  ASSUME CountersInv, ListInv, CallsRise, [Next]_vars
  PROVE  CallsRise'
<1> USE DEF clientVars, subscribeVars, publishVars, networkVars, loopVars, counters
<1>1. ASSUME NEW topics, OnMessage(topics)
      PROVE  CallsRise'
  BY <1>1, OnMessageRises
<1>2. ASSUME NEW unsubscribe \in BOOLEAN, CallCallback(unsubscribe)
      PROVE  CallsRise'
  BY <1>2, CallRises
<1>3. ASSUME NEW topic \in Topics, NEW reallocates, Subscribe(topic, reallocates)
      PROVE  CallsRise'
  BY <1>3, SubscribeRises
<1>4. CASE Erase
  BY <1>4, EraseRises
<1>5. CASE DispatchDone
  BY <1>5 DEF DispatchDone, CallsRise
<1>6. CASE \/ PublishSend \/ \E messageId \in PublishIds : PublishStore(messageId)
           \/ OnSubscribe \/ OnUnsubscribe \/ OnPublish \/ Reconnect \/ ConnectionLost
           \/ Quiet \/ UNCHANGED vars
  <2>1. UNCHANGED <<subscriptions, slots, loop, moved, called, subscribes>>
    BY <1>6 DEF PublishSend, PublishStore, OnSubscribe, OnUnsubscribe, OnPublish, Answered,
      Reconnect, ConnectionLost, Quiet, vars
  <2> QED  BY <2>1 DEF CallsRise, Later, IdAt
<1> QED  BY <1>1, <1>2, <1>3, <1>4, <1>5, <1>6 DEF Next, LoopThread

\* A message calls every callback that was subscribed when it came, unless one of them
\* unsubscribes itself or the vector is reallocated meanwhile (MQTTClient.cpp:151 and
\* 159): then callbacks are missed, and the theorem promises only that none is called
\* twice, and that those that are called are called in the order of their subscription.
THEOREM CallbacksCalled == Spec => []EveryCallbackCalled
<1>1. Init => CalledInv
  <2> SUFFICES ASSUME Init PROVE CalledInv
    OBVIOUS
  <2>1. /\ <<>> \in Seq(Nat) /\ ToSet(<<>>) = {} /\ Increasing(<<>>)
    BY EmptySeq DEF ToSet, Increasing
  <2> QED  BY <2>1 DEF Init, CalledInv
<1>2. ListInv /\ CalledInv /\ CallsRise => EveryCallbackCalled
  <2> SUFFICES ASSUME ListInv, CalledInv, loop = "calling", slots = <<>>, ~moved, ~shifted
               PROVE  ToSet(called) = due
    BY DEF CalledInv, CallsRise, EveryCallbackCalled
  <2>1. Len(slots) = 0 /\ 1..0 = {}
    OBVIOUS
  <2> QED  BY <2>1 DEF CalledInv
<1>3. CountersInv /\ ListInv /\ CalledInv /\ [Next]_vars => CalledInv'
  BY CalledStep
<1>4. CountersInv /\ ListInv /\ [Next]_vars => ListInv'
  BY ListStep
<1>5. IInv => CountersInv
  BY DEF IInv
<1>6. Init => CallsRise
  <2> SUFFICES ASSUME Init PROVE CallsRise
    OBVIOUS
  <2>1. <<>> \in Seq(Nat) /\ Len(<<>>) = 0 /\ 1..0 = {} /\ Increasing(<<>>)
    BY EmptySeq DEF Increasing
  <2> QED  BY <2>1 DEF Init, CallsRise
<1>7. CountersInv /\ ListInv /\ CallsRise /\ [Next]_vars => CallsRise'
  BY RiseStep
<1> QED  BY <1>1, <1>2, <1>3, <1>4, <1>5, <1>6, <1>7, ListInit, InitIInv, NextIInv, PTL DEF Spec

\* What the members of the client may hold, for any number of calls.
THEOREM ClientTypeCorrect == Spec => []TypeOK
<1>1. CountersInv /\ IdsInv /\ ListInv /\ BrokerInv => TypeOK
  <2> SUFFICES ASSUME CountersInv, IdsInv, ListInv, BrokerInv PROVE TypeOK
    OBVIOUS
  <2>1. ASSUME NEW i \in DOMAIN subscriptions
        PROVE  subscriptions[i].topic \in Topics /\ subscriptions[i].id \in 1..subscribes
    <3>1. i \in 1..Len(subscriptions) /\ subscriptions[i] \in Subscription
      BY LenProperties, ElementOfSeq DEF ListInv, ListTypes
    <3>2. subscriptions[i].topic \in Topics /\ subscriptions[i].id \in SubscribeIds
      BY <3>1 DEF Subscription
    <3> QED  BY <3>1, <3>2 DEF ListInv, ListTypes, SubscribeIds, CountersInv
  <2>2. ToSet(activeSubscriptions) \subseteq Topics
    BY LenProperties, ElementOfSeq DEF ListInv, ListTypes, ToSet
  <2>3. SubscribeIssued \subseteq SubscribeIds /\ PublishIssued \subseteq PublishIds
    BY MqttClientAssumption DEF CountersInv, SubscribeIssued, PublishIssued, SubscribeIds, PublishIds
  <2> QED  BY <2>1, <2>2, <2>3 DEF TypeOK, IdsInv, Issued, ListInv, ListTypes, BrokerInv
<1>2. IInv => CountersInv /\ IdsInv
  BY DEF IInv
<1> QED  BY <1>1, <1>2, ListsHold, InitIInv, NextIInv, PTL DEF Spec

-----------------------------------------------------------------------------
(* The Tasmota plugin: a physical device is stored once, unless a user     *)
(* renames it, for any topics, names and bounds.                           *)

CONSTANTS Names, MaxDevices, MaxQueue, MaxEvents
VARIABLES
  rows, knownDevices, phase, session, command, uplink, downlink, hardware, shown, topicOf, renamed,
  wish, told, events

Tasmota == INSTANCE Tasmota

IsDevice(d) == d = [name |-> d.name, online |-> d.online, power |-> d.power]

\* The ids of the stored devices are 1, 2, ... without a gap.
Shapes ==
  /\ DOMAIN topicOf = DOMAIN rows
  /\ \E n \in 0..MaxDevices : DOMAIN rows = 1..n
  /\ \A id \in DOMAIN rows : IsDevice(rows[id])

\* A device that no user renamed has its topic for a name.
NamedByTopic == \A id \in DOMAIN rows \ renamed : rows[id].name = topicOf[id]

\* Once the plugin has read the devices it knows every one that was not renamed
\* since it was stored.
Running == phase \in {"synchronized", "stat", "tele"}
AllKnown == Running => \A id \in DOMAIN rows \ renamed : topicOf[id] \in DOMAIN knownDevices

PluginIInv == Shapes /\ NamedByTopic /\ AllKnown /\ Tasmota!OneDevicePerTopic

-----------------------------------------------------------------------------
LEMMA NextIdIsNew ==
  ASSUME Shapes
  PROVE  \E n \in 0..MaxDevices : DOMAIN rows = 1..n /\ Tasmota!NextId = n + 1
<1>1. PICK n \in 0..MaxDevices : DOMAIN rows = 1..n
  BY DEF Shapes
<1>2. Cardinality(1..n) = n
  BY FS_Interval
<1>3. Tasmota!Cardinality(1..n) = Cardinality(1..n)
  BY DEF Tasmota!Cardinality, Cardinality
<1> QED  BY <1>1, <1>2, <1>3 DEF Tasmota!NextId

\* What leaves the topics and the names of the devices alone keeps the invariant, if
\* the plugin keeps what it knows.
LEMMA NamesKept ==
  ASSUME PluginIInv,
         DOMAIN rows' = DOMAIN rows, topicOf' = topicOf, renamed' = renamed,
         \A id \in DOMAIN rows :
           /\ rows'[id].name = rows[id].name
           /\ IsDevice(rows'[id]),
         Running' => Running /\ knownDevices' = knownDevices
  PROVE  PluginIInv'
BY DEF PluginIInv, Shapes, NamedByTopic, AllKnown, Tasmota!OneDevicePerTopic

\* A message changes the state of the device it is about, and no name.
LEMMA ReportKeepsNames ==
  ASSUME Shapes, NEW id, NEW v, Tasmota!Report(id, v, rows) \/ Tasmota!Online(id, v, rows)
  PROVE  /\ DOMAIN rows' = DOMAIN rows
         /\ \A i \in DOMAIN rows :
              /\ rows'[i].name = rows[i].name
              /\ IsDevice(rows'[i])
BY DEF Tasmota!Report, Tasmota!Online, Tasmota!Reported, Shapes, IsDevice

\* A device is stored for a message of an unknown topic, which is then known.
LEMMA UnknownKeeps ==
  ASSUME Tasmota!TasmotaAssumption, PluginIInv, NEW m, Tasmota!HasCallback(m), Tasmota!HandleUnknown(m), phase' = phase
  PROVE  PluginIInv'
<1> DEFINE id == Tasmota!NextId
<1>1. PICK n \in 0..MaxDevices : DOMAIN rows = 1..n /\ id = n + 1
  BY NextIdIsNew DEF PluginIInv
<1>2. /\ DOMAIN rows' = 1..(n + 1) /\ DOMAIN topicOf' = 1..(n + 1) /\ renamed' = renamed
      /\ topicOf'[id] = m.topic /\ rows'[id].name = m.topic
      /\ IsDevice(rows'[id])
      /\ \A i \in 1..n : topicOf'[i] = topicOf[i] /\ rows'[i] = rows[i]
      /\ DOMAIN knownDevices' = {m.topic} \cup DOMAIN knownDevices
  BY <1>1 DEF Tasmota!HandleUnknown, Tasmota!With, PluginIInv, Shapes, IsDevice
<1>3. Running
  BY DEF Tasmota!HasCallback, Running
<1>4. \A i \in 1..n : i \in renamed \/ topicOf[i] # m.topic
  BY <1>1, <1>3 DEF Tasmota!HandleUnknown, PluginIInv, AllKnown
<1>5. Shapes'
  <2>1. n + 1 \in 0..MaxDevices
    BY <1>1 DEF Tasmota!TasmotaAssumption, Tasmota!HandleUnknown, Tasmota!Ids
  <2>2. \A i \in 1..(n + 1) : i \in 1..n \/ i = id
    BY <1>1
  <2> HIDE DEF id
  <2> QED  BY <1>1, <1>2, <2>1, <2>2 DEF PluginIInv, Shapes
<1>6. NamedByTopic' /\ AllKnown'
  <2>1. \A i \in 1..(n + 1) : i \in 1..n \/ i = id
    BY <1>1
  <2> HIDE DEF id
  <2> QED  BY <1>1, <1>2, <1>3, <2>1 DEF PluginIInv, NamedByTopic, AllKnown
<1>7. Tasmota!OneDevicePerTopic'
  <2>1. \A i \in 1..(n + 1) : i \in 1..n \/ i = id
    BY <1>1
  <2> HIDE DEF id
  <2> QED  BY <1>1, <1>2, <1>4, <2>1 DEF PluginIInv, Tasmota!OneDevicePerTopic
<1> QED  BY <1>5, <1>6, <1>7 DEF PluginIInv

LEMMA MessageKeeps ==
  ASSUME Tasmota!TasmotaAssumption, PluginIInv, Tasmota!HandleMessage
  PROVE  PluginIInv'
<1> DEFINE m == Head(uplink)
<1>1. phase' = phase
  BY DEF Tasmota!HandleMessage, Tasmota!network
<1> HIDE DEF m
<1>2. CASE Tasmota!HasCallback(m) /\ Tasmota!HandleUnknown(m)
  BY <1>1, <1>2, UnknownKeeps
<1>3. CASE Tasmota!HasCallback(m) /\ (Tasmota!HandleStatus(m) \/ Tasmota!HandleTelemetry(m))
  <2>1. UNCHANGED <<knownDevices, topicOf, renamed>>
    BY <1>3 DEF Tasmota!HandleStatus, Tasmota!HandleTelemetry
  <2>2. \/ \E id, v : Tasmota!Report(id, v, rows) \/ Tasmota!Online(id, v, rows)
        \/ rows' = rows
    BY <1>3 DEF Tasmota!HandleStatus, Tasmota!HandleTelemetry
  <2>3. Running' => Running /\ knownDevices' = knownDevices
    BY <1>1, <2>1 DEF Running
  <2>4. CASE rows' = rows
    BY <2>1, <2>3, <2>4, NamesKept DEF PluginIInv, Shapes
  <2>5. CASE \E id, v : Tasmota!Report(id, v, rows) \/ Tasmota!Online(id, v, rows)
    BY <2>1, <2>3, <2>5, NamesKept, ReportKeepsNames DEF PluginIInv
  <2> QED  BY <2>2, <2>4, <2>5
<1>4. CASE UNCHANGED <<Tasmota!stored, knownDevices>>
  BY <1>1, <1>4, NamesKept DEF Tasmota!stored, PluginIInv, Shapes, Running
<1> QED  BY <1>2, <1>3, <1>4 DEF Tasmota!HandleMessage, m

LEMMA NextPluginIInv ==
  ASSUME Tasmota!TasmotaAssumption, PluginIInv, [Tasmota!Next]_Tasmota!vars
  PROVE  PluginIInv'
<1>1. CASE Tasmota!Synchronize
  <2>1. UNCHANGED Tasmota!stored /\ phase' = "synchronized" /\ knownDevices' = Tasmota!StoredNames
    BY <1>1 DEF Tasmota!Synchronize
  <2>2. \A id \in DOMAIN rows \ renamed : topicOf[id] \in DOMAIN knownDevices'
    BY <2>1 DEF Tasmota!StoredNames, PluginIInv, NamedByTopic
  <2> QED  BY <2>1, <2>2 DEF Tasmota!stored, PluginIInv, Shapes, NamedByTopic, AllKnown, Tasmota!OneDevicePerTopic
<1>2. CASE Tasmota!HandleMessage
  BY <1>2, MessageKeeps
<1>3. ASSUME NEW id \in DOMAIN rows, NEW v \in Tasmota!Powers, Tasmota!Set(id, v)
      PROVE  PluginIInv'
  <2>1. UNCHANGED <<topicOf, renamed, knownDevices, phase>>
    BY <1>3 DEF Tasmota!Set, Tasmota!network
  <2>2. rows' = [rows EXCEPT ![id] = Tasmota!Reported(@, v)]
    BY <1>3 DEF Tasmota!Set
  <2>3. /\ DOMAIN rows' = DOMAIN rows
        /\ \A i \in DOMAIN rows :
             /\ rows'[i].name = rows[i].name
             /\ IsDevice(rows'[i])
    BY <2>2 DEF Tasmota!Reported, PluginIInv, Shapes, IsDevice
  <2> QED  BY <2>1, <2>3, NamesKept DEF Running
<1>4. ASSUME NEW id \in DOMAIN rows, NEW n \in Names, Tasmota!SetName(id, n)
      PROVE  PluginIInv'
  <2>1. /\ UNCHANGED <<topicOf, knownDevices, phase>> /\ renamed' = renamed \cup {id}
        /\ DOMAIN rows' = DOMAIN rows
        /\ \A i \in DOMAIN rows \ {id} : rows'[i] = rows[i]
        /\ IsDevice(rows'[id])
    BY <1>4 DEF Tasmota!SetName, Tasmota!network, PluginIInv, Shapes, IsDevice
  <2>2. Shapes'
    BY <2>1 DEF PluginIInv, Shapes
  <2>3. NamedByTopic' /\ AllKnown' /\ Tasmota!OneDevicePerTopic'
    BY <2>1 DEF PluginIInv, NamedByTopic, AllKnown, Running, Tasmota!OneDevicePerTopic
  <2> QED  BY <2>2, <2>3 DEF PluginIInv
<1>5. CASE Tasmota!CreateClient \/ Tasmota!Restart
  <2>1. UNCHANGED <<rows, topicOf, renamed>> /\ ~Running'
    BY <1>5 DEF Tasmota!CreateClient, Tasmota!Restart, Tasmota!stored, Running
  <2> QED  BY <2>1, NamesKept DEF PluginIInv, Shapes
<1>6. CASE Tasmota!SubscribeStat \/ Tasmota!SubscribeTele
  <2>1. UNCHANGED <<rows, topicOf, renamed, knownDevices>> /\ Running
    BY <1>6 DEF Tasmota!SubscribeStat, Tasmota!SubscribeTele, Tasmota!stored, Running
  <2> QED  BY <2>1, NamesKept DEF PluginIInv, Shapes
<1>7. CASE \/ Tasmota!OnUpdate \/ Tasmota!Execute \/ Tasmota!ConnectionLost \/ Tasmota!Reconnect
           \/ \E t \in Topics : Tasmota!Button(t) \/ Tasmota!Telemetry(t) \/ Tasmota!Leave(t) \/ Tasmota!Come(t)
           \/ UNCHANGED Tasmota!vars
  <2>1. UNCHANGED <<rows, topicOf, renamed, knownDevices, phase>>
    BY <1>7 DEF Tasmota!OnUpdate, Tasmota!Execute, Tasmota!ConnectionLost, Tasmota!Reconnect,
      Tasmota!Button, Tasmota!Telemetry, Tasmota!Leave, Tasmota!Come,
      Tasmota!vars, Tasmota!stored, Tasmota!network
  <2> QED  BY <2>1, NamesKept DEF PluginIInv, Shapes, Running
<1> QED  BY <1>1, <1>2, <1>3, <1>4, <1>5, <1>6, <1>7 DEF Tasmota!Next, Tasmota!Initialization

\* A physical device is stored twice (handleUnknownDevice) only if a user renamed one
\* of the two: whatever is restarted, lost or reported while the plugin starts.
THEOREM StoredOnce ==
  ASSUME Tasmota!TasmotaAssumption
  PROVE  Tasmota!Spec => []Tasmota!OneDevicePerTopic
<1>1. Tasmota!Init => PluginIInv
  <2> SUFFICES ASSUME Tasmota!Init PROVE PluginIInv
    OBVIOUS
  <2>1. DOMAIN rows = {} /\ DOMAIN topicOf = {} /\ 1..0 = {} /\ 0 \in 0..MaxDevices /\ ~Running
    BY DEF Tasmota!TasmotaAssumption, Tasmota!Init, Running
  <2> QED  BY <2>1 DEF PluginIInv, Shapes, NamedByTopic, AllKnown, Tasmota!OneDevicePerTopic
<1>2. PluginIInv /\ [Tasmota!Next]_Tasmota!vars => PluginIInv'
  BY NextPluginIInv
<1>3. PluginIInv => Tasmota!OneDevicePerTopic
  BY DEF PluginIInv
<1> QED  BY <1>1, <1>2, <1>3, PTL DEF Tasmota!Spec
=============================================================================
