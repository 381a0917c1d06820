----------------------- MODULE MqttGroupObject_proofs -----------------------
(***************************************************************************)
(* TLAPS proofs about TGroupObjectMqtt, for a data point with any number   *)
(* of fields, on controls of their own or in one text, any values, any     *)
(* texts and any conversion to a telegram that loses nothing the second    *)
(* time.                                                                   *)
(***************************************************************************)
EXTENDS MqttGroupObject, TLAPS

-----------------------------------------------------------------------------
(* Telegrams and fields                                                    *)

\* A telegram with a value is one of the data point's, and what ToKnx makes of
\* values a telegram may carry is such a telegram.
LEMMA FieldValues ==
    /\ 0 \in Fields /\ 0 \in Controls /\ Controls \subseteq Fields
    /\ Values \subseteq Held /\ Values \subseteq Shown
    /\ Payloads \subseteq [Fields -> Values]
    /\ Blank \in Payloads
    /\ BadPayload \notin Payloads
    /\ (\A f \in Fields : cached[f] \in Values) => ToKnx \in Payloads
<1>1. 0 \in Fields
  BY ObjectAssumption DEF Fields
<1>2. WireValues \subseteq Values /\ Default \in WireValues
  BY ObjectAssumption DEF WireValues
<1>3. BadPayload \notin Payloads
  <2> SUFFICES ASSUME <<>> \in [Fields -> WireValues] PROVE FALSE
    BY DEF BadPayload, Payloads
  <2>1. DOMAIN <<>> = Fields
    OBVIOUS
  <2>2. DOMAIN <<>> = 1 .. 0
    OBVIOUS
  <2> QED
    BY <2>1, <2>2, <1>1
<1>4. (\A f \in Fields : cached[f] \in Values) => ToKnx \in Payloads
  BY DEF ToKnx, Payloads, WireValues
<1>5. 0 \in Controls /\ Controls \subseteq Fields
  BY <1>1 DEF Controls
<1> QED
  BY <1>1, <1>2, <1>3, <1>4, <1>5 DEF Payloads, Blank, Held, Shown

\* A message gives some fields something the data point may hold; one that a data
\* point of a class accepts gives its control's field a value.
LEMMA MessageParts ==
    ASSUME NEW c \in Controls, NEW throws \in BOOLEAN, NEW m \in Messages(c, throws)
    PROVE  /\ DOMAIN m \subseteq Fields
           /\ \A f \in DOMAIN m : m[f] \in Held
           /\ ~text /\ ~throws => DOMAIN m = {c} /\ m[c] \in Values
<1>1. CASE text
  <2>1. PICK s \in SUBSET Fields : m \in [s -> Values \cup Spoilt]
    BY <1>1, ObjectAssumption DEF Messages, Fields
  <2> QED
    BY <1>1, <2>1 DEF Held
<1>2. CASE ~text /\ throws
  BY <1>2 DEF Messages, Nothing
<1>3. CASE ~text /\ ~throws
  BY <1>3, FieldValues DEF Messages
<1> QED
  BY <1>1, <1>2, <1>3

\* The queue takes a telegram while there is room.
LEMMA QueueType ==
    ASSUME NEW queue \in Seq(Telegrams), Len(queue) < MaxBus, NEW t \in Telegrams
    PROVE  Append(queue, t) \in Seq(Telegrams) /\ Len(Append(queue, t)) <= MaxBus
BY ObjectAssumption

-----------------------------------------------------------------------------
(* The exchange between the threads                                        *)

\* Who is between the lock and its release holds the mutex.
MutexHeld ==
    /\ mqttPc \in {"from", "to"} => mutex = "mqtt"
    /\ clientPc \in {"from", "to"} => mutex = "client"

\* MqttNotify's values are cached until its telegram is taken from the cache.
ValueTaken ==
    /\ mqttPc = "to" => \A f \in DOMAIN value : cached[f] = value[f]
    /\ UserValueSent

\* KnxNotify's telegram is cached until the controls' values are taken.
TelegramTaken ==
    /\ clientPc = "to" => cached = telegram
    /\ NoTornTelegram

Exchange == TypeOK /\ MutexHeld /\ ValueTaken /\ TelegramTaken

\* The parts of TypeOK that MqttNotify changes: what ToKnx took are values, and
\* only these reach the control.
LEMMA MqttType ==
    ASSUME Exchange, MqttNotify
    PROVE  TypeOK'
<1> USE FieldValues DEF TypeOK, mqtt, client, history, settings, MqttReturns, Messages,
        Controls, Held, Shown
<1>1. TypeOK
  BY DEF Exchange
<1>2. mqttPc # "idle" => /\ DOMAIN value \subseteq Fields
                         /\ \A f \in DOMAIN value : value[f] \in Held
                         /\ ~text /\ ~bad => DOMAIN value = {field}
  BY <1>1, MessageParts
<1>3. mqttPc = "from" => Merged \in [Fields -> Held]
  BY <1>1, <1>2 DEF Merged
<1>4. CASE MqttLock
  BY <1>1, <1>4 DEF MqttLock
<1>5. CASE FromMqtt
  BY <1>1, <1>3, <1>5 DEF FromMqtt
<1>6. CASE RejectValue
  BY <1>1, <1>3, <1>6, ObjectAssumption DEF RejectValue
<1>7. CASE TakeData
  <2>1. \A f \in DOMAIN value : value[f] \in Values
    BY <1>1, <1>2, <1>7 DEF TakeData, Exchange, ValueTaken
  <2>2. value \in [DOMAIN value -> Values]
    BY <1>1, <1>7, <2>1, ObjectAssumption DEF TakeData, Nothing
  <2> QED
    BY <1>1, <1>7, <2>2 DEF TakeData
<1>8. CASE RejectData
  BY <1>1, <1>8, ObjectAssumption DEF RejectData
<1>9. CASE Send
  <2>1. bus' \in Seq(Telegrams) /\ Len(bus') <= MaxBus
    <3>1. bus \in Seq(Telegrams) /\ Len(bus) <= MaxBus /\ data \in Telegrams
      BY <1>1 DEF Telegrams
    <3>2. (bus' = Append(bus, data) /\ Len(bus) < MaxBus) \/ bus' = bus
      BY <1>9 DEF Send
    <3> QED
      BY ONLY <3>1, <3>2, QueueType
  <2>2. last' \in Telegrams
    BY <1>1, <1>9 DEF Send, Telegrams
  <2> QED
    BY <1>1, <1>9, <2>1, <2>2 DEF Send, AfterSend
<1>10. CASE SetOwnControl
  <2>1. control' \in [Fields -> Shown]
    BY <1>1, <1>2, <1>10 DEF SetOwnControl, Group
  <2> QED
    BY <1>1, <1>10, <2>1 DEF SetOwnControl
<1> QED
  BY <1>4, <1>5, <1>6, <1>7, <1>8, <1>9, <1>10 DEF MqttNotify

\* The parts that KnxNotify changes.
LEMMA ClientType ==
    ASSUME Exchange, KnxNotify
    PROVE  TypeOK'
<1> USE FieldValues DEF TypeOK, mqtt, client, history, settings, Messages, Controls, Held, Shown
<1>1. TypeOK
  BY DEF Exchange
<1>2. CASE Receive
  <2>1. Head(bus) \in Telegrams /\ Tail(bus) \in Seq(Telegrams) /\ Len(Tail(bus)) <= MaxBus
    BY <1>1, <1>2, ObjectAssumption DEF Receive
  <2> QED
    BY <1>1, <1>2, <2>1 DEF Receive
<1>3. CASE ClientLock
  BY <1>1, <1>3 DEF ClientLock
<1>4. CASE FromKnx
  <2>1. cached' \in [Fields -> Held]
    BY <1>4 DEF FromKnx
  <2> QED
    BY <1>1, <1>4, <2>1 DEF FromKnx
<1>5. CASE RejectTelegram
  BY <1>1, <1>5 DEF RejectTelegram
<1>6. CASE TakeMqttData
  <2>1. cached \in [Fields -> Values]
    BY <1>1, <1>6 DEF TakeMqttData, Exchange, TelegramTaken
  <2> QED
    BY <1>1, <1>6, <2>1 DEF TakeMqttData
<1>7. CASE SetControl
  <2>1. control' \in [Fields -> Shown]
    BY <1>1, <1>7 DEF SetControl, Publish
  <2>2. index' \in Controls /\ mqttData' \in [Fields -> Values]
    BY <1>1, <1>7 DEF SetControl
  <2> QED
    BY <1>1, <1>7, <2>1, <2>2 DEF SetControl
<1> QED
  BY <1>2, <1>3, <1>4, <1>5, <1>6, <1>7 DEF KnxNotify

\* The parts that a message or a telegram from outside changes.
LEMMA EnvironmentType ==
    ASSUME TypeOK, Environment
    PROVE  TypeOK'
<1> USE FieldValues DEF TypeOK, mqtt, client, history, settings, Messages, Controls, Held, Shown
<1>1. ASSUME NEW c \in Controls, NEW throws \in BOOLEAN, NEW m \in Messages(c, throws),
             OnValueReceive(c, m, throws)
      PROVE  TypeOK'
  BY <1>1 DEF OnValueReceive
<1>2. ASSUME NEW t \in Telegrams, DeviceWrites(t)
      PROVE  TypeOK'
  <2>1. bus' \in Seq(Telegrams) /\ Len(bus') <= MaxBus
    BY <1>2, QueueType DEF DeviceWrites
  <2> QED
    BY <1>2, <2>1 DEF DeviceWrites
<1> QED
  BY <1>1, <1>2 DEF Environment

\* A step of MqttNotify keeps the exchange in order: it changes the cache and
\* takes its telegram only while KnxNotify is outside the lock.
LEMMA MqttExchange ==
    ASSUME Exchange, MqttNotify
    PROVE  (MutexHeld /\ ValueTaken /\ TelegramTaken)'
<1> USE ObjectAssumption DEF Exchange, MutexHeld, ValueTaken, UserValueSent,
        TelegramTaken, NoTornTelegram, mqtt, client, history, settings, MqttReturns
<1>1. CASE MqttLock
  BY <1>1 DEF MqttLock
<1>2. mqttPc # "idle" => DOMAIN value \subseteq Fields
  BY MessageParts DEF TypeOK
<1>3. CASE FromMqtt
  <2>1. \A f \in DOMAIN value : Merged[f] = value[f]
    BY <1>2, <1>3 DEF FromMqtt, Merged
  <2> QED
    BY <1>3, <2>1 DEF FromMqtt
<1>4. CASE RejectValue
  BY <1>4 DEF RejectValue
<1>5. CASE TakeData
  <2>1. \A f \in DOMAIN value : ToKnx[f] = Wire[value[f]]
    BY <1>2, <1>5 DEF TakeData, ToKnx
  <2> QED
    BY <1>5, <2>1 DEF TakeData
<1>6. CASE RejectData
  BY <1>6 DEF RejectData
<1>7. CASE Send
  BY <1>7 DEF Send, AfterSend
<1>8. CASE SetOwnControl
  BY <1>8 DEF SetOwnControl
<1> QED
  BY <1>1, <1>3, <1>4, <1>5, <1>6, <1>7, <1>8 DEF MqttNotify

\* So does a step of KnxNotify.
LEMMA ClientExchange ==
    ASSUME Exchange, KnxNotify
    PROVE  (MutexHeld /\ ValueTaken /\ TelegramTaken)'
<1> USE ObjectAssumption DEF Exchange, TypeOK, MutexHeld, ValueTaken, UserValueSent,
        TelegramTaken, NoTornTelegram, mqtt, client, history, settings
<1>1. CASE Receive
  BY <1>1 DEF Receive
<1>2. CASE ClientLock
  BY <1>2 DEF ClientLock
<1>3. CASE FromKnx
  BY <1>3 DEF FromKnx
<1>4. CASE RejectTelegram
  BY <1>4 DEF RejectTelegram
<1>5. CASE TakeMqttData
  BY <1>5 DEF TakeMqttData
<1>6. CASE SetControl
  BY <1>6 DEF SetControl
<1> QED
  BY <1>1, <1>2, <1>3, <1>4, <1>5, <1>6 DEF KnxNotify

\* Exchange is inductive.
LEMMA ExchangeKept == Spec => []Exchange
<1>1. Init => Exchange
  <2> SUFFICES ASSUME Init PROVE Exchange
    OBVIOUS
  <2>1. bus \in Seq(Telegrams) /\ Len(bus) <= MaxBus
    BY ObjectAssumption DEF Init
  <2>2. BadPayload \in Telegrams
    BY DEF Telegrams
  <2>3. cached \in [Fields -> Held]
    BY ObjectAssumption DEF Init, Blank, Held
  <2>4. TypeOK
    BY <2>1, <2>2, <2>3, FieldValues, ObjectAssumption DEF Init, TypeOK
  <2> QED
    BY <2>4 DEF Init, Exchange, MutexHeld, ValueTaken, UserValueSent, TelegramTaken,
       NoTornTelegram
<1>2. ASSUME Exchange, [Next]_vars PROVE Exchange'
  <2>1. CASE Environment
    <3>1. (MutexHeld /\ ValueTaken /\ TelegramTaken)'
      BY <1>2, <2>1 DEF Environment, OnValueReceive, DeviceWrites, Exchange, MutexHeld,
         ValueTaken, UserValueSent, TelegramTaken, NoTornTelegram, mqtt, client, history
    <3> QED
      BY <1>2, <2>1, <3>1, EnvironmentType DEF Exchange
  <2>2. CASE UNCHANGED vars
    BY <1>2, <2>2 DEF vars, Exchange, TypeOK, MutexHeld, ValueTaken, UserValueSent,
       TelegramTaken, NoTornTelegram, mqtt, client, history, settings, Messages,
       Controls, Held, Shown
  <2> QED
    BY <1>2, <2>1, <2>2, MqttType, ClientType, MqttExchange, ClientExchange
       DEF Next, Exchange
<1> QED
  BY <1>1, <1>2, PTL DEF Spec

\* Every variable keeps its type: no control is left of the first or right of the
\* last, and what a telegram carries and a control shows are values, though the
\* data point of a text control may hold something else.
THEOREM TypeCorrect == Spec => []TypeOK
BY ExchangeKept, PTL DEF Exchange

\* The values a user sets are in the telegram sent for them, whatever else the
\* client thread writes into the data point.
THEOREM UserValueIsSent == Spec => []UserValueSent
BY ExchangeKept, PTL DEF Exchange, ValueTaken

\* What KnxNotify publishes is the telegram it received, not a mix with a value
\* from MQTT.
THEOREM TelegramIsWhole == Spec => []NoTornTelegram
BY ExchangeKept, PTL DEF Exchange, TelegramTaken

-----------------------------------------------------------------------------
(* Feedback                                                                *)

\* With a feedback address only KnxNotify sets controls.
OnlyBusSets == feedback => mqttPc # "set"

FeedbackInv == OnlyBusSets /\ ControlsFollowBus

\* MqttNotify and what comes from outside leave the controls alone.
LEMMA ControlsLeftAlone ==
    ASSUME Exchange, FeedbackInv, MqttNotify \/ Environment
    PROVE  FeedbackInv'
<1> USE DEF FeedbackInv, OnlyBusSets, mqtt, client, history, settings, MqttReturns
<1>1. UNCHANGED client
  BY DEF MqttNotify, MqttLock, FromMqtt, RejectValue, TakeData, RejectData, Send, SetOwnControl,
     Environment, OnValueReceive, DeviceWrites
<1>2. UNCHANGED feedback /\ (feedback => UNCHANGED control)
  BY DEF MqttNotify, MqttLock, FromMqtt, RejectValue, TakeData, RejectData, Send, SetOwnControl,
     Environment, OnValueReceive, DeviceWrites
<1>3. feedback => mqttPc' # "set"
  BY DEF MqttNotify, MqttLock, FromMqtt, RejectValue, TakeData, RejectData, Send,
     AfterSend, SetOwnControl, Environment, OnValueReceive, DeviceWrites
<1> QED
  BY <1>1, <1>2, <1>3 DEF ControlsFollowBus, Published

\* KnxNotify sets one control after the other, and the last completes them.
LEMMA ControlsCompleted ==
    ASSUME Exchange, FeedbackInv, KnxNotify
    PROVE  FeedbackInv'
<1> USE DEF FeedbackInv, OnlyBusSets, mqtt, client, history, settings, Exchange
<1>1. CASE Receive \/ ClientLock \/ FromKnx \/ TakeMqttData
  BY <1>1, ObjectAssumption
     DEF Receive, ClientLock, FromKnx, TakeMqttData, ControlsFollowBus, Published, Fields
<1>2. CASE RejectTelegram
  BY <1>2, FieldValues DEF RejectTelegram, ControlsFollowBus
<1>3. CASE SetControl
  <2>1. /\ telegram \in [Fields -> Values] /\ mqttData = telegram
        /\ index \in Controls /\ 0 \in Controls
        /\ control' = [f \in Fields |-> IF f \in Group(index) THEN telegram[f] ELSE control[f]]
    BY <1>3, FieldValues DEF SetControl, Publish, TypeOK, TelegramTaken, NoTornTelegram
  <2>2. CASE index + 1 \in Controls
    <3>1. ~text /\ index \in Fields
      BY <2>1, <2>2 DEF Controls
    <3>2. index' = index + 1 /\ UNCHANGED <<clientPc, mqttData, telegram, feedback>>
      BY <1>3, <2>2, ObjectAssumption DEF SetControl, settings
    <3>3. ASSUME feedback, telegram \in Payloads, NEW f \in Fields, f < index + 1
          PROVE  control'[f] = telegram[f]
      <4>1. f = index \/ f < index
        BY <3>1, <3>3, ObjectAssumption DEF Fields
      <4> QED
        BY <1>3, <2>1, <3>1, <3>3, <4>1 DEF SetControl, ControlsFollowBus, Published, Group
    <3> QED
      BY <1>3, <2>1, <3>2, <3>3 DEF SetControl, ControlsFollowBus, Published
  <2>3. CASE index + 1 \notin Controls
    <3>1. ASSUME feedback, telegram \in Payloads, NEW f \in Fields
          PROVE  control'[f] = telegram[f]
      <4>1. f \in Group(index) \/ f < index
        BY <2>1, <2>3, ObjectAssumption DEF Group, Controls, Fields
      <4> QED
        BY <1>3, <2>1, <3>1, <4>1 DEF SetControl, ControlsFollowBus, Published
    <3>2. feedback /\ telegram \in Payloads => control' = telegram
      BY <2>1, <3>1
    <3>3. clientPc' = "idle" /\ UNCHANGED <<telegram, feedback, mqttPc>>
      BY <1>3, <2>3 DEF SetControl, settings
    <3> QED
      BY <3>2, <3>3 DEF ControlsFollowBus
  <2> QED
    BY <2>2, <2>3
<1> QED
  BY <1>1, <1>2, <1>3 DEF KnxNotify

\* README: with a feedback address the controls show the telegram received last,
\* as soon as KnxNotify returns, and no user overtakes it.
THEOREM FeedbackShown == Spec => []ControlsFollowBus
<1>1. Init => FeedbackInv
  BY FieldValues DEF Init, FeedbackInv, OnlyBusSets, ControlsFollowBus
<1>2. ASSUME Exchange, FeedbackInv, [Next]_vars PROVE FeedbackInv'
  <2>1. CASE UNCHANGED vars
    BY <1>2, <2>1 DEF vars, FeedbackInv, OnlyBusSets, ControlsFollowBus, Published,
       mqtt, client, settings
  <2> QED
    BY <1>2, <2>1, ControlsLeftAlone, ControlsCompleted DEF Next
<1> QED
  BY <1>1, <1>2, ExchangeKept, PTL DEF Spec, FeedbackInv

-----------------------------------------------------------------------------
(* The cache and the bus                                                   *)

\* Where the last value on the bus is: in the queue with nothing but rejected
\* telegrams behind it, with the client thread before FromKnx, or in the cache.
\* In between MqttNotify may have put a value into the cache that it will send, or
\* left there what it took of a message that was refused.
Rejected(b, first) == \A j \in first .. Len(b) : b[j] = BadPayload
InQueue  == \E k \in 1 .. Len(bus) : bus[k] = last /\ Rejected(bus, k + 1)
Awaiting == clientPc \in {"lock", "from"}
InClient == Rejected(bus, 1) /\ Awaiting /\ telegram = last
InCache  ==
    /\ Rejected(bus, 1)
    /\ Awaiting => telegram = BadPayload
    /\ mqttPc \notin {"to", "send"} /\ ~altered => ToKnx = last

LastIsSomewhere == InQueue \/ InClient \/ InCache

CacheInv == last # BadPayload => LastIsSomewhere

\* A telegram that joins the queue is the last one there, or a rejected one.
LEMMA TelegramJoins ==
    ASSUME TypeOK, CacheInv, NEW t \in Telegrams,
           bus' = Append(bus, t), UNCHANGED <<cached, clientPc, telegram>>,
           \/ t # BadPayload /\ last' = t
           \/ t = BadPayload /\ UNCHANGED <<last, altered, mqttPc>>
    PROVE  CacheInv'
<1> USE DEF TypeOK
<1>1. /\ Len(bus) \in Nat /\ Len(bus') = Len(bus) + 1 /\ bus'[Len(bus) + 1] = t
      /\ \A j \in 1 .. Len(bus) : bus'[j] = bus[j]
  OBVIOUS
<1>2. CASE t # BadPayload /\ last' = t
  <2>1. Len(bus') \in 1 .. Len(bus') /\ bus'[Len(bus')] = last' /\ Rejected(bus', Len(bus') + 1)
    BY <1>1, <1>2 DEF Rejected
  <2> QED
    BY <2>1, <1>1 DEF CacheInv, LastIsSomewhere, InQueue, Rejected
<1>3. CASE t = BadPayload /\ UNCHANGED <<last, altered, mqttPc>>
  <2>1. ASSUME NEW k \in 1 .. Len(bus) + 1, Rejected(bus, k) PROVE Rejected(bus', k)
    BY <1>1, <1>3, <2>1 DEF Rejected
  <2>2. InQueue => InQueue'
    <3> SUFFICES ASSUME NEW k \in 1 .. Len(bus), bus[k] = last, Rejected(bus, k + 1) PROVE InQueue'
      BY DEF InQueue
    <3>1. k \in 1 .. Len(bus') /\ bus'[k] = last' /\ Rejected(bus', k + 1)
      BY <1>1, <1>3, <2>1
    <3> QED
      BY <3>1 DEF InQueue, Rejected
  <2>3. Rejected(bus, 1) => Rejected(bus', 1)
    BY <2>1, <1>1
  <2>4. ToKnx' = ToKnx /\ Awaiting' = Awaiting
    BY DEF ToKnx, Awaiting
  <2> QED
    BY <1>3, <2>2, <2>3, <2>4 DEF CacheInv, LastIsSomewhere, InClient, InCache
<1> QED
  BY <1>2, <1>3

\* MqttNotify changes the cache for a message it refuses, which is remembered, or on
\* its way to Send, which puts its telegram on the bus or loses it.
LEMMA MqttCache ==
    ASSUME Exchange, CacheInv, MqttNotify
    PROVE  CacheInv'
<1> USE DEF Exchange, mqtt, client, history
<1>1. CASE MqttLock \/ FromMqtt \/ RejectValue \/ TakeData \/ RejectData \/ SetOwnControl
  <2>1. UNCHANGED <<bus, clientPc, telegram, last>>
    BY <1>1 DEF MqttLock, FromMqtt, RejectValue, TakeData, RejectData, SetOwnControl
  <2>2. mqttPc' \notin {"to", "send"} /\ ~altered' =>
            mqttPc \notin {"to", "send"} /\ ~altered /\ UNCHANGED cached
    BY <1>1 DEF MqttLock, FromMqtt, RejectValue, TakeData, RejectData, SetOwnControl, MqttReturns
  <2> QED
    BY <2>1, <2>2 DEF CacheInv, LastIsSomewhere, InQueue, InClient, InCache, Rejected,
       Awaiting, ToKnx
<1>2. CASE Send
  <2>1. CASE last' = BadPayload
    BY <2>1 DEF CacheInv
  <2>2. CASE last' # BadPayload
    <3>1. bus' = Append(bus, data) /\ last' = data /\ UNCHANGED <<cached, clientPc, telegram>>
      BY <1>2, <2>2 DEF Send
    <3>2. data \in Telegrams /\ data # BadPayload
      BY FieldValues DEF TypeOK, Telegrams
    <3> QED
      BY <3>1, <3>2, TelegramJoins
  <2> QED
    BY <2>1, <2>2
<1> QED
  BY <1>1, <1>2 DEF MqttNotify

\* KnxNotify takes the queue in order and caches each telegram it does not reject.
LEMMA ClientCache ==
    ASSUME Exchange, CacheInv, KnxNotify
    PROVE  CacheInv'
<1> USE DEF Exchange, mqtt, client, history
<1>1. CASE Receive
  <2>1. /\ bus \in Seq(Telegrams) /\ bus # <<>> /\ telegram' = bus[1] /\ Awaiting'
        /\ Len(bus) \in Nat /\ Len(bus) > 0
        /\ Len(bus') = Len(bus) - 1 /\ \A j \in 1 .. Len(bus') : bus'[j] = bus[j + 1]
        /\ UNCHANGED <<last, altered, mqttPc, cached>> /\ ~ Awaiting
    BY <1>1 DEF Receive, TypeOK, Awaiting
  <2>2. ASSUME NEW k \in Nat, Rejected(bus, k + 1) PROVE k > 0 => Rejected(bus', k)
    BY <2>1, <2>2 DEF Rejected
  <2>3. CASE InQueue
    <3>1. PICK k \in 1 .. Len(bus) : bus[k] = last /\ Rejected(bus, k + 1)
      BY <2>3 DEF InQueue
    <3>2. CASE k = 1
      BY <2>1, <2>2, <3>1, <3>2 DEF CacheInv, LastIsSomewhere, InClient
    <3>3. CASE k # 1
      <4>1. k - 1 \in 1 .. Len(bus') /\ bus'[k - 1] = last' /\ Rejected(bus', k)
        BY <2>1, <2>2, <3>1, <3>3
      <4>2. Rejected(bus', (k - 1) + 1)
        BY <4>1
      <4> QED
        BY <4>1, <4>2 DEF CacheInv, LastIsSomewhere, InQueue, Rejected
    <3> QED
      BY <3>2, <3>3
  <2>4. CASE InCache
    <3>1. telegram' = BadPayload /\ Rejected(bus', 1)
      BY <2>1, <2>4 DEF InCache, Rejected
    <3>2. ToKnx' = ToKnx
      BY <2>1 DEF ToKnx
    <3> QED
      BY <2>1, <2>4, <3>1, <3>2 DEF CacheInv, LastIsSomewhere, InCache
  <2> QED
    BY <2>1, <2>3, <2>4 DEF CacheInv, LastIsSomewhere, InClient
<1>2. CASE ClientLock \/ RejectTelegram \/ TakeMqttData \/ SetControl
  <2>1. UNCHANGED <<bus, mqttPc, cached, telegram, last, altered>>
    BY <1>2 DEF ClientLock, RejectTelegram, TakeMqttData, SetControl
  <2>2. Awaiting' = Awaiting \/ (telegram = BadPayload /\ ~ Awaiting')
    BY <1>2 DEF ClientLock, RejectTelegram, TakeMqttData, SetControl, Awaiting
  <2>3. ToKnx' = ToKnx /\ Rejected(bus', 1) = Rejected(bus, 1) /\ InQueue' = InQueue
    BY <2>1 DEF ToKnx, Rejected, InQueue
  <2> QED
    BY <2>1, <2>2, <2>3 DEF CacheInv, LastIsSomewhere, InClient, InCache
<1>3. CASE FromKnx
  <2>1. /\ UNCHANGED <<bus, mqttPc, last>> /\ cached' = telegram
        /\ telegram \in Payloads /\ Awaiting /\ ~ Awaiting'
    BY <1>3 DEF FromKnx, Awaiting
  <2>2. ToKnx' = telegram
    BY <2>1, ObjectAssumption DEF ToKnx, Payloads, WireValues
  <2>3. telegram # BadPayload
    BY <2>1, FieldValues
  <2>4. Rejected(bus', 1) = Rejected(bus, 1) /\ InQueue' = InQueue
    BY <2>1 DEF Rejected, InQueue
  <2> QED
    BY <2>1, <2>2, <2>3, <2>4 DEF CacheInv, LastIsSomewhere, InClient, InCache
<1> QED
  BY <1>1, <1>2, <1>3 DEF KnxNotify

\* A message from MQTT has changed nothing yet; a telegram joins the queue.
LEMMA EnvironmentCache ==
    ASSUME Exchange, CacheInv, Environment
    PROVE  CacheInv'
<1> USE DEF Exchange, mqtt, client, history
<1>1. ASSUME NEW c \in Controls, NEW throws \in BOOLEAN, NEW m \in Messages(c, throws),
             OnValueReceive(c, m, throws)
      PROVE  CacheInv'
  BY <1>1 DEF OnValueReceive, CacheInv, LastIsSomewhere, InQueue, InClient, InCache,
     Rejected, Awaiting, ToKnx
<1>2. ASSUME NEW t \in Telegrams, DeviceWrites(t)
      PROVE  CacheInv'
  BY <1>2, TelegramJoins DEF DeviceWrites
<1> QED
  BY <1>1, <1>2 DEF Environment

\* When both threads rest, the data point caches the last value on the bus, in
\* whatever order users and devices wrote, for a queue of any length.  What a
\* refused message left there does not outlast the next telegram.
THEOREM CacheAgrees == Spec => []CacheFollowsBus
<1>1. Init => CacheInv
  BY DEF Init, CacheInv
<1>2. ASSUME Exchange, CacheInv, [Next]_vars PROVE CacheInv'
  <2>1. CASE UNCHANGED vars
    BY <1>2, <2>1 DEF vars, CacheInv, LastIsSomewhere, InQueue, InClient, InCache,
       Rejected, Awaiting, ToKnx, mqtt, client, history
  <2> QED
    BY <1>2, <2>1, MqttCache, ClientCache, EnvironmentCache DEF Next
<1>3. CacheInv => CacheFollowsBus
  BY DEF CacheInv, CacheFollowsBus, AtRest, LastIsSomewhere, InQueue, InClient, InCache, Awaiting
<1> QED
  BY <1>1, <1>2, <1>3, ExchangeKept, PTL DEF Spec
=============================================================================
