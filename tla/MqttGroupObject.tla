-------------------------- MODULE MqttGroupObject --------------------------
(***************************************************************************)
(* TGroupObjectMqtt: one group object between its MQTT controls and the    *)
(* KNX bus.  The MQTT driver's thread calls MqttNotify when a user sets a  *)
(* control, the client thread calls KnxNotify for every telegram to the    *)
(* object's addresses, and both use the data point, which caches the       *)
(* object's value, under a mutex.                                          *)
(*                                                                         *)
(* A data point of one of the classes has one control for each field.  A   *)
(* JSON or raw data point has one control for all of them, a text; its     *)
(* fields are the members of the object, in the order of their names, or   *)
(* the octets as one field.  A text that FromMqtt or ToKnx refuses may     *)
(* have changed the data point by then.                                    *)
(*                                                                         *)
(* The bus is a queue of telegrams on their way to the client thread; knxd *)
(* may return the program's own, or not.  Wire is what is left of a        *)
(* field's value in a telegram.                                            *)
(***************************************************************************)
EXTENDS Naturals, Sequences

CONSTANTS Last,      \* the fields of the data point are 0 .. Last
          Values,    \* what a field may hold and a telegram may carry
          Spoilt,    \* what FromMqtt takes for a field and no telegram carries
          Missing,   \* a field of which a control's text says nothing
          Texts,     \* what FromMqtt takes of the texts that users write
          Default,   \* what the data point caches after a start
          Wire,      \* ToKnx of one field, followed by FromKnx
          Nobody,    \* the mutex is free
          MaxBus     \* bound: telegrams in the queue

ASSUME ObjectAssumption ==
    /\ Last \in Nat
    /\ MaxBus \in Nat \ {0}
    /\ Wire \in [Values -> Values]
    /\ \A v \in Values : Wire[Wire[v]] = Wire[v]
    /\ Default \in Values
    /\ Wire[Default] = Default
    /\ Spoilt \cap Values = {}
    /\ Missing \notin Values \cup Spoilt
    /\ Texts \subseteq UNION {[s -> Values \cup Spoilt] : s \in SUBSET (0 .. Last)}
    /\ Nobody \notin {"mqtt", "client"}

Fields == 0 .. Last
WireValues == {Wire[v] : v \in Values}

\* A telegram of the wrong length carries no value.
BadPayload == <<>>
Payloads == [Fields -> WireValues]
Telegrams == Payloads \cup {BadPayload}

VARIABLES
    feedback,              \* the settings hold a feedback address
    text,                  \* the data point has one control, of type text
    cached,                \* the data point
    mutex,                 \* DptExchangeMutex
    control,               \* the values of the MQTT controls
    bus,
    mqttPc, field,         \* MqttNotify and the control it is called for
    value, bad,            \* the fields it is given, and FromMqtt will throw
    data,                  \* the telegram it sends
    clientPc, telegram,    \* KnxNotify and its argument
    mqttData, index,       \* the values it publishes, the next control
    last,                  \* history: the last telegram with a value on the bus,
                           \* or none if a later one of the program was lost
    altered                \* history: a refused message changed the data point
                           \* after it took a telegram last

settings == <<feedback, text>>
mqtt    == <<mqttPc, field, value, bad, data>>
client  == <<clientPc, telegram, mqttData, index>>
history == <<last, altered>>
vars == <<settings, cached, mutex, control, bus, mqtt, client, history>>

\* The controls, and the fields each of them shows.
Controls == IF text THEN {0} ELSE Fields
Group(c) == IF text THEN Fields ELSE {c}

\* What FromMqtt takes of a message before it returns or throws: of a text some
\* members, of a number all or nothing.
Nothing == [f \in {} |-> Default]
Messages(c, throws) ==
    IF text THEN Texts ELSE IF throws THEN {Nothing} ELSE [{c} -> Values]

Held  == IF text THEN Values \cup Spoilt ELSE Values     \* by the data point
Shown == IF text THEN Values \cup {Missing} ELSE Values  \* by the controls

TypeOK ==
    /\ feedback \in BOOLEAN /\ text \in BOOLEAN
    /\ cached \in [Fields -> Held]
    /\ mutex \in {"mqtt", "client", Nobody}
    /\ control \in [Fields -> Shown]
    /\ bus \in Seq(Telegrams) /\ Len(bus) <= MaxBus
    /\ mqttPc \in {"idle", "lock", "from", "to", "send", "set"}
    /\ field \in Controls /\ bad \in BOOLEAN
    /\ mqttPc # "idle" => value \in Messages(field, bad)
    /\ mqttPc \in {"to", "send", "set"} => ~bad
    /\ mqttPc \in {"send", "set"} => value \in [DOMAIN value -> Values]
    /\ data \in Payloads
    /\ clientPc \in {"idle", "lock", "from", "to", "publish"}
    /\ telegram \in Telegrams
    /\ clientPc \in {"to", "publish"} => telegram \in Payloads
    /\ mqttData \in [Fields -> Values]
    /\ index \in Controls
    /\ last \in Telegrams
    /\ altered \in BOOLEAN

Blank == [f \in Fields |-> Default]

\* The controls are made with the values they had before a restart.
Init ==
    /\ feedback \in BOOLEAN /\ text \in BOOLEAN
    /\ cached = Blank
    /\ mutex = Nobody
    /\ control \in [Fields -> Shown]
    /\ bus = <<>>
    /\ mqttPc = "idle" /\ field = 0 /\ value = Nothing /\ bad = FALSE
    /\ data = Blank
    /\ clientPc = "idle" /\ telegram = BadPayload
    /\ mqttData = Blank /\ index = 0
    /\ last = BadPayload /\ altered = FALSE

ToKnx == [f \in Fields |-> Wire[cached[f]]]

-----------------------------------------------------------------------------
(* MqttNotify                                                              *)

OnValueReceive(c, message, throws) ==
    /\ mqttPc = "idle"
    /\ mqttPc' = "lock"
    /\ field' = c /\ value' = message /\ bad' = throws
    /\ UNCHANGED <<settings, cached, mutex, control, bus, data, client, history>>

MqttGoesOn ==        \* fault: no lock is taken
    /\ mqttPc = "lock"
    /\ mqttPc' = "from"
    /\ UNCHANGED <<settings, cached, mutex, control, bus, field, value, bad, data, client, history>>

MqttLock ==
    /\ mqttPc = "lock"
    /\ mutex = Nobody
    /\ mutex' = "mqtt"
    /\ mqttPc' = "from"
    /\ UNCHANGED <<settings, cached, control, bus, field, value, bad, data, client, history>>

\* What the data point holds after FromMqtt took the message.
Merged == [f \in Fields |-> IF f \in DOMAIN value THEN value[f] ELSE cached[f]]

FromMqtt ==
    /\ mqttPc = "from"
    /\ ~bad
    /\ cached' = Merged
    /\ mqttPc' = "to"
    /\ UNCHANGED <<settings, mutex, control, bus, field, value, bad, data, client, history>>

\* The call returns; its local variables are gone.
MqttReturns ==
    /\ mqttPc' = "idle"
    /\ field' = 0 /\ value' = Nothing /\ bad' = FALSE /\ data' = Blank

RejectRetries ==     \* fault: the rejected value is tried again
    /\ mqttPc = "from"
    /\ bad
    /\ mutex' = Nobody
    /\ mqttPc' = "lock"
    /\ UNCHANGED <<settings, cached, control, bus, field, value, bad, data, client, history>>

\* FromMqtt throws: the control shows the error, nothing is sent, and what was
\* taken of the message stays.
RejectValue ==
    /\ mqttPc = "from"
    /\ bad
    /\ cached' = Merged
    /\ altered' = (altered \/ Merged # cached)
    /\ mutex' = Nobody
    /\ MqttReturns
    /\ UNCHANGED <<settings, control, bus, client, last>>

TakeData ==
    /\ mqttPc = "to"
    /\ \A f \in Fields : cached[f] \in Values
    /\ data' = ToKnx
    /\ mutex' = Nobody
    /\ mqttPc' = "send"
    /\ UNCHANGED <<settings, cached, control, bus, field, value, bad, client, history>>

\* ToKnx throws, for a field of this message or one of an earlier, refused one.
\* (For raw octets without one it is Send that throws, with the same effect.)
RejectData ==
    /\ mqttPc = "to"
    /\ \E f \in Fields : cached[f] \in Spoilt
    /\ altered' = TRUE
    /\ mutex' = Nobody
    /\ MqttReturns
    /\ UNCHANGED <<settings, cached, control, bus, client, last>>

SetAlways == mqttPc' = "set" /\ data' = Blank /\ UNCHANGED <<field, value, bad>>  \* fault

AfterSend ==
    IF feedback THEN MqttReturns
    ELSE mqttPc' = "set" /\ data' = Blank /\ UNCHANGED <<field, value, bad>>

\* TKnxClientService::Send, which does nothing while not connected.  What it
\* sends comes back or does not.
Send ==
    /\ mqttPc = "send"
    /\ \/ /\ Len(bus) < MaxBus
          /\ bus' = Append(bus, data)
          /\ last' = data
       \/ /\ last' = BadPayload
          /\ UNCHANGED bus
    /\ AfterSend
    /\ UNCHANGED <<settings, cached, mutex, control, client, altered>>

SetOwnControl ==
    /\ mqttPc = "set"
    /\ control' = [f \in Fields |-> IF f \in DOMAIN value THEN value[f]
                                   ELSE IF f \in Group(field) THEN Missing
                                   ELSE control[f]]
    /\ MqttReturns
    /\ UNCHANGED <<settings, cached, mutex, bus, client, history>>

MqttNotify ==
    \/ MqttLock \/ FromMqtt \/ RejectValue \/ TakeData \/ RejectData \/ Send \/ SetOwnControl

-----------------------------------------------------------------------------
(* KnxNotify                                                               *)

\* A GroupValueWrite or GroupValueResponse; a read request changes nothing.
Receive ==
    /\ clientPc = "idle"
    /\ bus # <<>>
    /\ telegram' = Head(bus)
    /\ bus' = Tail(bus)
    /\ clientPc' = "lock"
    /\ UNCHANGED <<settings, cached, mutex, control, mqtt, mqttData, index, history>>

ClientGoesOn ==      \* fault: no lock is taken
    /\ clientPc = "lock"
    /\ clientPc' = "from"
    /\ UNCHANGED <<settings, cached, mutex, control, bus, mqtt, telegram, mqttData, index, history>>

ClientLock ==
    /\ clientPc = "lock"
    /\ mutex = Nobody
    /\ mutex' = "client"
    /\ clientPc' = "from"
    /\ UNCHANGED <<settings, cached, control, bus, mqtt, telegram, mqttData, index, history>>

FromKnxIfNew ==      \* fault: a value the controls show already is skipped
    /\ clientPc = "from"
    /\ telegram \in Payloads
    /\ cached' = IF telegram = control THEN cached ELSE telegram
    /\ altered' = FALSE
    /\ clientPc' = "to"
    /\ UNCHANGED <<settings, mutex, control, bus, mqtt, telegram, mqttData, index, last>>

\* Every field is set, whatever a refused message left there.
FromKnx ==
    /\ clientPc = "from"
    /\ telegram \in Payloads
    /\ cached' = telegram
    /\ altered' = FALSE
    /\ clientPc' = "to"
    /\ UNCHANGED <<settings, mutex, control, bus, mqtt, telegram, mqttData, index, last>>

\* All controls show the error.
RejectTelegram ==
    /\ clientPc = "from"
    /\ telegram = BadPayload
    /\ mutex' = Nobody
    /\ clientPc' = "idle"
    /\ UNCHANGED <<settings, cached, control, bus, mqtt, telegram, mqttData, index, history>>

TakeMqttData ==
    /\ clientPc = "to"
    /\ mqttData' = cached
    /\ index' = 0
    /\ mutex' = Nobody
    /\ clientPc' = "publish"
    /\ UNCHANGED <<settings, cached, control, bus, mqtt, telegram, history>>

\* What a control shows of the values KnxNotify has.
Publish(c) ==
    control' = [f \in Fields |-> IF f \in Group(c) THEN mqttData[f] ELSE control[f]]

\* fault: the test for the last control comes too late
SetControlTooFar ==
    /\ clientPc = "publish"
    /\ Publish(index)
    /\ index' = index + 1
    /\ clientPc' = IF index \in Controls THEN "publish" ELSE "idle"
    /\ UNCHANGED <<settings, cached, mutex, bus, mqtt, telegram, mqttData, history>>

\* One control after the other, outside the lock.
SetControl ==
    /\ clientPc = "publish"
    /\ Publish(index)
    /\ \/ /\ index + 1 \in Controls
          /\ index' = index + 1
          /\ UNCHANGED <<clientPc, mqttData>>
       \/ /\ index + 1 \notin Controls
          /\ clientPc' = "idle" /\ index' = 0 /\ mqttData' = Blank
    /\ UNCHANGED <<settings, cached, mutex, bus, mqtt, telegram, history>>

KnxNotify ==
    \/ Receive \/ ClientLock \/ FromKnx \/ RejectTelegram \/ TakeMqttData \/ SetControl

\* Another device sends a telegram.
DeviceWrites(t) ==
    /\ Len(bus) < MaxBus
    /\ bus' = Append(bus, t)
    /\ last' = (IF t = BadPayload THEN last ELSE t)
    /\ UNCHANGED <<settings, cached, mutex, control, mqtt, client, altered>>

-----------------------------------------------------------------------------
Environment ==
    \/ \E c \in Controls, throws \in BOOLEAN :
          \E message \in Messages(c, throws) : OnValueReceive(c, message, throws)
    \/ \E t \in Telegrams : DeviceWrites(t)

Next == MqttNotify \/ KnxNotify \/ Environment

Spec == Init /\ [][Next]_vars

\* Both threads are scheduled, and each gets the mutex although the other may
\* take it again and again: it is held for two conversions at most.
Fairness ==
    /\ WF_vars(MqttNotify) /\ SF_vars(MqttLock)
    /\ WF_vars(KnxNotify) /\ SF_vars(ClientLock)

FairSpec == Spec /\ Fairness

-----------------------------------------------------------------------------
(* Properties                                                              *)

\* The values a user sets are in the telegram that is sent for them, whatever the
\* client thread receives in the meantime.
UserValueSent ==
    mqttPc = "send" => \A f \in DOMAIN value : data[f] = Wire[value[f]]

\* What KnxNotify publishes is one telegram, not a mix of it and a user's value.
NoTornTelegram ==
    clientPc = "publish" => mqttData = telegram

\* README, feedbackGroupAddress: the status message sets the control.  With a
\* feedback address the controls show the telegram received last, and no user
\* overtakes it.
Published(f) == mqttData[f] = control[f]

ControlsFollowBus ==
    feedback /\ telegram \in Payloads =>
        /\ clientPc = "idle" => control = telegram
        /\ clientPc = "publish" => \A f \in Fields : f < index => Published(f)

\* When both threads rest, the data point caches the value sent last on the bus,
\* however users and devices wrote at the same time, if the telegram of the last
\* message from MQTT came back: then it did so in the order of the bus.  A refused
\* message may leave something else there, but only until the next telegram.
AtRest == mqttPc = "idle" /\ clientPc = "idle" /\ bus = <<>>

CacheFollowsBus ==
    AtRest /\ last # BadPayload /\ ~altered => ToKnx = last

\* Every message from MQTT and every telegram is dealt with.
ExchangeEnds ==
    /\ []<>(mqttPc = "idle")
    /\ []<>(clientPc = "idle")

\* debian/changelog, 1.13.3: control values persist.  A telegram sent for one
\* control keeps the values the others show, if no telegram is on its way.
OtherFieldsKept ==
    mqttPc = "send" /\ clientPc = "idle" /\ bus = <<>> =>
        \A f \in Fields \ Group(field) : data[f] = Wire[control[f]]
=============================================================================
