-------------------------- MODULE DataPath_proofs --------------------------
(* Theorems of DataPath, for every export, configuration, value and        *)
(* message, any number of objects and of packets on their way.             *)
EXTENDS DataPath, EtsConfig_proofs, TLAPS

\* No packet in knxd is taken for an event.
PacketsSent == \A p \in bus : p.origin.by # "event"

IInv == PacketsSent /\ EventsDistinguishable

LEMMA InitInv == Init => IInv
BY DEF Init, IInv, PacketsSent, EventsDistinguishable

LEMMA TransactionOrigin ==
    ASSUME NEW a, NEW apci, NEW payload, NEW origin, NEW p \in Transaction(a, apci, payload, origin)
    PROVE  p.origin = origin
BY DEF Transaction, Packet

\* The text of a telegram says which kind of address its receiver is.
LEMMA TextGroup ==
    /\ \A t : t.group => KnxTelegramToMqtt(t).to.dst.group
    /\ \A t : ~ t.group => ~ KnxTelegramToMqtt(t).to.dst.group
<1>1. ASSUME NEW t, t.group PROVE KnxTelegramToMqtt(t).to.dst.group
  <2>1. KnxReceiverAddress(t).group
    BY <1>1 DEF KnxReceiverAddress
  <2> QED
    BY <2>1 DEF KnxTelegramToMqtt
<1>2. ASSUME NEW t, ~ t.group PROVE ~ KnxTelegramToMqtt(t).to.dst.group
  <2>1. ~ KnxReceiverAddress(t).group
    BY <1>2 DEF KnxReceiverAddress
  <2> QED
    BY <2>1 DEF KnxTelegramToMqtt
<1> QED
  BY <1>1, <1>2

LEMMA NextInv == IInv /\ [Next]_vars => IInv'
<1> SUFFICES ASSUME PacketsSent, EventsDistinguishable, [Next]_vars
             PROVE  PacketsSent' /\ EventsDistinguishable'
  BY DEF IInv
<1>1. CASE Import
  BY <1>1 DEF Import, PacketsSent, EventsDistinguishable
<1>2. CASE Configure
  BY <1>2 DEF Configure, PacketsSent, EventsDistinguishable
<1>3. CASE Users
  <2>1. heard' = heard /\ published' = published
    BY <1>3 DEF Users, SetControl, SendMessage
  <2>2. ASSUME NEW p \in bus' \ bus PROVE p.origin.by # "event"
    <3>1. ASSUME NEW a, NEW i, NEW v, SetControl(a, i, v) PROVE p.origin.by # "event"
      <4>1. PICK d : p \in Transaction(a, GroupValueWrite, d, Control(i, v))
        BY <2>2, <3>1 DEF SetControl
      <4> QED
        BY <4>1, TransactionOrigin DEF Control
    <3>2. ASSUME NEW m, SendMessage(m) PROVE p.origin.by # "event"
      BY <2>2, <3>2 DEF SendMessage, Packet, Message
    <3> QED
      BY <1>3, <3>1, <3>2 DEF Users
  <2> QED
    BY <2>1, <2>2 DEF PacketsSent, EventsDistinguishable
<1>4. CASE Devices
  <2>1. heard' = heard /\ published' = published
    BY <1>4 DEF Devices, DeviceSends
  <2>2. ASSUME NEW p \in bus' \ bus PROVE p.origin.by = "device"
    BY <1>4, <2>2, DevicePacketsAssumption DEF Devices, DeviceSends, Packet, Device
  <2> QED
    BY <2>1, <2>2 DEF PacketsSent, EventsDistinguishable
<1>5. ASSUME NEW connected \in BOOLEAN, NotifyEvent(connected)
      PROVE  PacketsSent' /\ EventsDistinguishable'
  <2>1. PacketsSent'
    <3>1. ASSUME NEW p \in ReadRequests PROVE p.origin.by = "request"
      BY <3>1, TransactionOrigin DEF ReadRequests, Request
    <3> QED
      BY <1>5, <3>1 DEF NotifyEvent, PacketsSent
  <2>2. EventsDistinguishable'
    <3>1. ~ DefaultTelegram.group
      BY DEF DefaultTelegram, Telegram
    <3>2. ~ KnxTelegramToMqtt(DefaultTelegram).to.dst.group
      BY <3>1, TextGroup
    <3> QED
      BY <1>5, <3>2 DEF NotifyEvent, Publish, Event, EventsDistinguishable
  <2> QED
    BY <2>1, <2>2
<1>6. ASSUME NEW p \in bus, Receive(p)
      PROVE  PacketsSent' /\ EventsDistinguishable'
  <2>1. PacketsSent'
    BY <1>6 DEF Receive, PacketsSent
  <2>2. EventsDistinguishable'
    <3>1. CASE UNCHANGED <<heard, published>>
      BY <3>1 DEF EventsDistinguishable
    <3>2. ASSUME NEW t \in TelegramOf(p), heard' = p, published' = KnxTelegramToMqtt(t)
          PROVE  EventsDistinguishable'
      <4>1. t.group
        BY DEF TelegramOf, Telegram
      <4>2. published'.to.dst.group
        BY <3>2, <4>1, TextGroup
      <4>3. heard'.origin.by # "event"
        BY <3>2 DEF PacketsSent
      <4> QED
        BY <4>2, <4>3 DEF EventsDistinguishable
    <3> QED
      BY <1>6, <3>1, <3>2 DEF Receive, Publish
  <2> QED
    BY <2>1, <2>2
<1>7. ASSUME NEW p \in bus, Lose(p)
      PROVE  PacketsSent' /\ EventsDistinguishable'
  BY <1>7 DEF Lose, PacketsSent, EventsDistinguishable
<1>8. CASE Noise
  BY <1>8 DEF Noise, PacketsSent, EventsDistinguishable
<1>9. CASE UNCHANGED vars
  BY <1>9 DEF vars, PacketsSent, EventsDistinguishable
<1> QED
  BY <1>1, <1>2, <1>3, <1>4, <1>5, <1>6, <1>7, <1>8, <1>9 DEF Next

\* A reader of the legacy device's text can tell a connection event's from a
\* telegram's (knxlegacydevice.cpp:81, knxclientservice.cpp:63-91).
THEOREM EventsDistinguishableAlways == Spec => []EventsDistinguishable
<1>1. IInv => EventsDistinguishable
  BY DEF IInv
<1> QED
  BY InitInv, NextInv, <1>1, PTL DEF Spec

-----------------------------------------------------------------------------
(* Messages                                                                *)

\* What SendMessage puts into knxd for a message.
SentFor(p, text) ==
    /\ text \in Messages /\ text.group
    /\ \E a \in GroupAddressOf(text.dst), c \in StringToKnxApci(text.apci), d \in PayloadOf(text.data) :
           p.dst = GetEibAddress(a) /\ \E u \in SetPayload(DataTpdu(c), d) : p.octets = GetRaw(u)

MessagesSent == \A p \in bus : p.origin.by = "message" => SentFor(p, p.origin.text)

\* The text of the telegram that a message becomes shows the message.
LEMMA MessageShown ==
    ASSUME NEW p, NEW text, SentFor(p, text), NEW t \in TelegramOf(p)
    PROVE  Shows(KnxTelegramToMqtt(t), text)
<1>1. /\ text.dst \in Seq(WordValues) /\ text.data \in Seq(WordValues)
      /\ text.apci.number \in WordValues
  BY MessagesAssumption DEF SentFor
<1>2. PICK a \in GroupAddressOf(text.dst), c \in StringToKnxApci(text.apci), d \in PayloadOf(text.data) :
          p.dst = GetEibAddress(a) /\ \E u \in SetPayload(DataTpdu(c), d) : p.octets = GetRaw(u)
  BY DEF SentFor
<1>3. PICK u \in SetPayload(DataTpdu(c), d) : p.octets = GetRaw(u)
  BY <1>2
<1>4. a \in GroupAddresses /\ GroupAddressOf(text.dst) = {a}
  BY <1>1, OneAddress
<1>5. c \in 0 .. 15 /\ (ApciString[c + 1] = text.apci.name \/ {c} = {n % 16 : n \in text.apci.number})
  BY <1>1, OneApci
<1>6. d \in Payloads /\ SixBits(d) = d /\ d = IF text.data = <<>> THEN <<0>> ELSE OctetsIn(text.data)
  BY <1>1, OnePayload
<1>7. u = Tpdu(UDP, 0, c, Connect, d)
  BY <1>6 DEF SetPayload, DataTpdu, Tpdu
<1>8. u \in Tpdus /\ IsData(u) /\ u.control = Connect /\ u.apci = c /\ u.payload = d
  BY <1>5, <1>6, <1>7 DEF Tpdu, Tpdus, IsData, UDP, NDP, Connect
<1>9. SetRaw(p.octets) = {u}
  BY <1>3, <1>8, TpduRoundTrip
<1>10. t.dst = GetEibAddress(a) /\ t.group /\ t.tpdu = u
  BY <1>2, <1>9 DEF TelegramOf, Telegram
<1> DEFINE shown == KnxTelegramToMqtt(t)
<1>11. shown.to.dst.address = a
  <2>1. KnxReceiverAddress(t).address = Only(InitEib(t.dst))
    BY <1>10 DEF KnxReceiverAddress
  <2>2. Only(InitEib(t.dst)) = a
    BY <1>4, <1>10, AddressRoundTrip, OnlyOne
  <2> QED
    BY <2>1, <2>2 DEF KnxTelegramToMqtt
<1>12. shown.what = ApciString[c + 1] /\ shown.data = KnxPayloadToString(d)
  BY <1>8, <1>10 DEF KnxTelegramToMqtt
<1> HIDE DEF shown
<1> DEFINE octets == OctetsIn(text.data)
           named == {k \in 1 .. 16 : ApciString[k] = text.apci.name \/ {k - 1} = {n % 16 : n \in text.apci.number}}
<1>13. shown.what \in {ApciString[k] : k \in named}
  <2>1. c + 1 \in 1 .. 16 /\ (c + 1) - 1 = c
    BY <1>5
  <2> QED
    BY <1>5, <1>12, <2>1
<1>14. shown.data = CASE Len(octets) = 0 -> <<0>> [] Len(octets) = 1 -> octets [] OTHER -> Tail(octets)
  <2>1. Len(octets) = Len(text.data) /\ Len(text.data) \in Nat
    BY <1>1 DEF OctetsIn
  <2>2. CASE text.data = <<>>
    <3>1. Len(octets) = 0 /\ d = <<0>>
      BY <1>6, <2>1, <2>2
    <3> QED
      BY <1>12, <3>1 DEF KnxPayloadToString
  <2>3. CASE text.data # <<>>
    <3>1. Len(octets) # 0 /\ d = octets
      BY <1>1, <1>6, <2>1, <2>3
    <3> QED
      BY <1>12, <3>1 DEF KnxPayloadToString
  <2> QED
    BY <2>2, <2>3
<1> QED
  BY <1>4, <1>11, <1>13, <1>14 DEF Shows, OctetsIn, shown

HeardInv == MessagesSent /\ MessageHeard

\* Only SendMessage sends for a message, and only what it sent is heard of one.
LEMMA HeardNext == HeardInv /\ [Next]_vars => HeardInv'
<1> SUFFICES ASSUME MessagesSent, MessageHeard, [Next]_vars
             PROVE  MessagesSent' /\ MessageHeard'
  BY DEF HeardInv
<1>1. CASE Import
  BY <1>1 DEF Import, MessagesSent, MessageHeard
<1>2. CASE Configure
  BY <1>2 DEF Configure, MessagesSent, MessageHeard
<1>3. CASE Users
  <2>1. heard' = heard /\ published' = published
    BY <1>3 DEF Users, SetControl, SendMessage
  <2>2. ASSUME NEW p \in bus' \ bus, p.origin.by = "message" PROVE SentFor(p, p.origin.text)
    <3>1. ASSUME NEW b, NEW i, NEW v, SetControl(b, i, v) PROVE FALSE
      <4>1. PICK e : p \in Transaction(b, GroupValueWrite, e, Control(i, v))
        BY <2>2, <3>1 DEF SetControl
      <4> QED
        BY <2>2, <4>1, TransactionOrigin DEF Control
    <3>2. ASSUME NEW m \in Messages, SendMessage(m) PROVE SentFor(p, p.origin.text)
      <4>1. PICK t \in MqttToKnxTelegram(m) :
                t.group /\ p = Packet(Own, t.dst, GetRaw(t.tpdu), Message(m))
        BY <2>2, <3>2 DEF SendMessage
      <4>2. p.origin.text = m /\ p.dst = t.dst /\ p.octets = GetRaw(t.tpdu)
        BY <4>1 DEF Packet, Message
      <4>3. PICK x \in StringToKnxAddress(m.dst, m.group), c \in StringToKnxApci(m.apci),
                 d \in PayloadOf(m.data) :
                t.group = m.group /\ t.dst = x /\ t.tpdu \in SetPayload(DataTpdu(c), d)
        <5> DEFINE S == IF m.group THEN {0} ELSE StringToKnxAddress(m.src, FALSE)
                   D == StringToKnxAddress(m.dst, m.group)
                   U == UNION {SetPayload(DataTpdu(c), d) :
                                  c \in StringToKnxApci(m.apci), d \in PayloadOf(m.data)}
        <5>0. MqttToKnxTelegram(m) = {Telegram(s, x, m.group, u) : s \in S, x \in D, u \in U}
          BY DEF MqttToKnxTelegram
        <5> HIDE DEF S, D, U
        <5>1. PICK s \in S, x \in D, u \in U : t = Telegram(s, x, m.group, u)
          BY <4>1, <5>0
        <5>2. t.group = m.group /\ t.dst = x /\ t.tpdu = u
          BY <5>1 DEF Telegram
        <5>3. PICK c \in StringToKnxApci(m.apci), d \in PayloadOf(m.data) : u \in SetPayload(DataTpdu(c), d)
          BY DEF U
        <5> QED
          BY <5>2, <5>3 DEF D
      <4>4. m.group /\ \E a \in GroupAddressOf(m.dst) : x = GetEibAddress(a)
        BY <4>1, <4>3 DEF StringToKnxAddress
      <4> QED
        BY <4>2, <4>3, <4>4 DEF SentFor
    <3> QED
      BY <1>3, <3>1, <3>2 DEF Users
  <2> QED
    BY <2>1, <2>2 DEF MessagesSent, MessageHeard
<1>4. CASE Devices
  <2>1. heard' = heard /\ published' = published
    BY <1>4 DEF Devices, DeviceSends
  <2>2. ASSUME NEW p \in bus' \ bus PROVE p.origin.by = "device"
    BY <1>4, <2>2, DevicePacketsAssumption DEF Devices, DeviceSends, Packet, Device
  <2> QED
    BY <2>1, <2>2 DEF MessagesSent, MessageHeard
<1>5. ASSUME NEW connected \in BOOLEAN, NotifyEvent(connected)
      PROVE  MessagesSent' /\ MessageHeard'
  <2>1. ASSUME NEW p \in ReadRequests PROVE p.origin.by = "request"
    BY <2>1, TransactionOrigin DEF ReadRequests, Request
  <2> QED
    BY <1>5, <2>1 DEF NotifyEvent, Publish, Event, MessagesSent, MessageHeard
<1>6. ASSUME NEW p \in bus, Receive(p)
      PROVE  MessagesSent' /\ MessageHeard'
  <2>1. MessagesSent'
    BY <1>6 DEF Receive, MessagesSent
  <2>2. MessageHeard'
    <3>1. CASE UNCHANGED <<heard, published>>
      BY <3>1 DEF MessageHeard
    <3>2. ASSUME NEW t \in TelegramOf(p), heard' = p, published' = KnxTelegramToMqtt(t)
          PROVE  MessageHeard'
      BY <3>2, MessageShown DEF MessagesSent, MessageHeard
    <3> QED
      BY <1>6, <3>1, <3>2 DEF Receive, Publish
  <2> QED
    BY <2>1, <2>2
<1>7. ASSUME NEW p \in bus, Lose(p)
      PROVE  MessagesSent' /\ MessageHeard'
  BY <1>7 DEF Lose, MessagesSent, MessageHeard
<1>8. CASE Noise
  BY <1>8 DEF Noise, MessagesSent, MessageHeard
<1>9. CASE UNCHANGED vars
  BY <1>9 DEF vars, MessagesSent, MessageHeard
<1> QED
  BY <1>1, <1>2, <1>3, <1>4, <1>5, <1>6, <1>7, <1>8, <1>9 DEF Next

\* Whatever a user writes to the legacy device and however knxd orders, returns or
\* loses packets: a message that comes back is shown as it was written
\* (knxconverter.cpp, knxtelegramtpdu.cpp, knxgroupaddress.cpp).
THEOREM MessagesShown == Spec => []MessageHeard
<1>1. Init => HeardInv
  BY DEF Init, HeardInv, MessagesSent, MessageHeard, Nothing
<1>2. HeardInv => MessageHeard
  BY DEF HeardInv
<1> QED
  BY <1>1, <1>2, HeardNext, PTL DEF Spec

-----------------------------------------------------------------------------
(* Frames                                                                  *)

\* The octets on the line are a frame's, or differ from it in one bit.
OnLine(l) ==
    LET frame == GetRawTelegram(l.telegram)
    IN  /\ l = [telegram |-> l.telegram, octets |-> l.octets, noise |-> l.noise]
        /\ l.telegram \in Frames
        /\ ~ l.noise => l.octets = frame
        /\ l.noise => \E k \in DOMAIN frame, i \in 0 .. 7 : l.octets = [frame EXCEPT ![k] = Flip(frame[k], i)]

LineInv == (phase = "line" => line # <<>>) /\ (line # <<>> => OnLine(line))

LEMMA LineInit == Init => LineInv
BY DEF Init, LineInv, OnLine

LEMMA NoiseKeeps == ASSUME LineInv, Noise PROVE LineInv'
<1>1. PICK k \in DOMAIN line.octets, i \in 0 .. 7 :
          line' = [line EXCEPT !.octets[k] = Flip(@, i), !.noise = TRUE]
  BY DEF Noise
<1>2. OnLine(line) /\ ~ line.noise /\ phase' = phase
  BY DEF Noise, LineInv
<1> DEFINE t == line.telegram
           o == line.octets
           q == [o EXCEPT ![k] = Flip(o[k], i)]
<1>3. line = [telegram |-> t, octets |-> o, noise |-> line.noise] /\ t \in Frames /\ o = GetRawTelegram(t)
  BY <1>2 DEF OnLine
<1>4. line' = [telegram |-> t, octets |-> q, noise |-> TRUE]
  BY <1>1, <1>3
<1> HIDE DEF t, o
<1>5. \E j \in DOMAIN o, b \in 0 .. 7 : q = [o EXCEPT ![j] = Flip(o[j], b)]
  BY DEF o
<1> HIDE DEF q
<1> DEFINE l == line'
<1>6. l.telegram = t /\ l.octets = q /\ l.noise /\ l = [telegram |-> l.telegram, octets |-> l.octets, noise |-> l.noise]
  BY <1>4
<1> HIDE DEF l
<1>7. OnLine(l)
  BY <1>3, <1>5, <1>6 DEF OnLine
<1>8. line' # <<>>
  <2>1. DOMAIN line' = {"telegram", "octets", "noise"} /\ DOMAIN <<>> = {}
    BY <1>4
  <2> QED
    BY <2>1
<1> QED
  BY <1>7, <1>8 DEF LineInv, l

LEMMA LineNext == LineInv /\ [Next]_vars => LineInv'
<1> SUFFICES ASSUME LineInv, [Next]_vars PROVE LineInv'
  OBVIOUS
<1>1. CASE Noise
  BY <1>1, NoiseKeeps
<1>2. CASE ~ Noise
  <2>1. line' = line
    BY <1>2 DEF Next, Import, Configure, Users, Devices, SetControl, SendMessage, DeviceSends,
                NotifyEvent, Receive, Lose, vars
  <2>2. phase' = phase \/ phase' # "line"
    BY <1>2 DEF Next, Import, Configure, Users, Devices, SetControl, SendMessage, DeviceSends,
                NotifyEvent, Receive, Lose, vars
  <2> QED
    BY <2>1, <2>2 DEF LineInv
<1> QED
  BY <1>1, <1>2

\* The frame of a telegram that carries data is read as that telegram, and no frame,
\* whatever it carries, is read with a bit that the line has changed
\* (knxtelegram.cpp:37-156).
THEOREM FramesReadAlways == Spec => []FramesRead
<1>1. LineInv => FramesRead
  <2> SUFFICES ASSUME LineInv, line # <<>>
               PROVE  /\ line.noise => SetRawTelegram(line.octets) = {}
                      /\ ~ line.noise /\ IsData(line.telegram.tpdu) =>
                             SetRawTelegram(line.octets) = {line.telegram}
    BY DEF FramesRead
  <2> DEFINE t == line.telegram
             o == GetRawTelegram(t)
  <2>1. OnLine(line) /\ t \in Telegrams /\ (IsData(t.tpdu) => t.tpdu.control = Connect)
    BY FramesAssumption DEF LineInv, OnLine
  <2>2. CASE ~ line.noise
    <3>1. line.octets = o
      BY <2>1, <2>2 DEF OnLine
    <3>2. IsData(t.tpdu) => SetRawTelegram(o) = {t}
      BY <2>1, FrameRoundTrip
    <3> QED
      BY <2>2, <3>1, <3>2
  <2>3. CASE line.noise
    <3>1. PICK k \in DOMAIN o, i \in 0 .. 7 : line.octets = [o EXCEPT ![k] = Flip(o[k], i)]
      BY <2>1, <2>3 DEF OnLine
    <3>2. SetRawTelegram([o EXCEPT ![k] = IF Bit(o[k], i) = 1 THEN o[k] - 2 ^ i ELSE o[k] + 2 ^ i]) = {}
      BY <2>1, FlippedIsRefused
    <3> QED
      BY <2>3, <3>1, <3>2 DEF Flip
  <2> QED
    BY <2>2, <2>3
<1> QED
  BY <1>1, LineInit, LineNext, PTL DEF Spec
-----------------------------------------------------------------------------
(* The installation: from a configuration to objects                       *)

\* Devices and controls are sequences.
Controlled(c) ==
    /\ \E n \in Nat : DOMAIN c.devices = 1 .. n
    /\ \A d \in DOMAIN c.devices : IsSequence(c.devices[d].controls)

OfDevice(control, devices) ==
    \E d \in DOMAIN devices : \E i \in DOMAIN devices[d].controls : control = devices[d].controls[i]

LEMMA ControlsDef ==
    ASSUME Controlled(config)
    PROVE  /\ \E n \in Nat : DOMAIN ConfiguredControls = 1 .. n
           /\ \A k \in DOMAIN ConfiguredControls : OfDevice(ConfiguredControls[k], config.devices)
<1>1. PICK n \in Nat : DOMAIN config.devices = 1 .. n
  BY DEF Controlled
<1> DEFINE devices == config.devices
           C(d) == {devices[d].controls[i] : i \in DOMAIN devices[d].controls}
           S == UNION {C(d) : d \in 1 .. n}
           seqs == [d \in DOMAIN devices |-> devices[d].controls]
<1>2. ASSUME NEW d \in 1 .. n PROVE devices[d].controls \in Seq(S)
  <2>1. devices[d].controls \in Seq(C(d))
    BY <1>1 DEF Controlled, IsSequence
  <2>2. C(d) \subseteq S
    OBVIOUS
  <2> HIDE DEF S, C
  <2> QED
    BY <2>1, <2>2, SeqWiden
<1> HIDE DEF S
<1>3. seqs \in [1 .. n -> Seq(S)] /\ \A d \in 1 .. n : seqs[d] = devices[d].controls
  BY <1>1, <1>2
<1>4. ConfiguredControls = FlattenSeq(seqs)
  BY DEF ConfiguredControls
<1> HIDE DEF seqs
<1>5. seqs \in Seq(Seq(S)) /\ Len(seqs) = n
  BY <1>3, FunctionIsSequence
<1> DEFINE flat == FlattenSeq(seqs)
<1>6. PICK from, at : Flattened(flat, from, at, seqs, n, S)
  BY <1>5, FlattenSeqDef
<1> HIDE DEF flat
<1>7. flat \in Seq(S)
  BY <1>6 DEF Flattened
<1>8. Len(flat) \in Nat /\ DOMAIN flat = 1 .. Len(flat)
  BY <1>7
<1>9. ASSUME NEW k \in 1 .. Len(flat) PROVE OfDevice(flat[k], devices)
  <2>1. from[k] \in 1 .. n /\ at[k] \in 1 .. Len(seqs[from[k]]) /\ flat[k] = seqs[from[k]][at[k]]
    BY <1>6 DEF Flattened
  <2>2. seqs[from[k]] = devices[from[k]].controls /\ seqs[from[k]] \in Seq(S)
    BY <1>3, <2>1
  <2>3. at[k] \in DOMAIN devices[from[k]].controls
    BY <2>1, <2>2
  <2> QED
    BY <1>1, <2>1, <2>2, <2>3 DEF OfDevice
<1> QED
  BY <1>4, <1>8, <1>9 DEF flat

\* What an object is made of, in whose place which others are not made.
LEMMA ObjectsOfDef ==
    ASSUME NEW n \in Nat, NEW addresses, NEW dpts, DOMAIN dpts = 1 .. n,
           NEW made, made = ObjectsOf(addresses, dpts)
    PROVE  /\ \A a \in DOMAIN made : \E k \in 1 .. n :
                  addresses[k] = a /\ dpts[k] # NoObject /\ made[a] = NewObject(dpts[k])
           /\ \A k \in 1 .. n : dpts[k] # NoObject => addresses[k] \in DOMAIN made
<1> DEFINE read == {k \in DOMAIN dpts : dpts[k] # NoObject}
           First(a) == CHOOSE k \in read : addresses[k] = a /\ \A j \in read : addresses[j] = a => k <= j
<1>1. made = [a \in {addresses[k] : k \in read} |-> NewObject(dpts[First(a)])]
  BY DEF ObjectsOf
<1>2. ASSUME NEW a \in DOMAIN made
      PROVE  First(a) \in read /\ addresses[First(a)] = a
  <2> DEFINE same == {k \in read : addresses[k] = a}
  <2>1. same \in SUBSET Nat /\ same # {}
    BY <1>1
  <2>2. PICK k \in same : \A j \in same : k <= j
    BY <2>1, LeastNumber
  <2>3. k \in read /\ addresses[k] = a /\ \A j \in read : addresses[j] = a => k <= j
    BY <2>2
  <2> HIDE DEF read
  <2> QED
    BY <2>3
<1> HIDE DEF First
<1> QED
  BY <1>1, <1>2

-----------------------------------------------------------------------------
(* What a loaded export is installed as                                    *)

LEMMA TextAddress ==
    ASSUME NEW a \in GroupAddresses
    PROVE  GroupAddressOf(GroupAddressText(a)) = {a} /\ InitEib(GetEibAddress(a)) = {a}
<1> DEFINE t == GroupAddressText(a)
<1>1. Len(t) = 3 /\ t[1] = {a.main} /\ t[2] = {a.middle} /\ t[3] = {a.sub}
  BY DEF GroupAddressText
<1> HIDE DEF t
<1>2. GroupAddressOf(t) = InitTriple(a.main, a.middle, a.sub)
  BY <1>1 DEF GroupAddressOf
<1>3. InitTriple(a.main, a.middle, a.sub) = {a}
  BY DEF InitTriple, GroupAddresses, GroupAddress
<1> QED
  BY <1>2, <1>3, AddressRoundTrip DEF t

\* The element, address and type a control of a configuration was made for.
FromPlace(control, p, a) ==
    /\ p \in Places(export) /\ ElementAt(export, p).tag = "GroupAddress"
    /\ a \in GroupAddressOf(ElementAt(export, p).address) /\ a \in GroupAddresses
    /\ control.address = GroupAddressText(a)
    /\ control.type \in TypesOf(ElementAt(export, p)) \ {Dropped}

LEMMA ExportElements ==
    ASSUME IsExport(export), NEW k \in DOMAIN export
    PROVE  /\ Elements(export[k])
           /\ \A i \in DOMAIN export[k] : IsElement(export[k][i]) /\ Elements(export[k][i].children)
           /\ DOMAIN export[k] = 1 .. Len(export[k]) /\ Len(export[k]) \in Nat
<1>1. Elements(export[k])
  BY DEF IsExport, Elements
<1>2. \A i \in DOMAIN export[k] : IsElement(export[k][i]) /\ Elements(export[k][i].children)
  BY DEF IsExport, Elements, IsElement
<1> QED
  BY <1>1, <1>2, ElementsDomain DEF Elements

LEMMA PlaceOf ==
    ASSUME IsExport(export), NEW k \in DOMAIN export, NEW j \in 0 .. Len(export[k]),
           NEW i \in DOMAIN GroupOf(export[k], j)
    PROVE  \E p \in Places(export) : ElementAt(export, p) = GroupOf(export[k], j)[i]
<1>1. /\ Elements(export[k]) /\ \A m \in DOMAIN export[k] : Elements(export[k][m].children)
      /\ DOMAIN export[k] = 1 .. Len(export[k]) /\ Len(export[k]) \in Nat
  BY ExportElements
<1>2. CASE j = 0
  <2>1. i \in DOMAIN export[k] /\ GroupOf(export[k], j)[i] = export[k][i]
    BY <1>2 DEF GroupOf
  <2>2. Len(export[k][i].children) \in Nat
    BY <1>1, <2>1, ElementsDomain DEF Elements
  <2>3. <<k, i, 0>> \in Places(export)
    BY <2>1, <2>2 DEF Places
  <2>4. ElementAt(export, <<k, i, 0>>) = export[k][i]
    BY DEF ElementAt
  <2> QED
    BY <2>1, <2>3, <2>4
<1>3. CASE j # 0
  <2>1. j \in DOMAIN export[k]
    BY <1>1, <1>3
  <2>2. i \in DOMAIN export[k][j].children /\ GroupOf(export[k], j)[i] = export[k][j].children[i]
    BY <1>3 DEF GroupOf
  <2>3. i \in 1 .. Len(export[k][j].children) /\ Len(export[k][j].children) \in Nat
    BY <1>1, <2>1, <2>2, ElementsDomain DEF Elements
  <2>4. <<k, j, i>> \in Places(export)
    BY <2>1, <2>3 DEF Places
  <2>5. ElementAt(export, <<k, j, i>>) = export[k][j].children[i]
    BY <2>3 DEF ElementAt
  <2> QED
    BY <2>2, <2>4, <2>5
<1> QED
  BY <1>2, <1>3

\* The address and the element a control in a group comes from.
LEMMA ListedControl ==
    ASSUME NEW children, NEW l \in Seq(ControlSet(children)), NEW i \in DOMAIN Written(l)
    PROVE  \E m \in DOMAIN children : \E c :
               /\ FromElement(c, children[m]) /\ c.address \in GroupAddresses
               /\ Written(l)[i] = [address |-> GroupAddressText(c.address), type |-> c.type]
<1>1. i \in DOMAIN l /\ Written(l)[i] = [address |-> GroupAddressText(l[i].address), type |-> l[i].type]
  BY DEF Written
<1>2. l[i] \in ControlSet(children)
  BY <1>1
<1>3. l[i].address \in GroupAddresses /\ \E m \in DOMAIN children : FromElement(l[i], children[m])
  BY <1>2 DEF ControlSet
<1> QED
  BY <1>1, <1>3

LEMMA ControlFrom ==
    ASSUME IsExport(export), config \in LoadEtsExport(export)
    PROVE  /\ Controlled(config)
           /\ \A k \in DOMAIN ConfiguredControls : \E p, a : FromPlace(ConfiguredControls[k], p, a)
<1> DEFINE devices == config.devices
<1>1. PICK g : LoadedFrom(devices, export, g)
  BY LoadedDef
<1>2. ASSUME NEW d \in DOMAIN devices
      PROVE  /\ IsSequence(devices[d].controls)
             /\ \A i \in DOMAIN devices[d].controls : \E p, a : FromPlace(devices[d].controls[i], p, a)
  <2> DEFINE k == g[d][1]
             j == g[d][2]
             device == devices[d]
  <2>1. k \in DOMAIN export /\ j \in 0 .. Len(export[k]) /\ device \in MadeOf(export[k], j)
    BY <1>1 DEF LoadedFrom
  <2> HIDE DEF devices, k, j, device
  <2>2. Elements(export[k]) /\ \A i \in DOMAIN export[k] : Elements(export[k][i].children)
    BY <2>1, ExportElements
  <2>3. PICK l \in Seq(ControlSet(GroupOf(export[k], j))) : device.controls = Written(l)
    BY <2>1, <2>2, DeviceParts
  <2>4. IsSequence(Written(l))
    <3> DEFINE w == Written(l)
               n == Len(l)
    <3>1. n \in Nat /\ DOMAIN w = 1 .. n /\ w \in [1 .. n -> {w[i] : i \in 1 .. n}]
      BY DEF Written
    <3> HIDE DEF w, n
    <3> QED
      BY <3>1, FunctionIsSequence DEF IsSequence, w
  <2>5. ASSUME NEW i \in DOMAIN Written(l) PROVE \E p, a : FromPlace(Written(l)[i], p, a)
    <3>1. PICK m \in DOMAIN GroupOf(export[k], j) : \E c :
              /\ FromElement(c, GroupOf(export[k], j)[m]) /\ c.address \in GroupAddresses
              /\ Written(l)[i] = [address |-> GroupAddressText(c.address), type |-> c.type]
      BY ListedControl
    <3>2. PICK c : /\ FromElement(c, GroupOf(export[k], j)[m]) /\ c.address \in GroupAddresses
                   /\ Written(l)[i] = [address |-> GroupAddressText(c.address), type |-> c.type]
      BY <3>1
    <3>3. PICK p \in Places(export) : ElementAt(export, p) = GroupOf(export[k], j)[m]
      BY <2>1, PlaceOf
    <3>4. FromPlace(Written(l)[i], p, c.address)
      BY <3>2, <3>3 DEF FromPlace, FromElement
    <3> QED
      BY <3>4
  <2> QED
    BY <2>3, <2>4, <2>5 DEF device
<1>3. Controlled(config)
  BY <1>1, <1>2 DEF LoadedFrom, Controlled
<1>4. \A k \in DOMAIN ConfiguredControls : OfDevice(ConfiguredControls[k], devices)
  BY <1>3, ControlsDef
<1> QED
  BY <1>2, <1>3, <1>4 DEF OfDevice
LEMMA ElementIs ==
    ASSUME IsExport(export), NEW p \in Places(export)
    PROVE  IsElement(ElementAt(export, p))
<1>0. PICK k \in DOMAIN export : \E j \in DOMAIN export[k] : \E i \in 0 .. Len(export[k][j].children) : p = <<k, j, i>>
  BY DEF Places
<1>1. PICK j \in DOMAIN export[k] : \E i \in 0 .. Len(export[k][j].children) : p = <<k, j, i>>
  BY <1>0
<1>2. PICK i \in 0 .. Len(export[k][j].children) : p = <<k, j, i>>
  BY <1>1
<1>3. IsElement(export[k][j]) /\ Elements(export[k][j].children)
  BY ExportElements
<1>4. i # 0 => i \in DOMAIN export[k][j].children
  BY <1>3, ElementsDomain DEF Elements
<1>5. ElementAt(export, p) = IF i = 0 THEN export[k][j] ELSE export[k][j].children[i]
  BY <1>2 DEF ElementAt
<1> QED
  BY <1>3, <1>4, <1>5 DEF Elements

\* A control the tool writes has a data point, and it is one for the main number
\* of the type that ETS had given.
LEMMA ExportedMade ==
    ASSUME IsExport(export), NEW control, NEW p, NEW a, FromPlace(control, p, a)
    PROVE  /\ CreateDatapoint(control.type) # {} /\ GroupAddressOf(control.address) = {a}
           /\ NoObject \notin CreateDatapoint(control.type)
           /\ \A d \in ElementAt(export, p).dpts :
                  d # <<>> /\ \E m \in Nat : d[1] = {m} /\ \A made \in CreateDatapoint(control.type) : MadeFor(m, made)
<1> DEFINE element == ElementAt(export, p)
           type == control.type
<1>1. IsElement(element)
  BY ElementIs DEF FromPlace
<1>2. type \in TypesOf(element) /\ type # Dropped
  BY DEF FromPlace
<1>3. GroupAddressOf(control.address) = {a}
  BY TextAddress DEF FromPlace
<1> HIDE DEF element, type
<1>4. ASSUME NEW m \in Nat, TypeFor(m, type)
      PROVE  /\ CreateDatapoint(type) # {} /\ NoObject \notin CreateDatapoint(type)
             /\ \A made \in CreateDatapoint(type) : MadeFor(m, made)
  <2>1. CreateDatapoint(type) # {} /\ \A made \in CreateDatapoint(type) : MadeFor(m, made)
    BY <1>4, NamesMade
  <2>2. ~ MadeFor(m, NoObject)
    <3>1. NoObject.kind = "nullptr" /\ NoObject # Raw
      BY DEF NoObject, Raw
    <3>2. \A N : NoObject \notin JsonClasses(m, N)
      BY <3>1 DEF JsonClasses
    <3> QED
      BY <3>1, <3>2 DEF MadeFor
  <2> QED
    BY <2>1, <2>2
<1>5. CASE element.dpts = {}
  <2>1. type = RawValueString
    BY <1>2, <1>5 DEF TypesOf, DefaultName
  <2>2. TypeFor(0, type)
    BY <2>1, DescriptorsAssumption DEF TypeFor, WbMains
  <2> QED
    BY <1>3, <1>4, <1>5, <2>2 DEF element, type
<1>6. ASSUME NEW d \in element.dpts
      PROVE  d # <<>> /\ \E m \in Nat : d[1] = {m} /\ TypeFor(m, type)
  <2>1. element.dpts = {d} /\ d \in Seq(Numbers)
    BY <1>1, <1>6 DEF IsElement
  <2>2. type \in DatapointTypeExportToConfig(d)
    BY <1>2, <2>1 DEF TypesOf
  <2>3. d # <<>> /\ \E m \in d[1] : m \in Nat /\ TypeFor(m, type)
    BY <1>2, <2>1, <2>2, ExportedType
  <2>4. d[1] \in Numbers
    BY <2>1, <2>3
  <2> QED
    BY <2>3, <2>4 DEF Numbers, TooBig
<1>7. CASE element.dpts # {}
  <2>1. PICK d \in element.dpts : TRUE
    BY <1>7
  <2>2. PICK m \in Nat : TypeFor(m, type)
    BY <1>6, <2>1
  <2>3. CreateDatapoint(type) # {} /\ NoObject \notin CreateDatapoint(type)
    BY <1>4, <2>2
  <2> QED
    BY <1>3, <1>4, <1>6, <2>3 DEF element, type
<1> QED
  BY <1>5, <1>7

\* What is configured is what a user wrote, or what the tool made of the export.
Origins ==
    /\ phase \in {"import", "rejected", "configure", "stopped", "run", "line"}
    /\ phase = "import" => export \in Exports
    /\ phase = "line" => export = <<>>
    /\ phase \in {"import", "rejected", "line"} => config = NoConfiguration
    /\ phase \in {"configure", "stopped", "run"} =>
           \/ export = <<>> /\ config \in Configurations
           \/ export \in Exports /\ config \in LoadEtsExport(export)

\* Every object is made of a control, and every control whose type can be read
\* has an object.
OfControl(a, object, control) ==
    /\ object.dpt \in CreateDatapoint(control.type) \ {NoObject}
    /\ \E x \in GroupAddressOf(control.address) : a = GetEibAddress(x)

IsObject(o) == o = [dpt |-> o.dpt, cached |-> o.cached, shown |-> o.shown, last |-> o.last]

ObjectsMade ==
    \A a \in DOMAIN objects :
        IsObject(objects[a]) /\ \E k \in DOMAIN ConfiguredControls : OfControl(a, objects[a], ConfiguredControls[k])

ControlsServed ==
    \A k \in DOMAIN ConfiguredControls :
        \/ NoObject \in CreateDatapoint(ConfiguredControls[k].type)
        \/ \E x \in GroupAddressOf(ConfiguredControls[k].address) : GetEibAddress(x) \in DOMAIN objects

Installed ==
    /\ Origins
    /\ phase # "run" => objects = <<>>
    /\ phase = "run" => Validate(config) /\ ObjectsMade /\ ControlsServed
    /\ phase = "stopped" /\ export # <<>> => ~ Validate(config)

LEMMA InstalledInit == Init => Installed
BY DEF Init, Installed, Origins

LEMMA ConfigureInstalls == ASSUME Installed, Configure PROVE Installed'
<1> DEFINE dpts == [k \in DOMAIN ConfiguredControls |-> CreateDatapoint(ConfiguredControls[k].type)]
           addresses == [k \in DOMAIN ConfiguredControls |-> GroupAddressOf(ConfiguredControls[k].address)]
           eibs == [k \in DOMAIN dpts |-> GetEibAddress(Only(addresses[k]))]
           made == [k \in DOMAIN dpts |-> Only(dpts[k])]
<1>1. phase = "configure" /\ config' = config /\ export' = export /\ ConfiguredControls' = ConfiguredControls
  BY DEF Configure, ConfiguredControls
<1>2. Origins /\ objects = <<>>
  BY <1>1 DEF Installed
<1>3. (phase' = "stopped" \/ phase' = "run") => Origins'
  BY <1>1, <1>2 DEF Origins
<1>4. CASE ~ Validate(config) \/ \E k \in DOMAIN dpts : dpts[k] = {} \/ addresses[k] = {}
  <2>1. phase' = "stopped" /\ objects' = <<>>
    BY <1>2, <1>4 DEF Configure
  <2>2. export # <<>> => ~ Validate(config)
    <3> SUFFICES ASSUME export # <<>> PROVE \A k \in DOMAIN dpts : dpts[k] # {} /\ addresses[k] # {}
      BY <1>4
    <3>1. IsExport(export) /\ config \in LoadEtsExport(export)
      BY <1>1, <1>2, ExportsAssumption DEF Origins
    <3>2. \A k \in DOMAIN ConfiguredControls : \E p, a : FromPlace(ConfiguredControls[k], p, a)
      BY <3>1, ControlFrom
    <3> QED
      BY <3>1, <3>2, ExportedMade
  <2>3. Validate(config)' = Validate(config)
    BY <1>1 DEF Validate
  <2> QED
    BY <1>1, <1>3, <2>1, <2>2, <2>3 DEF Installed
<1>5. CASE Validate(config) /\ \A k \in DOMAIN dpts : dpts[k] # {} /\ addresses[k] # {}
  <2>1. phase' = "run" /\ objects' = ObjectsOf(eibs, made)
    BY <1>5 DEF Configure
  <2>2. Controlled(config)
    <3>1. CASE config \in Configurations
      <4>1. IsSequence(config.devices) /\ \A d \in DOMAIN config.devices : IsSequence(config.devices[d].controls)
        BY <3>1, ConfigurationsAssumption
      <4> QED
        BY <4>1, ElementsDomain DEF Controlled
    <3>2. CASE export \in Exports /\ config \in LoadEtsExport(export)
      BY <3>2, ControlFrom, ExportsAssumption
    <3> QED
      BY <1>1, <1>2, <3>1, <3>2 DEF Origins
  <2>3. PICK n \in Nat : DOMAIN ConfiguredControls = 1 .. n
    BY <2>2, ControlsDef
  <2>4. DOMAIN dpts = 1 .. n /\ DOMAIN made = 1 .. n
    BY <2>3
  <2>5. \A k \in 1 .. n : made[k] \in CreateDatapoint(ConfiguredControls[k].type)
    BY <1>5, <2>3, <2>4, OnlyMember
  <2>6. \A k \in 1 .. n : \E x \in GroupAddressOf(ConfiguredControls[k].address) : eibs[k] = GetEibAddress(x)
    BY <1>5, <2>3, <2>4, OnlyMember
  <2> HIDE DEF dpts, addresses, made, eibs
  <2>7. /\ \A a \in DOMAIN objects' : \E k \in 1 .. n :
               eibs[k] = a /\ made[k] # NoObject /\ objects'[a] = NewObject(made[k])
        /\ \A k \in 1 .. n : made[k] # NoObject => eibs[k] \in DOMAIN objects'
    BY <2>1, <2>4, ObjectsOfDef
  <2>8. ObjectsMade'
    <3> SUFFICES ASSUME NEW a \in DOMAIN objects'
                 PROVE  IsObject(objects'[a]) /\ \E k \in DOMAIN ConfiguredControls : OfControl(a, objects'[a], ConfiguredControls[k])
      BY <1>1 DEF ObjectsMade
    <3>1. PICK k \in 1 .. n : eibs[k] = a /\ made[k] # NoObject /\ objects'[a] = NewObject(made[k])
      BY <2>7
    <3>2. objects'[a].dpt = made[k] /\ IsObject(objects'[a])
      BY <3>1 DEF NewObject, IsObject
    <3>3. OfControl(a, objects'[a], ConfiguredControls[k])
      BY <2>5, <2>6, <3>1, <3>2 DEF OfControl
    <3> QED
      BY <2>3, <3>2, <3>3
  <2>9. ControlsServed'
    <3> SUFFICES ASSUME NEW k \in DOMAIN ConfiguredControls
                 PROVE  \/ NoObject \in CreateDatapoint(ConfiguredControls[k].type)
                        \/ \E x \in GroupAddressOf(ConfiguredControls[k].address) : GetEibAddress(x) \in DOMAIN objects'
      BY <1>1 DEF ControlsServed
    <3>1. k \in 1 .. n
      BY <2>3
    <3>2. CASE made[k] = NoObject
      BY <2>5, <3>1, <3>2
    <3>3. CASE made[k] # NoObject
      BY <2>6, <2>7, <3>1, <3>3
    <3> QED
      BY <3>2, <3>3
  <2>10. Validate(config)'
    BY <1>1, <1>5 DEF Validate
  <2> QED
    BY <1>3, <2>1, <2>8, <2>9, <2>10 DEF Installed
<1> QED
  BY <1>4, <1>5

\* What is exchanged changes no object's address and data point.
SameObjects ==
    /\ DOMAIN objects' = DOMAIN objects
    /\ \A a \in DOMAIN objects : IsObject(objects'[a]) /\ objects'[a].dpt = objects[a].dpt

LEMMA ObjectsKept ==
    ASSUME \A a \in DOMAIN objects : IsObject(objects[a]),
           NEW b \in DOMAIN objects, NEW o, IsObject(o), o.dpt = objects[b].dpt, objects' = [objects EXCEPT ![b] = o]
    PROVE  SameObjects
BY DEF SameObjects

LEMMA NotifiedKeeps ==
    ASSUME NEW object, IsObject(object), NEW tpdu, NEW o \in Notified(object, tpdu)
    PROVE  IsObject(o) /\ o.dpt = object.dpt
<1>1. CASE o = object
  BY <1>1
<1>2. CASE \E c \in DptFromKnx(object.dpt, tpdu.payload) :
               o = [object EXCEPT !.cached = c, !.shown = DptToMqtt(object.dpt, c), !.last = tpdu.payload]
  <2>1. PICK c : o = [object EXCEPT !.cached = c, !.shown = DptToMqtt(object.dpt, c), !.last = tpdu.payload]
    BY <1>2
  <2> DEFINE s == DptToMqtt(object.dpt, c)
             l == tpdu.payload
  <2> HIDE DEF s, l
  <2>2. o = [object EXCEPT !.cached = c, !.shown = s, !.last = l]
    BY <2>1 DEF s, l
  <2>3. object = [dpt |-> object.dpt, cached |-> object.cached, shown |-> object.shown, last |-> object.last]
    BY DEF IsObject
  <2>4. o = [dpt |-> object.dpt, cached |-> c, shown |-> s, last |-> l]
    BY <2>2, <2>3
  <2> QED
    BY <2>4 DEF IsObject
<1> QED
  BY <1>1, <1>2 DEF Notified

\* What the setting of a control leaves and sends.
SetOutcome(a, i, v, r, o) ==
    /\ r \in DptFromMqtt(objects[a].dpt, objects[a].cached, i, v)
    /\ IsObject(o) /\ o.dpt = objects[a].dpt /\ o.cached = r.cached /\ o.last = <<>>
    /\ DOMAIN o.shown = DOMAIN objects[a].shown
    /\ objects' = [objects EXCEPT ![a] = o]
    /\ \A p \in bus' :
           \/ p \in bus
           \/ /\ ~ r.throws
              /\ \E data \in DptToKnx(objects[a].dpt, r.cached) : p \in Transaction(a, GroupValueWrite, data, Control(i, v))

LEMMA SetControlDef ==
    ASSUME NEW a \in DOMAIN objects, NEW i, NEW v, IsObject(objects[a]), SetControl(a, i, v)
    PROVE  \E r, o : SetOutcome(a, i, v, r, o)
<1> DEFINE Data(r) == IF r.throws THEN {} ELSE DptToKnx(objects[a].dpt, r.cached)
           Sent(r) == UNION {Transaction(a, GroupValueWrite, d, Control(i, v)) : d \in Data(r)}
<1>1. PICK r \in DptFromMqtt(objects[a].dpt, objects[a].cached, i, v) :
          /\ objects' = [objects EXCEPT ![a].cached = r.cached, ![a].last = <<>>,
                                        ![a].shown = IF Sent(r) = {} THEN @ ELSE [@ EXCEPT ![i + 1] = v]]
          /\ bus' = bus \cup Sent(r)
  BY DEF SetControl
<1> DEFINE s == IF Sent(r) = {} THEN objects[a].shown ELSE [objects[a].shown EXCEPT ![i + 1] = v]
           o == [objects[a] EXCEPT !.cached = r.cached, !.last = <<>>, !.shown = s]
<1>2. objects' = [objects EXCEPT ![a] = o]
  BY <1>1
<1>3. DOMAIN s = DOMAIN objects[a].shown
  <2> HIDE DEF Sent
  <2> QED
    OBVIOUS
<1>4. ASSUME NEW p \in bus', p \notin bus
      PROVE  ~ r.throws /\ \E d \in DptToKnx(objects[a].dpt, r.cached) : p \in Transaction(a, GroupValueWrite, d, Control(i, v))
  <2>1. p \in Sent(r)
    BY <1>1, <1>4
  <2>2. PICK d \in Data(r) : p \in Transaction(a, GroupValueWrite, d, Control(i, v))
    BY <2>1
  <2>3. ~ r.throws /\ d \in DptToKnx(objects[a].dpt, r.cached)
    BY <2>2
  <2> QED
    BY <2>2, <2>3
<1> HIDE DEF Sent, s
<1>5. o = [dpt |-> objects[a].dpt, cached |-> r.cached, shown |-> s, last |-> <<>>]
  <2> DEFINE p == objects[a]
  <2>1. p = [dpt |-> p.dpt, cached |-> p.cached, shown |-> p.shown, last |-> p.last]
    BY DEF IsObject
  <2>2. o = [p EXCEPT !.cached = r.cached, !.last = <<>>, !.shown = s]
    OBVIOUS
  <2> HIDE DEF p, o
  <2>3. o = [dpt |-> p.dpt, cached |-> r.cached, shown |-> s, last |-> <<>>]
    BY <2>1, <2>2
  <2> QED
    BY <2>3 DEF p
<1> HIDE DEF o
<1>6. IsObject(o) /\ o.dpt = objects[a].dpt /\ o.cached = r.cached /\ o.last = <<>> /\ o.shown = s
  BY <1>5 DEF IsObject
<1>7. SetOutcome(a, i, v, r, o)
  BY <1>1, <1>2, <1>3, <1>4, <1>6 DEF SetOutcome
<1> QED
  BY <1>7

LEMMA TrafficKeeps ==
    ASSUME Installed, phase = "run", [Next]_vars
    PROVE  SameObjects /\ UNCHANGED <<phase, export, config>>
<1>1. \A a \in DOMAIN objects : IsObject(objects[a])
  BY DEF Installed, ObjectsMade
<1>2. CASE objects' = objects /\ UNCHANGED <<phase, export, config>>
  BY <1>1, <1>2 DEF SameObjects
<1>3. ASSUME NEW a \in DOMAIN objects, NEW i, NEW v, SetControl(a, i, v)
      PROVE  SameObjects /\ UNCHANGED <<phase, export, config>>
  <2>1. UNCHANGED <<phase, export, config>>
    BY <1>3 DEF SetControl
  <2>2. PICK r, o : SetOutcome(a, i, v, r, o)
    BY <1>1, <1>3, SetControlDef
  <2>3. IsObject(o) /\ o.dpt = objects[a].dpt /\ objects' = [objects EXCEPT ![a] = o]
    BY <2>2 DEF SetOutcome
  <2> QED
    BY <1>1, <2>1, <2>3, ObjectsKept
<1>4. ASSUME NEW p \in bus, Receive(p)
      PROVE  SameObjects /\ UNCHANGED <<phase, export, config>>
  <2>1. UNCHANGED <<phase, export, config>>
    BY <1>4 DEF Receive
  <2>2. CASE objects' = objects
    BY <1>2, <2>1, <2>2
  <2>3. CASE objects' # objects
    <3>1. PICK t \in TelegramOf(p) : t.dst \in DOMAIN objects /\
              \E o \in Notified(objects[t.dst], t.tpdu) : objects' = [objects EXCEPT ![t.dst] = o]
      BY <1>4, <2>3 DEF Receive
    <3>2. PICK o \in Notified(objects[t.dst], t.tpdu) : objects' = [objects EXCEPT ![t.dst] = o]
      BY <3>1
    <3>3. IsObject(o) /\ o.dpt = objects[t.dst].dpt
      BY <1>1, <3>1, NotifiedKeeps
    <3>4. SameObjects
      BY <1>1, <3>1, <3>2, <3>3, ObjectsKept
    <3> QED
      BY <2>1, <3>4
  <2> QED
    BY <2>1, <2>2, <2>3
<1>5. CASE Users
  <2>1. CASE \E a \in DOMAIN objects : \E v \in UserValues(objects[a].dpt), i \in Controls(objects[a].dpt) :
                 SetControl(a, i - 1, v)
    BY <1>3, <2>1
  <2>2. CASE \E m \in Messages : SendMessage(m)
    BY <1>2, <2>2 DEF SendMessage
  <2> QED
    BY <1>5, <2>1, <2>2 DEF Users
<1>6. CASE Devices
  BY <1>2, <1>6 DEF Devices, DeviceSends
<1>7. CASE Import \/ Configure \/ Noise
  BY <1>7 DEF Import, Configure, Noise
<1>8. ASSUME NEW connected, NotifyEvent(connected) PROVE SameObjects /\ UNCHANGED <<phase, export, config>>
  BY <1>2, <1>8 DEF NotifyEvent
<1>9. ASSUME NEW p \in bus, Lose(p) PROVE SameObjects /\ UNCHANGED <<phase, export, config>>
  BY <1>2, <1>9 DEF Lose
<1>10. CASE UNCHANGED vars
  BY <1>2, <1>10 DEF vars
<1> QED
  BY <1>4, <1>5, <1>6, <1>7, <1>8, <1>9, <1>10 DEF Next
LEMMA InstalledNext == Installed /\ [Next]_vars => Installed'
<1> SUFFICES ASSUME Installed, [Next]_vars PROVE Installed'
  OBVIOUS
<1>1. CASE Configure
  BY <1>1, ConfigureInstalls
<1>2. CASE phase = "run"
  <2>1. SameObjects /\ UNCHANGED <<phase, export, config>>
    BY <1>2, TrafficKeeps
  <2>2. Origins' /\ Validate(config)' /\ ConfiguredControls' = ConfiguredControls
    BY <1>2, <2>1 DEF Installed, Origins, Validate, ConfiguredControls
  <2>3. ObjectsMade'
    <3> SUFFICES ASSUME NEW a \in DOMAIN objects'
                 PROVE  /\ IsObject(objects'[a])
                        /\ \E k \in DOMAIN ConfiguredControls : OfControl(a, objects'[a], ConfiguredControls[k])
      BY <2>2 DEF ObjectsMade
    <3>1. a \in DOMAIN objects /\ objects'[a].dpt = objects[a].dpt /\ IsObject(objects'[a])
      BY <2>1 DEF SameObjects
    <3>2. PICK k \in DOMAIN ConfiguredControls : OfControl(a, objects[a], ConfiguredControls[k])
      BY <1>2, <3>1 DEF Installed, ObjectsMade
    <3>3. OfControl(a, objects'[a], ConfiguredControls[k])
      BY <3>1, <3>2 DEF OfControl
    <3> QED
      BY <3>1, <3>3
  <2>4. ControlsServed'
    BY <1>2, <2>1, <2>2 DEF Installed, ControlsServed, SameObjects
  <2> QED
    BY <1>2, <2>1, <2>2, <2>3, <2>4 DEF Installed
<1>3. CASE Import
  <2>1. UNCHANGED <<export, objects>> /\ phase = "import" /\ objects = <<>>
    BY <1>3 DEF Import, Installed
  <2>2. \/ phase' = "configure" /\ config' \in LoadEtsExport(export)
        \/ phase' = "rejected" /\ config' = config
    BY <1>3 DEF Import
  <2> QED
    BY <2>1, <2>2 DEF Installed, Origins
<1>4. CASE phase # "run" /\ ~ Configure /\ ~ Import
  <2>1. DOMAIN objects = {}
    BY <1>4 DEF Installed
  <2>2. UNCHANGED <<phase, export, config, objects>>
    <3>1. ~ Users
      BY <1>4 DEF Users, SetControl, SendMessage
    <3>2. Devices => UNCHANGED <<phase, export, config, objects>>
      BY DEF Devices, DeviceSends
    <3>3. \A c : NotifyEvent(c) => UNCHANGED <<phase, export, config, objects>>
      BY DEF NotifyEvent
    <3>4. \A p : Receive(p) \/ Lose(p) => UNCHANGED <<phase, export, config, objects>>
      BY <2>1 DEF Receive, Lose
    <3>5. Noise \/ UNCHANGED vars => UNCHANGED <<phase, export, config, objects>>
      BY DEF Noise, vars
    <3> QED
      BY <1>4, <3>1, <3>2, <3>3, <3>4, <3>5 DEF Next
  <2>3. Origins' /\ Validate(config)' = Validate(config)
    BY <2>2 DEF Installed, Origins, Validate
  <2> QED
    BY <1>4, <2>2, <2>3 DEF Installed
<1> QED
  BY <1>1, <1>2, <1>3, <1>4

LEMMA InstalledAlways == Spec => []Installed
BY InstalledInit, InstalledNext, PTL DEF Spec

\* Whatever the tool makes of an export, the service stops at it only because of
\* the schema; it never meets a name without a data point, or an address it cannot
\* read, and a configuration it takes has an object for every control
\* (etsconfigtool.cpp, mqttknxconfig.cpp, mqttbuilder.cpp).
THEOREM ConfigurationAcceptedAlways == Spec => []ConfigurationAccepted
<1>1. Installed => ConfigurationAccepted
  <2> SUFFICES ASSUME Installed, phase = "run", export # <<>>, NEW k \in DOMAIN ConfiguredControls
               PROVE  \E a \in DOMAIN objects : GroupAddressOf(ConfiguredControls[k].address) = InitEib(a)
    BY DEF Installed, ConfigurationAccepted
  <2> DEFINE c == ConfiguredControls[k]
  <2>1. IsExport(export) /\ config \in LoadEtsExport(export)
    BY ExportsAssumption DEF Installed, Origins
  <2>2. PICK p, a : FromPlace(c, p, a)
    BY <2>1, ControlFrom
  <2>3. GroupAddressOf(c.address) = {a} /\ NoObject \notin CreateDatapoint(c.type)
    BY <2>1, <2>2, ExportedMade
  <2>4. a \in GroupAddresses /\ InitEib(GetEibAddress(a)) = {a}
    BY <2>2, TextAddress DEF FromPlace
  <2>5. GetEibAddress(a) \in DOMAIN objects
    BY <2>3 DEF Installed, ControlsServed
  <2> QED
    BY <2>3, <2>4, <2>5
<1> QED
  BY <1>1, InstalledAlways, PTL

\* The main number of a type in ETS is the main number of the object that is made,
\* for every export, however its addresses are grouped, and every list of JSON data
\* points (dptwbmqttconfig.cpp, dptjsonconfig.cpp, mqttbuilder.cpp).
THEOREM TypeKeptAlways == Spec => []TypeKept
<1>1. Installed => TypeKept
  <2> SUFFICES ASSUME Installed, phase = "run", NEW p \in Typed, NEW d \in ElementAt(export, p).dpts,
                      NEW a \in GroupAddressOf(ElementAt(export, p).address), GetEibAddress(a) \in DOMAIN objects
               PROVE  LET object == objects[GetEibAddress(a)].dpt
                          main   == Only(d[1])
                      IN  IF main \in 1 .. 9 \cup {12, 13, 14, 20} THEN object.kind = "wb" /\ object.main = main
                          ELSE IF main \in DOMAIN Descriptors THEN object.kind = "json" /\ object.main = main
                          ELSE object.kind = "raw"
    BY DEF TypeKept
  <2> DEFINE object == objects[GetEibAddress(a)].dpt
  <2>1. p \in Places(export) /\ ElementAt(export, p).tag = "GroupAddress"
    BY DEF Typed
  <2>2. export \in Exports /\ IsExport(export) /\ config \in LoadEtsExport(export)
    <3>1. export # <<>>
      BY <2>1 DEF Places
    <3> QED
      BY <3>1, ExportsAssumption DEF Installed, Origins
  <2>3. PICK k \in DOMAIN ConfiguredControls : OfControl(GetEibAddress(a), objects[GetEibAddress(a)], ConfiguredControls[k])
    BY DEF Installed, ObjectsMade
  <2> DEFINE c == ConfiguredControls[k]
  <2>4. PICK q, b : FromPlace(c, q, b)
    BY <2>2, ControlFrom
  <2>5. b \in GroupAddresses /\ GroupAddressOf(c.address) = {b}
    BY <2>2, <2>4, ExportedMade DEF FromPlace
  <2>6. GetEibAddress(a) = GetEibAddress(b) /\ object \in CreateDatapoint(c.type)
    BY <2>3, <2>5 DEF OfControl
  <2>7. a = b
    <3>1. a \in GroupAddresses
      <4>1. ElementAt(export, p).address \in Seq(WordValues)
        BY <2>1, <2>2, ElementIs DEF IsElement
      <4> QED
        BY <4>1, OneAddress
    <3>2. {a} = {b}
      BY <2>5, <2>6, <3>1, TextAddress
    <3> QED
      BY <3>2
  <2>8. b # GroupAddress(0, 0, 0)
    <3>1. SchemaAllows(c)
      <4>1. OfDevice(c, config.devices)
        BY <2>2, ControlFrom, ControlsDef
      <4> QED
        BY <4>1 DEF Installed, Validate, OfDevice
    <3> QED
      BY <2>5, <3>1 DEF SchemaAllows
  <2>9. p = q
    <3>1. /\ q \in Places(export) /\ ElementAt(export, q).tag = "GroupAddress"
          /\ a \in GroupAddressOf(ElementAt(export, p).address) \cap GroupAddressOf(ElementAt(export, q).address)
      BY <2>4, <2>7 DEF FromPlace
    <3> QED
      BY <2>1, <2>2, <2>7, <2>8, <3>1, ExportsAssumption
  <2>10. PICK m \in Nat : d[1] = {m} /\ MadeFor(m, object)
    <3>1. PICK m \in Nat : d[1] = {m} /\ \A made \in CreateDatapoint(c.type) : MadeFor(m, made)
      BY <2>2, <2>4, <2>9, ExportedMade
    <3> QED
      BY <2>6, <3>1
  <2>11. Only(d[1]) = m
    BY <2>10, OnlyOne
  <2> HIDE DEF object
  <2>12. IF m \in 1 .. 9 \cup {12, 13, 14, 20} THEN object.kind = "wb" /\ object.main = m
         ELSE IF m \in DOMAIN Descriptors THEN object.kind = "json" /\ object.main = m
         ELSE object.kind = "raw"
    BY <2>10 DEF MadeFor, WbMains, JsonClasses, Raw
  <2> QED
    BY <2>11, <2>12 DEF object
<1> QED
  BY <1>1, InstalledAlways, PTL

\* A device's id and addresses are those of its group.
LEMMA DeviceOf ==
    ASSUME IsExport(export), NEW k \in DOMAIN export, NEW j \in 0 .. Len(export[k]), NEW device \in MadeOf(export[k], j)
    PROVE  /\ <<k, j>> \in Groups
           /\ \E a \in AddressesIn(<<k, j>>) : device.id = IF j = 0 THEN <<a.main>> ELSE <<a.main, a.middle>>
           /\ \A i \in DOMAIN device.controls : \E a \in AddressesIn(<<k, j>>) :
                  a \in GroupAddresses /\ device.controls[i].address = GroupAddressText(a)
<1> DEFINE children == GroupOf(export[k], j)
<1>1. Elements(export[k]) /\ \A i \in DOMAIN export[k] : Elements(export[k][i].children)
  BY ExportElements
<1>2. PICK l \in Seq(ControlSet(children)) :
          /\ l # <<>> /\ device.controls = Written(l)
          /\ device.id = IF j = 0 THEN <<l[Len(l)].address.main>>
                         ELSE <<l[Len(l)].address.main, l[Len(l)].address.middle>>
  BY <1>1, DeviceParts
<1>3. children = Children(<<k, j>>)
  BY DEF GroupOf, Children
<1>4. ASSUME NEW i \in DOMAIN l
      PROVE  l[i].address \in GroupAddresses /\ l[i].address \in AddressesIn(<<k, j>>)
  <2>1. l[i] \in ControlSet(children)
    BY <1>4
  <2> HIDE DEF children
  <2>2. PICK m \in DOMAIN children : FromElement(l[i], children[m])
    BY <2>1 DEF ControlSet
  <2>3. children[m].tag = "GroupAddress" /\ l[i].address \in GroupAddressOf(children[m].address)
    BY <2>2 DEF FromElement
  <2>4. l[i].address \in GroupAddresses
    BY <2>1 DEF ControlSet
  <2> QED
    BY <1>3, <2>3, <2>4 DEF AddressesIn
<1>5. Len(l) \in DOMAIN l
  BY <1>2
<1>6. <<k, j>> \in Groups
  BY DEF Groups
<1>7. \A i \in DOMAIN device.controls : \E a \in AddressesIn(<<k, j>>) :
          a \in GroupAddresses /\ device.controls[i].address = GroupAddressText(a)
  <2> TAKE i \in DOMAIN device.controls
  <2>1. i \in DOMAIN l /\ device.controls[i].address = GroupAddressText(l[i].address)
    BY <1>2 DEF Written
  <2> QED
    BY <1>4, <2>1
<1> QED
  BY <1>2, <1>4, <1>5, <1>6, <1>7

LEMMA TextsDiffer ==
    ASSUME NEW a \in GroupAddresses, NEW b \in GroupAddresses, GroupAddressText(a) = GroupAddressText(b)
    PROVE  a = b
<1>1. {a} = {b}
  BY TextAddress
<1> QED
  BY <1>1

\* An export of two or three levels, of any size, becomes devices with different
\* ids, and no two of them control the same address (etsconfigtool.cpp:80-140).
THEOREM DevicesDistinctAlways == Spec => []DevicesDistinct
<1>1. Installed => DevicesDistinct
  <2> DEFINE devices == config.devices
  <2> SUFFICES ASSUME Installed, export # <<>>, ByLevels, NEW d \in DOMAIN devices, NEW e \in DOMAIN devices, d # e
               PROVE  /\ devices[d].id # devices[e].id
                      /\ \A k \in DOMAIN devices[d].controls, l \in DOMAIN devices[e].controls :
                             devices[d].controls[k].address # devices[e].controls[l].address
    BY DEF DevicesDistinct
  <2>1. IsExport(export) /\ config \in LoadEtsExport(export)
    <3>1. config # NoConfiguration
      BY DEF NoConfiguration
    <3> QED
      BY <3>1, ExportsAssumption DEF Installed, Origins
  <2>2. PICK g : LoadedFrom(devices, export, g)
    BY <2>1, LoadedDef
  <2> DEFINE G(p) == <<g[p][1], g[p][2]>>
  <2> HIDE DEF devices
  <2>3. ASSUME NEW p \in DOMAIN devices
        PROVE  /\ G(p) \in Groups
               /\ \E a \in AddressesIn(G(p)) : devices[p].id = IF g[p][2] = 0 THEN <<a.main>> ELSE <<a.main, a.middle>>
               /\ \A i \in DOMAIN devices[p].controls : \E a \in AddressesIn(G(p)) :
                      a \in GroupAddresses /\ devices[p].controls[i].address = GroupAddressText(a)
    <3>1. /\ g[p][1] \in DOMAIN export /\ g[p][2] \in 0 .. Len(export[g[p][1]])
          /\ devices[p] \in MadeOf(export[g[p][1]], g[p][2])
      BY <2>2, <2>3 DEF LoadedFrom
    <3> QED
      BY <2>1, <3>1, DeviceOf
  <2>4. G(d) # G(e)
    BY <2>2 DEF LoadedFrom
  <2>5. G(d)[2] = g[d][2] /\ G(e)[2] = g[e][2]
    OBVIOUS
  <2> HIDE DEF G
  <2>6. \A a \in AddressesIn(G(d)), b \in AddressesIn(G(e)) :
            /\ ~ (a.main = b.main /\ (g[d][2] # 0 => a.middle = b.middle))
    BY <2>3, <2>4, <2>5 DEF ByLevels
  <2>7. devices[d].id # devices[e].id
    <3>1. PICK a \in AddressesIn(G(d)) : devices[d].id = IF g[d][2] = 0 THEN <<a.main>> ELSE <<a.main, a.middle>>
      BY <2>3
    <3>2. PICK b \in AddressesIn(G(e)) : devices[e].id = IF g[e][2] = 0 THEN <<b.main>> ELSE <<b.main, b.middle>>
      BY <2>3
    <3>3. ~ (a.main = b.main /\ (g[d][2] # 0 => a.middle = b.middle))
      BY <2>6
    <3> QED
      BY <3>1, <3>2, <3>3
  <2>8. ASSUME NEW k \in DOMAIN devices[d].controls, NEW l \in DOMAIN devices[e].controls,
               devices[d].controls[k].address = devices[e].controls[l].address
        PROVE  FALSE
    <3>1. PICK a \in AddressesIn(G(d)) : a \in GroupAddresses /\ devices[d].controls[k].address = GroupAddressText(a)
      BY <2>3
    <3>2. PICK b \in AddressesIn(G(e)) : b \in GroupAddresses /\ devices[e].controls[l].address = GroupAddressText(b)
      BY <2>3
    <3>3. a = b
      BY <2>8, <3>1, <3>2, TextsDiffer
    <3> QED
      BY <2>6, <3>3
  <2> QED
    BY <2>7, <2>8
<1> QED
  BY <1>1, InstalledAlways, PTL

-----------------------------------------------------------------------------
(* The traffic: what objects cache and what is on its way                  *)

\* The data points that objects have.
LEMMA Kinds ==
    ASSUME NEW d \in Dpts \cup JsonDpts
    PROVE  \/ d = Raw /\ d.kind = "raw"
           \/ d \in WbClasses /\ ClassMade(d) /\ d.kind = "wb"
           \/ d \in JsonDpts /\ d.kind = "json"
<1>1. Dpts = {Raw} \cup WbClasses
  BY DEF Dpts, WbClasses
<1>2. CASE d = Raw
  BY <1>2 DEF Raw
<1>3. CASE d \in WbClasses
  BY <1>3, ClassesMade DEF ClassMade
<1>4. CASE d \in JsonDpts
  BY <1>4, JsonParts
<1> QED
  BY <1>1, <1>2, <1>3, <1>4

\* Control's type of the types that the tool writes.
LEMMA ExportedNumbers == ASSUME NEW m \in Nat, NEW type, TypeFor(m, type) PROVE type.main \in Nat /\ type.sub \subseteq Nat
<1>1. \A kind, id, title : Name(kind, IdText(id), title).main = id.main
                           /\ Name(kind, IdText(id), title).sub = IF id.hasSub THEN {id.sub} ELSE {}
  BY DEF IdText, Name
<1>2. Id(m).main = m /\ Id(m).hasSub = FALSE
  BY DEF Id
<1>3. \A id : Main(m, id) => id.main = m /\ (id.hasSub => id.sub \in Nat)
  BY DEF Main, Id, SubId
<1>4. Id(0).main = 0 /\ Id(0).hasSub = FALSE
  BY DEF Id
<1>5. CASE m \in WbMains
  <2>1. PICK title : type = Name("wb", IdText(Id(m)), title)
    BY <1>5, Zenon DEF TypeFor
  <2>2. type.main = Id(m).main /\ type.sub = IF Id(m).hasSub THEN {Id(m).sub} ELSE {}
    BY <1>1, <2>1, Zenon
  <2>3. type.main = m /\ type.sub = {}
    BY <1>2, <2>2
  <2> QED
    BY <2>3
<1>6. CASE m \notin WbMains /\ m \in DOMAIN Descriptors
  <2>1. PICK id, title : Main(m, id) /\ type = Name("json", IdText(id), title)
    BY <1>6 DEF TypeFor
  <2>2. type.main = id.main /\ type.sub = IF id.hasSub THEN {id.sub} ELSE {}
    BY <1>1, <2>1
  <2> QED
    BY <1>3, <2>1, <2>2
<1>7. CASE m \notin WbMains /\ m \notin DOMAIN Descriptors
  <2>1. type = Name("raw", IdText(Id(0)), "Raw_Value")
    BY <1>7, Zenon DEF TypeFor, RawValueString
  <2>2. type.main = Id(0).main /\ type.sub = IF Id(0).hasSub THEN {Id(0).sub} ELSE {}
    BY <1>1, <2>1, Zenon
  <2> QED
    BY <1>4, <2>2
<1> QED
  BY <1>5, <1>6, <1>7

LEMMA ExportedTypeFor ==
    ASSUME IsExport(export), NEW control, NEW p, NEW a, FromPlace(control, p, a)
    PROVE  \E m \in Nat : TypeFor(m, control.type)
<1> DEFINE element == ElementAt(export, p)
           given == control.type
<1>1. IsElement(element)
  BY ElementIs DEF FromPlace
<1>2. given \in TypesOf(element) /\ given # Dropped
  BY DEF FromPlace
<1> HIDE DEF element, given
<1>3. element.dpts = {} => TypeFor(0, given)
  <2> SUFFICES ASSUME element.dpts = {} PROVE TypeFor(0, given)
    OBVIOUS
  <2>1. given = RawValueString
    BY <1>2 DEF TypesOf, DefaultName
  <2> QED
    BY <2>1, DescriptorsAssumption DEF TypeFor, WbMains
<1>4. ASSUME NEW d \in element.dpts PROVE \E m \in Nat : TypeFor(m, given)
  <2>1. element.dpts = {d} /\ d \in Seq(Numbers)
    BY <1>1, <1>4 DEF IsElement
  <2>2. given \in DatapointTypeExportToConfig(d)
    BY <1>2, <2>1 DEF TypesOf
  <2>3. \E m \in d[1] : m \in Nat /\ TypeFor(m, given)
    BY <1>2, <2>1, <2>2, ExportedType
  <2> QED
    BY <2>3
<1>5. \E m \in Nat : TypeFor(m, given)
  BY <1>3, <1>4
<1> QED
  BY <1>5 DEF given

\* A control that is configured can be read, whoever wrote it.
LEMMA ControlKnown ==
    ASSUME Installed, phase = "run", NEW k \in DOMAIN ConfiguredControls, NEW c, c = ConfiguredControls[k]
    PROVE  /\ c.type.main \in Nat /\ c.type.sub \subseteq Nat
           /\ \A x \in GroupAddressOf(c.address) : x \in GroupAddresses
<1>1. CASE config \in Configurations
  <2>1. /\ IsSequence(config.devices)
        /\ \A d \in DOMAIN config.devices :
               /\ IsSequence(config.devices[d].controls)
               /\ \A control \in {config.devices[d].controls[i] : i \in DOMAIN config.devices[d].controls} :
                      control.address \in Seq(WordValues) /\ control.type.main \in Nat /\ control.type.sub \subseteq Nat
    BY <1>1, ConfigurationsAssumption
  <2>2. Controlled(config)
    BY <2>1, ElementsDomain DEF Controlled
  <2>3. OfDevice(c, config.devices)
    BY <2>2, ControlsDef
  <2>4. c.address \in Seq(WordValues) /\ c.type.main \in Nat /\ c.type.sub \subseteq Nat
    BY <2>1, <2>3 DEF OfDevice
  <2> QED
    BY <2>4, OneAddress
<1>2. CASE export \in Exports /\ config \in LoadEtsExport(export)
  <2>1. IsExport(export)
    BY <1>2, ExportsAssumption
  <2>2. PICK p, a : FromPlace(c, p, a)
    BY <1>2, <2>1, ControlFrom
  <2>3. PICK m \in Nat : TypeFor(m, c.type)
    BY <2>1, <2>2, ExportedTypeFor
  <2>4. GroupAddressOf(c.address) = {a} /\ a \in GroupAddresses
    BY <2>1, <2>2, ExportedMade DEF FromPlace
  <2> QED
    BY <2>3, <2>4, ExportedNumbers
<1> QED
  BY <1>1, <1>2 DEF Installed, Origins

LEMMA ObjectsKnown ==
    ASSUME Installed, NEW a \in DOMAIN objects
    PROVE  phase = "run" /\ IsObject(objects[a]) /\ a \in EibAddresses /\ objects[a].dpt \in Dpts \cup JsonDpts
<1>1. phase = "run"
  BY DEF Installed
<1>2. IsObject(objects[a]) /\ \E k \in DOMAIN ConfiguredControls : OfControl(a, objects[a], ConfiguredControls[k])
  BY <1>1 DEF Installed, ObjectsMade
<1>3. PICK k \in DOMAIN ConfiguredControls : OfControl(a, objects[a], ConfiguredControls[k])
  BY <1>2
<1> DEFINE c == ConfiguredControls[k]
<1>4. /\ c.type.main \in Nat /\ c.type.sub \subseteq Nat
      /\ \A x \in GroupAddressOf(c.address) : x \in GroupAddresses
  BY <1>1, ControlKnown
<1> HIDE DEF c
<1>5. objects[a].dpt \in CreateDatapoint(c.type) /\ objects[a].dpt # NoObject
  BY <1>3 DEF OfControl, c
<1>6. objects[a].dpt \in Dpts \cup JsonDpts
  BY <1>4, <1>5, WrittenMade
<1>7. a \in EibAddresses
  BY <1>3, <1>4, EibType DEF OfControl, c
<1> QED
  BY <1>1, <1>2, <1>6, <1>7

ObjectsFound == \A a \in DOMAIN objects : objects[a].dpt \in Dpts \cup JsonDpts

LEMMA InstalledFound == Installed => ObjectsFound
BY ObjectsKnown DEF ObjectsFound

\* What a data point may have cached.
CachedTyped(d, c) ==
    /\ d.kind = "raw"  => c \in Seq(ByteSet)
    /\ d.kind = "wb"   => WbTyped(d, c)
    /\ d.kind = "json" => JsonTyped(d, c)

LEMMA CacheInitial == ASSUME NEW d \in Dpts \cup JsonDpts PROVE CachedTyped(d, InitialCache(d))
<1>1. CASE d.kind = "raw"
  <2>1. 0 \in ByteSet
    BY DEF ByteSet
  <2>2. <<0>> \in Seq(ByteSet)
    BY <2>1
  <2> QED
    BY <1>1, <2>2 DEF CachedTyped, InitialCache
<1>2. CASE d.kind = "wb"
  BY <1>2, InitialTyped DEF CachedTyped, InitialCache
<1>3. CASE d.kind = "json"
  BY <1>3, JsonInitialTyped DEF CachedTyped, InitialCache
<1> QED
  BY <1>1, <1>2, <1>3, Kinds

LEMMA CacheFromKnx ==
    ASSUME NEW d \in Dpts \cup JsonDpts, NEW p \in Payloads, NEW c \in DptFromKnx(d, p)
    PROVE  CachedTyped(d, c) /\ DOMAIN DptToMqtt(d, c) = Controls(d)
<1>1. p \in Seq(ByteSet)
  BY DEF Payloads, Octets, ByteSet
<1>2. CASE d.kind = "raw"
  <2>1. c = p
    BY <1>2 DEF DptFromKnx, RawFromKnx
  <2> QED
    BY <1>1, <1>2, <2>1 DEF CachedTyped, DptToMqtt, Controls
<1>3. CASE d.kind = "wb"
  <2>1. WbTyped(d, c)
    BY <1>1, <1>3, Kinds, FromKnxTyped DEF DptFromKnx, Raw, JsonDpts
  <2> QED
    BY <1>3, <2>1 DEF CachedTyped, DptToMqtt, Controls, ToMqtt
<1>4. CASE d.kind = "json"
  <2>0. d \in JsonDpts
    BY <1>4, Kinds
  <2>1. JsonTyped(d, c)
    BY <1>1, <1>4, <2>0, JsonFromKnxTyped DEF DptFromKnx
  <2> QED
    BY <1>4, <2>1 DEF CachedTyped, DptToMqtt, Controls
<1> QED
  BY <1>2, <1>3, <1>4, Kinds

LEMMA CacheFromMqtt ==
    ASSUME NEW d \in Dpts \cup JsonDpts, NEW cached, CachedTyped(d, cached), NEW v \in UserValues(d), NEW i,
           NEW r \in DptFromMqtt(d, cached, i, v)
    PROVE  CachedTyped(d, r.cached)
<1>1. CASE r = Kept(cached, TRUE)
  BY <1>1 DEF Kept
<1>2. CASE d.kind = "raw" /\ v.type = "words" /\ r = RawFromMqtt(v.value)
  <2>1. v.value \in Seq(SUBSET Int)
    <3>1. d = Raw
      BY <1>2, Kinds
    <3>2. v.value \in Seq(WordValues)
      BY <1>2, <3>1, UserValuesAssumption
    <3>3. WordValues \subseteq SUBSET Int
      BY DEF WordValues
    <3> QED
      BY <3>2, <3>3, SeqWiden
  <2>2. r.cached \in Seq(ByteSet)
    BY <1>2, <2>1, RawTyped
  <2> QED
    BY <1>2, <2>2 DEF CachedTyped
<1>3. CASE d.kind = "wb" /\ \E c \in FromMqtt(d, cached, i, v) : r = Kept(c, FALSE)
  <2>1. PICK c \in FromMqtt(d, cached, i, v) : r.cached = c
    BY <1>3 DEF Kept
  <2>2. d \in WbClasses /\ ClassMade(d) /\ d \in Dpts \ {Raw}
    BY <1>3, Kinds DEF Raw, Dpts, WbClasses
  <2>3. \A j \in DOMAIN d.fields : Input(d.fields[j], v)
    BY <2>2, UserValuesAssumption
  <2>4. WbTyped(d, cached)
    BY <1>3 DEF CachedTyped
  <2>5. WbTyped(d, c)
    BY <2>2, <2>3, <2>4, FromMqttTyped
  <2> QED
    BY <1>3, <2>1, <2>5 DEF CachedTyped
<1>4. CASE d.kind = "json" /\ v.type = "json" /\ r = JsonFromMqtt(d, cached, v.value)
  <2>1. d \in JsonDpts
    BY <1>4, Kinds
  <2>2. \A j \in DOMAIN d.fields : d.fields[j].name \in DOMAIN v.value => JsonInput(d.fields[j], v.value[d.fields[j].name])
    BY <1>4, <2>1, UserValuesAssumption
  <2>3. JsonTyped(d, cached)
    BY <1>4 DEF CachedTyped
  <2>4. JsonTyped(d, r.cached)
    BY <1>4, <2>2, <2>3, JsonFromMqttTyped
  <2> QED
    BY <1>4, <2>4 DEF CachedTyped
<1> QED
  BY <1>1, <1>2, <1>3, <1>4 DEF DptFromMqtt

LEMMA DataTyped ==
    ASSUME NEW d \in Dpts \cup JsonDpts, NEW c, CachedTyped(d, c), NEW data \in DptToKnx(d, c)
    PROVE  data \in Seq(ByteSet)
<1>1. CASE d.kind = "raw"
  BY <1>1 DEF CachedTyped, DptToKnx
<1>2. CASE d.kind = "wb"
  <2>1. ClassMade(d)
    BY <1>2, Kinds DEF Raw
  <2> QED
    BY <1>2, <2>1, ToKnxTyped DEF CachedTyped, DptToKnx
<1>3. CASE d.kind = "json"
  <2>1. d \in JsonDpts
    BY <1>3, Kinds
  <2> QED
    BY <1>3, <2>1, JsonToKnxTyped DEF CachedTyped, DptToKnx
<1> QED
  BY <1>1, <1>2, <1>3, Kinds

\* What a control's value became on its way into knxd.
SentBy(d, p) ==
    /\ p.origin.value \in UserValues(d) /\ p.origin.index \in Int /\ p.origin.index + 1 \in Controls(d)
    /\ \E c : CachedTyped(d, c) /\
           \E r \in DptFromMqtt(d, c, p.origin.index, p.origin.value) :
               /\ ~ r.throws
               /\ \E data \in DptToKnx(d, r.cached) :
                      \E u \in SetPayload(DataTpdu(GroupValueWrite), data) : p.octets = GetRaw(u)

\* Nothing but a payload that was read stands behind what is shown as read.
FromBus(o) ==
    o.last \in Payloads /\ o.cached \in DptFromKnx(o.dpt, o.last) /\ o.shown = DptToMqtt(o.dpt, o.cached)

ObjectTyped(o) ==
    /\ DOMAIN o.shown = Controls(o.dpt) /\ CachedTyped(o.dpt, o.cached)
    /\ o.last # <<>> => FromBus(o)

Addressed(p) == p.dst \in EibAddresses /\ p.octets \in OctetStrings
SentTo(p, list) == p.origin.by = "control" => p.dst \in DOMAIN list /\ SentBy(list[p.dst].dpt, p)

Traffic ==
    /\ \A a \in DOMAIN objects : ObjectTyped(objects[a])
    /\ \A p \in bus : Addressed(p) /\ SentTo(p, objects)
    /\ heard # Nothing => config.legacy /\ published # <<>>
    /\ phase # "run" => bus = {} /\ heard = Nothing

LEMMA TrafficInit == Init => Traffic
BY DEF Init, Traffic

LEMMA OctetBounds ==
    ASSUME NEW n \in Octets
    PROVE  n \in Int /\ 0 <= n /\ n <= 255 /\ n % 64 \in Octets /\ n % 64 < 64
<1>1. n \in 0 .. 255
  BY DEF Octets
<1>2. n \in Int /\ 0 <= n /\ n <= 255
  BY <1>1
<1>3. n % 64 \in Int /\ 0 <= n % 64 /\ n % 64 < 64
  BY <1>2
<1> DEFINE m == n % 64
<1> HIDE DEF m
<1>4. m \in Int /\ 0 <= m /\ m < 64
  BY <1>3 DEF m
<1>5. m \in Octets
  BY <1>4 DEF Octets
<1> QED
  BY <1>2, <1>4, <1>5 DEF m

\* What SetPayload makes of octets is a payload.
LEMMA PayloadMade ==
    ASSUME NEW tpdu, tpdu.type \in 0 .. 3, tpdu.seq \in 0 .. 15, tpdu.apci \in 0 .. 15, tpdu.control \in 0 .. 3,
           NEW octets \in Seq(Octets), NEW u \in SetPayload(tpdu, octets)
    PROVE  /\ u \in Tpdus /\ u.payload \in Payloads /\ u.payload = SixBits(octets)
           /\ u.type = tpdu.type /\ u.seq = tpdu.seq /\ u.apci = tpdu.apci /\ u.control = tpdu.control
<1> DEFINE p == SixBits(octets)
<1>1. Len(octets) \in 1 .. MaxPayloadSize /\ u = Tpdu(tpdu.type, tpdu.seq, tpdu.apci, tpdu.control, p)
  BY DEF SetPayload
<1>2. \A k \in 1 .. Len(octets) : (IF k = 1 THEN octets[k] % 64 ELSE octets[k]) \in Octets
  <2> TAKE k \in 1 .. Len(octets)
  <2>1. octets[k] \in Octets
    OBVIOUS
  <2> QED
    BY <2>1, OctetBounds
<1>3. p \in [1 .. Len(octets) -> Octets] /\ p[1] = octets[1] % 64 /\ octets[1] \in Octets
  BY <1>1, <1>2 DEF SixBits, MaxPayloadSize
<1> HIDE DEF p
<1>4. p \in Seq(Octets) /\ Len(p) = Len(octets) /\ p[1] < 64
  <2>1. p \in Seq(Octets) /\ Len(p) = Len(octets)
    BY <1>3, FunctionIsSequence
  <2> QED
    BY <1>3, <2>1, OctetBounds
<1>5. p \in Payloads
  BY <1>1, <1>4 DEF Payloads
<1> QED
  BY <1>1, <1>5 DEF Tpdu, Tpdus, p

LEMMA WriteMade ==
    ASSUME NEW apci \in 0 .. 15, NEW octets \in Seq(Octets), NEW u \in SetPayload(DataTpdu(apci), octets)
    PROVE  /\ u \in Tpdus /\ IsData(u) /\ u.control = Connect /\ u.apci = apci /\ u.payload = SixBits(octets)
           /\ u.payload \in Payloads /\ GetRaw(u) \in OctetStrings
<1>1. LET t == DataTpdu(apci) IN t.type = 0 /\ t.seq = 0 /\ t.apci = apci /\ t.control = 0
  BY DEF DataTpdu, Tpdu, UDP, Connect
<1>2. /\ u \in Tpdus /\ u.payload \in Payloads /\ u.payload = SixBits(octets)
      /\ u.type = 0 /\ u.apci = apci /\ u.control = 0
  BY <1>1, PayloadMade
<1>3. GetRaw(u) \in Seq(Octets) /\ Len(GetRaw(u)) >= 1
  BY <1>2, RawType
<1>4. GetRaw(u) # <<>>
  BY <1>3
<1> QED
  BY <1>2, <1>3, <1>4 DEF IsData, UDP, Connect, OctetStrings

\* A telegram that tells an object a value brings a payload.
LEMMA PayloadRead ==
    ASSUME NEW p, p.octets \in OctetStrings, NEW t \in TelegramOf(p)
    PROVE  /\ t.dst = p.dst /\ t.group
           /\ t.tpdu.apci \in {GroupValueWrite, GroupValueResponse} => t.tpdu.payload \in Payloads
<1> DEFINE octets == p.octets
           first == octets[1]
<1>1. PICK u \in SetRaw(octets) : t = Telegram(p.src, p.dst, TRUE, u)
  BY DEF TelegramOf
<1>2. t.dst = p.dst /\ t.group /\ t.tpdu = u
  BY <1>1 DEF Telegram
<1>3. octets \in Seq(Octets) /\ octets # <<>>
  BY DEF OctetStrings
<1> HIDE DEF octets
<1>4. first \in Octets
  BY <1>3
<1>5. CASE first \div 64 \notin {UDP, NDP}
  <2>1. u.apci = GroupValueRead
    BY <1>1, <1>5 DEF SetRaw, Tpdu
  <2> QED
    BY <1>2, <2>1 DEF GroupValueRead, GroupValueWrite, GroupValueResponse
<1>6. CASE first \div 64 \in {UDP, NDP}
  <2> DEFINE apci == (first % 4) * 4 + (octets[2] \div 64)
             x == Tpdu(first \div 64, (first \div 4) % 16, apci, Connect, <<0>>)
             rest == Tail(octets)
  <2>1. Len(octets) # 1 /\ u \in SetPayload(x, rest)
    BY <1>1, <1>6 DEF SetRaw
  <2>2. rest \in Seq(Octets) /\ octets[2] \in Octets
    BY <1>3, <2>1
  <2> DEFINE second == octets[2]
  <2>a. first \in Int /\ 0 <= first /\ first <= 255 /\ second \in Int /\ 0 <= second /\ second <= 255
    BY <1>4, <2>2, OctetBounds
  <2> HIDE DEF second, first
  <2>3. first \div 64 \in 0 .. 3 /\ (first \div 4) % 16 \in 0 .. 15 /\ apci \in 0 .. 15 /\ Connect \in 0 .. 3
    BY <2>a, SMT DEF Connect, second
  <2> HIDE DEF apci, first
  <2>4. x.type \in 0 .. 3 /\ x.seq \in 0 .. 15 /\ x.apci \in 0 .. 15 /\ x.control \in 0 .. 3
    BY <2>3 DEF Tpdu
  <2> HIDE DEF x, rest
  <2>5. u.payload \in Payloads
    BY <2>1, <2>2, <2>4, PayloadMade
  <2> QED
    BY <1>2, <2>5
<1> QED
  BY <1>5, <1>6

\* Whatever happens, what was on its way to or from an object still is.
LEMMA PacketsKept ==
    ASSUME Installed, Traffic, phase = "run", [Next]_vars, NEW p \in bus
    PROVE  Addressed(p) /\ SentTo(p, objects')
<1>1. SameObjects
  BY TrafficKeeps
<1>2. Addressed(p) /\ SentTo(p, objects)
  BY DEF Traffic
<1> QED
  BY <1>1, <1>2 DEF SentTo, SameObjects

LEMMA MessageAddressed == ASSUME NEW p, NEW text, SentFor(p, text) PROVE Addressed(p)
<1>1. /\ text.dst \in Seq(WordValues) /\ text.data \in Seq(WordValues) /\ text.apci.number \in WordValues
  BY MessagesAssumption DEF SentFor
<1>2. PICK a \in GroupAddressOf(text.dst), c \in StringToKnxApci(text.apci), d \in PayloadOf(text.data) :
          p.dst = GetEibAddress(a) /\ \E u \in SetPayload(DataTpdu(c), d) : p.octets = GetRaw(u)
  BY DEF SentFor
<1>3. PICK u \in SetPayload(DataTpdu(c), d) : p.octets = GetRaw(u)
  BY <1>2
<1>4. a \in GroupAddresses
  BY <1>1, OneAddress
<1>5. c \in 0 .. 15 /\ d \in Payloads
  BY <1>1, OneApci, OnePayload
<1>6. d \in Seq(Octets)
  BY <1>5 DEF Payloads
<1>7. p.octets \in OctetStrings
  BY <1>3, <1>5, <1>6, WriteMade
<1> QED
  BY <1>2, <1>4, <1>7, EibType DEF Addressed

LEMMA TransactionOk ==
    ASSUME NEW a \in EibAddresses, NEW apci \in 0 .. 15, NEW octets \in Seq(Octets), NEW origin,
           NEW p \in Transaction(a, apci, octets, origin)
    PROVE  Addressed(p) /\ p.dst = a /\ p.origin = origin
           /\ \E u \in SetPayload(DataTpdu(apci), octets) : p.octets = GetRaw(u)
<1>1. PICK u \in SetPayload(DataTpdu(apci), octets) : p = Packet(Own, a, GetRaw(u), origin)
  BY DEF Transaction
<1>2. p.dst = a /\ p.origin = origin /\ p.octets = GetRaw(u)
  BY <1>1 DEF Packet
<1>3. GetRaw(u) \in OctetStrings
  BY WriteMade
<1> QED
  BY <1>2, <1>3 DEF Addressed

LEMMA SomethingShown == ASSUME NEW t PROVE KnxTelegramToMqtt(t) # <<>>
<1>1. "to" \in DOMAIN KnxTelegramToMqtt(t)
  BY DEF KnxTelegramToMqtt
<1>2. DOMAIN <<>> = {}
  OBVIOUS
<1> QED
  BY <1>1, <1>2

\* A user sets a control.
LEMMA SetControlTraffic ==
    ASSUME Installed, Traffic, phase = "run", [Next]_vars, NEW a \in DOMAIN objects, NEW v \in UserValues(objects[a].dpt),
           NEW i \in Controls(objects[a].dpt), SetControl(a, i - 1, v)
    PROVE  Traffic'
<1> DEFINE d == objects[a].dpt
           c == objects[a].cached
<1>1. IsObject(objects[a]) /\ a \in EibAddresses /\ d \in Dpts \cup JsonDpts
  BY ObjectsKnown
<1>2. PICK r, o : SetOutcome(a, i - 1, v, r, o)
  BY <1>1, SetControlDef
<1>3. ObjectTyped(objects[a])
  BY DEF Traffic
<1>4. CachedTyped(d, c)
  BY <1>3 DEF ObjectTyped
<1>5. /\ r \in DptFromMqtt(d, c, i - 1, v)
      /\ o.dpt = d /\ o.cached = r.cached /\ o.last = <<>> /\ DOMAIN o.shown = DOMAIN objects[a].shown
      /\ objects' = [objects EXCEPT ![a] = o]
      /\ \A p \in bus' :
             \/ p \in bus
             \/ /\ ~ r.throws
                /\ \E data \in DptToKnx(d, r.cached) : p \in Transaction(a, GroupValueWrite, data, Control(i - 1, v))
  BY <1>2 DEF SetOutcome
<1>6. CachedTyped(d, r.cached)
  <2> HIDE DEF d, c
  <2>1. v \in UserValues(d)
    BY DEF d
  <2> QED
    BY <1>1, <1>4, <1>5, <2>1, CacheFromMqtt
<1>7. ObjectTyped(o)
  BY <1>3, <1>5, <1>6 DEF ObjectTyped
<1>8. \A b \in DOMAIN objects' : ObjectTyped(objects'[b])
  BY <1>5, <1>7 DEF Traffic
<1>9. ASSUME NEW p \in bus', p \notin bus
      PROVE  Addressed(p) /\ SentTo(p, objects')
  <2>1. PICK data \in DptToKnx(d, r.cached) : p \in Transaction(a, GroupValueWrite, data, Control(i - 1, v))
    BY <1>5, <1>9
  <2>2. data \in Seq(Octets)
    <3>1. data \in Seq(ByteSet)
      BY <1>1, <1>6, DataTyped
    <3> QED
      BY <3>1 DEF Octets, ByteSet
  <2>3. /\ Addressed(p) /\ p.dst = a /\ p.origin = Control(i - 1, v)
        /\ \E u \in SetPayload(DataTpdu(GroupValueWrite), data) : p.octets = GetRaw(u)
    <3>1. GroupValueWrite \in 0 .. 15
      BY DEF GroupValueWrite
    <3> QED
      BY <1>1, <2>1, <2>2, <3>1, TransactionOk
  <2>4. p.origin.index = i - 1 /\ p.origin.value = v
    BY <2>3 DEF Control
  <2>5. i - 1 + 1 = i /\ i - 1 \in Int
    <3>1. i \in Int
      <4>1. CASE d.kind = "wb"
        <5>1. d.fields \in Seq({d.fields[j] : j \in DOMAIN d.fields})
          BY <1>1, <4>1, Kinds DEF ClassMade
        <5>2. i \in DOMAIN d.fields
          BY <4>1 DEF Controls
        <5>3. DOMAIN d.fields \subseteq Nat
          BY <5>1
        <5> QED
          BY <5>2, <5>3
      <4>2. CASE d.kind # "wb"
        BY <4>2 DEF Controls
      <4> QED
        BY <4>1, <4>2
    <3> QED
      BY <3>1
  <2>6. ~ r.throws
    BY <1>5, <1>9
  <2>7. SentBy(d, p)
    BY <1>4, <1>5, <2>3, <2>4, <2>5, <2>6 DEF SentBy
  <2>8. a \in DOMAIN objects' /\ objects'[a].dpt = d
    BY <1>5
  <2> QED
    BY <2>3, <2>7, <2>8 DEF SentTo
<1>10. UNCHANGED <<phase, config, published, heard>>
  BY DEF SetControl
<1> QED
  BY <1>8, <1>9, <1>10, PacketsKept DEF Traffic

\* A telegram is received.
LEMMA ReceiveTraffic ==
    ASSUME Installed, Traffic, phase = "run", [Next]_vars, NEW q \in bus, Receive(q)
    PROVE  Traffic'
<1>1. Addressed(q)
  BY DEF Traffic
<1>2. bus' = bus \ {q} /\ UNCHANGED <<phase, config>>
  BY DEF Receive
<1>3. \A p \in bus' : Addressed(p) /\ SentTo(p, objects')
  BY <1>2, PacketsKept
<1>4. heard' # Nothing => config'.legacy /\ published' # <<>>
  <2>1. CASE UNCHANGED <<heard, published>>
    BY <1>2, <2>1 DEF Traffic
  <2>2. CASE ~ UNCHANGED <<heard, published>>
    <3>1. PICK t \in TelegramOf(q) : Publish(q, t)
      BY <2>2 DEF Receive
    <3>2. config.legacy /\ published' = KnxTelegramToMqtt(t)
      BY <2>2, <3>1 DEF Publish
    <3> QED
      BY <1>2, <3>2, SomethingShown
  <2> QED
    BY <2>1, <2>2
<1>5. \A b \in DOMAIN objects' : ObjectTyped(objects'[b])
  <2>1. CASE objects' = objects
    BY <2>1 DEF Traffic
  <2>2. CASE objects' # objects
    <3>1. PICK t \in TelegramOf(q) : t.dst \in DOMAIN objects /\
              \E o \in Notified(objects[t.dst], t.tpdu) : objects' = [objects EXCEPT ![t.dst] = o]
      BY <2>2 DEF Receive
    <3> DEFINE a == t.dst
               d == objects[a].dpt
    <3>2. PICK o \in Notified(objects[a], t.tpdu) : objects' = [objects EXCEPT ![a] = o]
      BY <3>1
    <3>3. IsObject(objects[a]) /\ d \in Dpts \cup JsonDpts
      BY <3>1, ObjectsKnown
    <3>4. ObjectTyped(objects[a])
      BY <3>1 DEF Traffic
    <3>5. ObjectTyped(o)
      <4>1. CASE o = objects[a]
        BY <3>4, <4>1
      <4>2. CASE o # objects[a]
        <5> DEFINE payload == t.tpdu.payload
        <5>1. t.tpdu.apci \in {GroupValueWrite, GroupValueResponse}
          BY <3>2, <4>2 DEF Notified
        <5>2. payload \in Payloads
          BY <1>1, <3>1, <5>1, PayloadRead DEF Addressed
        <5>3. PICK c \in DptFromKnx(d, payload) :
                  o = [objects[a] EXCEPT !.cached = c, !.shown = DptToMqtt(d, c), !.last = payload]
          BY <3>2, <4>2 DEF Notified
        <5> DEFINE s == DptToMqtt(d, c)
                   old == objects[a]
        <5>4. o = [old EXCEPT !.cached = c, !.shown = s, !.last = payload]
          BY <5>3
        <5>5. old = [dpt |-> old.dpt, cached |-> old.cached, shown |-> old.shown, last |-> old.last]
          BY <3>3 DEF IsObject
        <5>6. old.dpt = d
          OBVIOUS
        <5>7. CachedTyped(d, c) /\ DOMAIN s = Controls(d)
          BY <3>3, <5>2, CacheFromKnx
        <5>8. s = DptToMqtt(d, c) /\ c \in DptFromKnx(d, payload)
          OBVIOUS
        <5> HIDE DEF s, old, payload, d
        <5>9. o.dpt = d /\ o.cached = c /\ o.shown = s /\ o.last = payload
          BY <5>4, <5>5, <5>6
        <5>10. FromBus(o)
          BY <5>2, <5>8, <5>9 DEF FromBus
        <5> QED
          BY <5>7, <5>9, <5>10 DEF ObjectTyped
      <4> QED
        BY <4>1, <4>2
    <3> QED
      BY <3>1, <3>2, <3>5 DEF Traffic
  <2> QED
    BY <2>1, <2>2
<1>6. phase' = "run"
  BY <1>2
<1> QED
  BY <1>3, <1>4, <1>5, <1>6 DEF Traffic

\* Devices, users of the legacy device and events put packets into knxd.
LEMMA SentTraffic ==
    ASSUME Installed, HeardInv, HeardInv', Traffic, phase = "run", [Next]_vars,
           \/ Devices
           \/ \E m \in Messages : SendMessage(m)
           \/ \E connected \in BOOLEAN : NotifyEvent(connected)
    PROVE  Traffic'
<1>1. UNCHANGED <<phase, config, objects>>
  BY DEF Devices, DeviceSends, SendMessage, NotifyEvent
<1>2. \A a \in DOMAIN objects : a \in EibAddresses /\ objects[a].dpt \in Dpts \cup JsonDpts
  BY ObjectsKnown
<1>3. ASSUME NEW p \in bus', p \notin bus PROVE Addressed(p) /\ SentTo(p, objects')
  <2>1. CASE p.origin.by = "message"
    <3>1. SentFor(p, p.origin.text)
      BY <2>1 DEF HeardInv, MessagesSent
    <3> QED
      BY <2>1, <3>1, MessageAddressed DEF SentTo
  <2>2. CASE Devices
    <3>1. CASE p \in DevicePackets
      BY <3>1, DevicePacketsAssumption DEF Addressed, SentTo
    <3>2. CASE p \notin DevicePackets
      <4>1. PICK a \in DOMAIN objects : \E payload \in DevicePayloads(objects[a].dpt) :
                \E apci \in {GroupValueResponse, GroupValueWrite} : \E u \in SetPayload(DataTpdu(apci), payload) :
                    p = Packet(Own + 1, a, GetRaw(u), Device)
        BY <1>3, <2>2, <3>2 DEF Devices, DeviceSends
      <4>2. PICK payload \in DevicePayloads(objects[a].dpt) :
                \E apci \in {GroupValueResponse, GroupValueWrite} : \E u \in SetPayload(DataTpdu(apci), payload) :
                    p = Packet(Own + 1, a, GetRaw(u), Device)
        BY <4>1
      <4>a. PICK apci \in {GroupValueResponse, GroupValueWrite} : \E u \in SetPayload(DataTpdu(apci), payload) :
                p = Packet(Own + 1, a, GetRaw(u), Device)
        BY <4>2
      <4>3. PICK u \in SetPayload(DataTpdu(apci), payload) : p = Packet(Own + 1, a, GetRaw(u), Device)
        BY <4>a
      <4>4. payload \in Seq(Octets)
        BY <1>2, DevicePayloadsAssumption
      <4>5. apci \in 0 .. 15
        BY DEF GroupValueResponse, GroupValueWrite
      <4>6. GetRaw(u) \in OctetStrings
        BY <4>4, <4>5, WriteMade
      <4>7. p.dst = a /\ p.octets = GetRaw(u) /\ p.origin.by = "device"
        BY <4>3 DEF Packet, Device
      <4> QED
        BY <1>2, <4>6, <4>7 DEF Addressed, SentTo
    <3> QED
      BY <3>1, <3>2
  <2>3. CASE \E m \in Messages : SendMessage(m)
    <3>1. p.origin.by = "message"
      BY <1>3, <2>3 DEF SendMessage, Packet, Message
    <3> QED
      BY <2>1, <3>1
  <2>4. CASE \E connected \in BOOLEAN : NotifyEvent(connected)
    <3>1. p \in ReadRequests
      BY <1>3, <2>4 DEF NotifyEvent
    <3>2. PICK a \in DOMAIN objects : p \in Transaction(a, GroupValueRead, <<0>>, Request)
      BY <3>1 DEF ReadRequests
    <3> DEFINE none == <<0>>
    <3>3. GroupValueRead \in 0 .. 15 /\ none \in Seq(Octets)
      BY DEF GroupValueRead, Octets
    <3>a. a \in EibAddresses
      BY <1>2
    <3>b. p \in Transaction(a, GroupValueRead, none, Request)
      BY <3>2
    <3> HIDE DEF none
    <3>4. Addressed(p) /\ p.origin = Request
      BY <3>3, <3>a, <3>b, TransactionOk
    <3> QED
      BY <3>4 DEF Request, SentTo
  <2> QED
    BY <2>2, <2>3, <2>4
<1>4. heard' # Nothing => config'.legacy /\ published' # <<>>
  <2>1. CASE UNCHANGED <<heard, published>>
    BY <1>1, <2>1 DEF Traffic
  <2>2. CASE ~ UNCHANGED <<heard, published>>
    <3>1. Publish(Event, DefaultTelegram)
      BY <2>2 DEF Devices, DeviceSends, SendMessage, NotifyEvent
    <3>2. config.legacy /\ published' = KnxTelegramToMqtt(DefaultTelegram)
      BY <2>2, <3>1 DEF Publish
    <3> QED
      BY <1>1, <3>2, SomethingShown
  <2> QED
    BY <2>1, <2>2
<1> QED
  BY <1>1, <1>3, <1>4, PacketsKept DEF Traffic

LEMMA TrafficNext == Installed /\ Installed' /\ HeardInv /\ HeardInv' /\ Traffic /\ [Next]_vars => Traffic'
<1> SUFFICES ASSUME Installed, Installed', HeardInv, HeardInv', Traffic, [Next]_vars PROVE Traffic'
  OBVIOUS
<1>3. ObjectsFound'
  <2>1. Installed' => ObjectsFound'
    BY InstalledFound, PTL
  <2> QED
    BY <2>1
<1>1. CASE phase = "run"
  <2>1. CASE \E a \in DOMAIN objects : \E v \in UserValues(objects[a].dpt), i \in Controls(objects[a].dpt) :
                 SetControl(a, i - 1, v)
    BY <1>1, <2>1, SetControlTraffic
  <2>2. CASE \E p \in bus : Receive(p)
    BY <1>1, <2>2, ReceiveTraffic
  <2>3. CASE Devices \/ (\E m \in Messages : SendMessage(m)) \/ \E connected \in BOOLEAN : NotifyEvent(connected)
    BY <1>1, <2>3, SentTraffic
  <2>4. CASE \E p \in bus : Lose(p)
    <3>1. UNCHANGED <<phase, config, objects, published, heard>> /\ bus' \subseteq bus
      BY <2>4 DEF Lose
    <3> QED
      BY <3>1 DEF Traffic
  <2>5. ~ Import /\ ~ Configure /\ ~ Noise
    BY <1>1 DEF Import, Configure, Noise
  <2>6. CASE UNCHANGED vars
    BY <2>6 DEF vars, Traffic
  <2> QED
    BY <2>1, <2>2, <2>3, <2>4, <2>5, <2>6 DEF Next, Users
<1>2. CASE phase # "run"
  <2>1. bus = {} /\ heard = Nothing /\ DOMAIN objects = {}
    BY <1>2 DEF Traffic, Installed
  <2>2. CASE Configure
    <3>1. bus' = {} /\ heard' = Nothing
      BY <2>1, <2>2 DEF Configure
    <3>2. CASE objects' = objects
      BY <2>1, <3>1, <3>2 DEF Traffic
    <3>3. CASE objects' # objects
      <4>1. \A a \in DOMAIN objects' : \E d : objects'[a] = NewObject(d)
        BY <2>2, <3>3, ZenonT(30) DEF Configure, ObjectsOf
      <4>2. ASSUME NEW a \in DOMAIN objects' PROVE ObjectTyped(objects'[a])
        <5>1. PICK d : objects'[a] = NewObject(d)
          BY <4>1
        <5>2. objects'[a].dpt \in Dpts \cup JsonDpts
          BY <1>3 DEF ObjectsFound
        <5> DEFINE o == NewObject(d)
        <5>3. o.dpt = d /\ o.cached = InitialCache(d) /\ DOMAIN o.shown = Controls(d) /\ o.last = <<>>
          BY DEF NewObject
        <5>4. CachedTyped(d, InitialCache(d))
          BY <5>1, <5>2, <5>3, CacheInitial
        <5>5. ObjectTyped(o)
          BY <5>3, <5>4 DEF ObjectTyped
        <5> QED
          BY <5>1, <5>5
      <4> QED
        BY <3>1, <4>2 DEF Traffic
    <3> QED
      BY <3>2, <3>3
  <2>3. CASE ~ Configure
    <3>1. UNCHANGED <<bus, objects, heard>>
      <4>1. ~ Users /\ ~ Devices /\ \A c : ~ NotifyEvent(c)
        BY <1>2, <2>1 DEF Users, SetControl, SendMessage, Devices, DeviceSends, NotifyEvent
      <4> QED
        BY <2>1, <2>3, <4>1 DEF Next, Import, Noise, vars
    <3> QED
      BY <2>1, <3>1 DEF Traffic
  <2> QED
    BY <2>2, <2>3
<1> QED
  BY <1>1, <1>2

\* Every variable has its type in every installation: an object caches as many
\* values as its data point has fields, and shows one for each of its controls
\* (mqtt.cpp, dpt*.cpp, dptjson.cpp, knxlegacydevice.cpp).
THEOREM TypeCorrect == Spec => []TypeOK
<1> DEFINE Inv == Installed /\ HeardInv /\ Traffic
<1>1. Init => Inv
  BY InstalledInit, TrafficInit DEF Init, HeardInv, MessagesSent, MessageHeard, Nothing
<1>2. Inv /\ [Next]_vars => Inv'
  BY InstalledNext, HeardNext, TrafficNext
<1>3. Inv => TypeOK
  <2> SUFFICES ASSUME Installed, Traffic PROVE TypeOK
    OBVIOUS
  <2>1. phase \in {"import", "rejected", "configure", "stopped", "run", "line"}
    BY DEF Installed, Origins
  <2>2. ASSUME NEW a \in DOMAIN objects
        PROVE  /\ a \in EibAddresses
               /\ objects[a].dpt.kind \in {"raw", "wb", "json"}
               /\ objects[a].dpt.kind # "raw" => DOMAIN objects[a].cached = DOMAIN objects[a].dpt.fields
               /\ DOMAIN objects[a].shown = Controls(objects[a].dpt)
    <3>1. a \in EibAddresses /\ objects[a].dpt \in Dpts \cup JsonDpts
      BY ObjectsKnown
    <3>2. ObjectTyped(objects[a])
      BY DEF Traffic
    <3> QED
      BY <3>1, <3>2, Kinds DEF ObjectTyped, CachedTyped, WbTyped, JsonTyped
  <2> QED
    BY <2>1, <2>2 DEF Traffic, Addressed, TypeOK
<1> QED
  BY <1>1, <1>2, <1>3, PTL DEF Spec

LEMMA TrafficAlways == Spec => [](Installed /\ Traffic)
<1> DEFINE Inv == Installed /\ HeardInv /\ Traffic
<1>1. Init => Inv
  BY InstalledInit, TrafficInit DEF Init, HeardInv, MessagesSent, MessageHeard, Nothing
<1>2. Inv /\ [Next]_vars => Inv'
  BY InstalledNext, HeardNext, TrafficNext
<1>3. Inv => Installed /\ Traffic
  OBVIOUS
<1> QED
  BY <1>1, <1>2, <1>3, PTL DEF Spec

-----------------------------------------------------------------------------
(* What values say                                                         *)

FieldSaid(d, f) == Known(f) /\ (f.as = "float16" <=> d.main = 9)

LEMMA SaidShown ==
    ASSUME NEW d, d.kind = "wb", NEW f, FieldSaid(d, f), NEW x \in Int, NEW i
    PROVE  Said(d, i, Published(f, x)) = {x}
<1> DEFINE v == Published(f, x)
<1>1. v.type = Types[f.control]
  BY DEF Published
<1>2. CASE f.as = "bit"
  <2>1. f.control = "switch"
    BY <1>2 DEF FieldSaid, Known, FieldKinds
  <2>2. v.type = "bool" /\ v.value[1] = x
    BY <1>1, <1>2, <2>1, TypesDef DEF Published
  <2> HIDE DEF v
  <2> QED
    BY <2>2 DEF Said, v
<1>3. CASE f.as = "char"
  <2>1. f.control = "text"
    BY <1>3 DEF FieldSaid, Known, FieldKinds
  <2>2. v.type = "chars" /\ v.value = IF x = 0 THEN <<>> ELSE <<x>>
    BY <1>1, <1>3, <2>1, TypesDef DEF Published
  <2>3. <<x>> # <<>> /\ <<x>>[1] = x
    OBVIOUS
  <2> HIDE DEF v
  <2>4. (IF v.value = <<>> THEN 0 ELSE v.value[1]) = x
    BY <2>2, <2>3
  <2>5. Said(d, i, v) = {x}
    BY <2>2, <2>4 DEF Said
  <2> QED
    BY <2>5 DEF v
<1>4. CASE f.as \notin {"bit", "char"}
  <2>1. f.control = "value"
    BY <1>4 DEF FieldSaid, Known, FieldKinds
  <2>2. v.type = "number"
    BY <1>1, <2>1, TypesDef
  <2>3. v.value = IF f.as = "float16" THEN <<x \div 100, x % 100>> ELSE <<x, 0>>
    BY <1>4 DEF Published
  <2> HIDE DEF v
  <2>4. Amount(d, v.value) = x
    <3>1. CASE f.as = "float16"
      <4>1. v.value[1] = x \div 100 /\ v.value[2] = x % 100
        BY <2>3, <3>1
      <4>2. (x \div 100) * 100 + (x % 100) = x
        OBVIOUS
      <4>3. d.main = 9
        BY <3>1 DEF FieldSaid
      <4>4. Amount(d, v.value) = v.value[1] * 100 + v.value[2]
        BY <4>3 DEF Amount
      <4> QED
        BY <4>1, <4>2, <4>4
    <3>2. CASE f.as # "float16"
      <4>1. v.value[1] = x /\ v.value[2] = 0
        BY <2>3, <3>2
      <4>2. d.main # 9
        BY <3>2 DEF FieldSaid
      <4> QED
        BY <4>1, <4>2 DEF Amount
    <3> QED
      BY <3>1, <3>2
  <2>5. Said(d, i, v) = {x}
    BY <2>2, <2>4 DEF Said
  <2> QED
    BY <2>5 DEF v
<1> QED
  BY <1>2, <1>3, <1>4

\* What a value of the right type says is what it means for the field.
LEMMA SaidMeans ==
    ASSUME NEW d, d.kind = "wb", NEW f, FieldSaid(d, f), NEW v, v.type = Types[f.control], Input(f, v), NEW i,
           NEW x \in Said(d, i, v)
    PROVE  Means(f, v, x) /\ Said(d, i, v) = {x}
<1>1. CASE f.as = "bit"
  <2>1. f.control = "switch"
    BY <1>1 DEF FieldSaid, Known, FieldKinds
  <2>2. v.type = "bool"
    BY <2>1, TypesDef
  <2>3. Said(d, i, v) = {v.value[1]}
    BY <2>2 DEF Said
  <2> QED
    BY <1>1, <2>3 DEF Means
<1>2. CASE f.as = "char"
  <2>1. f.control = "text"
    BY <1>2 DEF FieldSaid, Known, FieldKinds
  <2>2. v.type = "chars"
    BY <2>1, TypesDef
  <2>3. Said(d, i, v) = {IF v.value = <<>> THEN 0 ELSE v.value[1]}
    BY <2>2 DEF Said
  <2> QED
    BY <1>2, <2>3 DEF Means
<1>3. CASE f.as \notin {"bit", "char"}
  <2>1. f.control = "value" /\ f.as \in {"unsigned", "signed", "float16", "float32"}
    BY <1>3 DEF FieldSaid, Known, FieldKinds
  <2>2. v.type = "number"
    BY <2>1, TypesDef
  <2>3. Said(d, i, v) = {Amount(d, v.value)}
    BY <2>2 DEF Said
  <2>4. /\ v.value[1] \in Int /\ v.value[2] \in 0 .. 99
        /\ f.as = "float32" => v.value[2] = 0
    BY <2>2 DEF Input
  <2>5. CASE f.as = "float16"
    <3>1. d.main = 9
      BY <2>5 DEF FieldSaid
    <3> QED
      BY <2>3, <2>5, <3>1 DEF Amount, Means
  <2>6. CASE f.as # "float16"
    <3>1. d.main # 9
      BY <2>6 DEF FieldSaid
    <3>2. Amount(d, v.value) = Truncate(v.value)
      BY <2>4, <3>1 DEF Amount, Truncate
    <3>3. f.as = "float32" => Truncate(v.value) = v.value[1]
      BY <2>4 DEF Truncate
    <3> QED
      BY <1>3, <2>3, <2>6, <3>2, <3>3 DEF Means
  <2> QED
    BY <2>5, <2>6
<1> QED
  BY <1>1, <1>2, <1>3

LEMMA SameOctets == Octets = ByteSet
  BY DEF Octets, ByteSet

\* A control of a class.
LEMMA ClassControl ==
    ASSUME NEW d \in WbClasses, NEW i \in Controls(d)
    PROVE  /\ i \in DOMAIN d.fields /\ i \in Nat /\ i - 1 + 1 = i /\ FieldsOf(d, i - 1) = {i} /\ d.kind = "wb"
           /\ FieldSaid(d, d.fields[i]) /\ Types[d.fields[i].control] = ControlType(d.main, i)
           /\ \A x \in AllowedMqtt(d.main, i) : InField(d.fields[i], x)
<1>1. ClassMade(d) /\ AsDocumented(d)
  BY ClassesMade, ClassesDocumented
<1>2. d.kind = "wb" /\ d.fields \in Seq({d.fields[j] : j \in DOMAIN d.fields})
  BY <1>1 DEF ClassMade
<1>3. i \in DOMAIN d.fields
  BY <1>2 DEF Controls
<1>4. i \in Nat /\ i - 1 + 1 = i
  <2>1. DOMAIN d.fields \subseteq Nat
    BY <1>2
  <2>2. i \in Nat
    BY <1>3, <2>1
  <2> QED
    BY <2>2
<1>5. FieldsOf(d, i - 1) = {i}
  BY <1>2, <1>4 DEF FieldsOf
<1>6. Known(d.fields[i])
  BY <1>1, <1>3 DEF ClassMade
<1> QED
  BY <1>1, <1>2, <1>3, <1>4, <1>5, <1>6 DEF AsDocumented, FieldSaid

\* What the classes' objects show after a telegram.
LEMMA ClassShows ==
    ASSUME NEW o, o.dpt \in WbClasses, FromBus(o)
    PROVE  ShowsLast(o)
<1> DEFINE d == o.dpt
           c == o.cached
           p == o.last
<1>1. ClassMade(d) /\ d.kind = "wb"
  BY ClassesMade DEF ClassMade
<1>2. p \in Seq(ByteSet)
  BY SameOctets DEF FromBus, Payloads
<1>3. c \in FromKnx(d, p) /\ o.shown = ToMqtt(d, c)
  BY <1>1 DEF FromBus, DptFromKnx, DptToMqtt
<1>4. /\ WbTyped(d, c) /\ Len(p) = LengthOfMqtt(d.main)
      /\ \A i \in DOMAIN d.fields : c[i] = MeaningOfMqtt(d.main, p)[i]
  BY <1>1, <1>2, <1>3, FromKnxTyped
<1>5. DOMAIN o.shown = DOMAIN d.fields
  BY <1>3, <1>4 DEF ToMqtt, WbTyped
<1>6. ASSUME NEW i \in DOMAIN d.fields PROVE Said(d, i, o.shown[i]) = {Meaning(d, p)[i]}
  <2>1. i \in Controls(d)
    BY <1>1 DEF Controls
  <2>2. FieldSaid(d, d.fields[i])
    BY <2>1, ClassControl
  <2>3. o.shown[i] = Published(d.fields[i], c[i]) /\ c[i] \in Int
    BY <1>3, <1>4, <1>5 DEF ToMqtt, WbTyped
  <2>4. Said(d, i, Published(d.fields[i], c[i])) = {c[i]}
    <3> DEFINE f == d.fields[i]
               x == c[i]
    <3> HIDE DEF f, x, d
    <3>1. Said(d, i, Published(f, x)) = {x}
      BY <1>1, <2>2, <2>3, SaidShown DEF f, x
    <3> QED
      BY <3>1 DEF f, x
  <2>5. Meaning(d, p) = MeaningOfMqtt(d.main, p)
    BY <1>1 DEF Meaning
  <2> QED
    BY <1>4, <2>3, <2>4, <2>5
<1> QED
  BY <1>1, <1>4, <1>5, <1>6 DEF ShowsLast

\* The octets that are shown of raw data can be read again.
LEMMA RawShows ==
    ASSUME NEW o, o.dpt = Raw, FromBus(o)
    PROVE  /\ o.cached = o.last /\ o.last \in Seq(ByteSet) /\ Len(o.last) \in 1 .. 15 /\ o.last[1] < 64
           /\ o.shown = <<[type |-> "words", value |-> [k \in DOMAIN o.last |-> {o.last[k]}]]>>
<1>0. o.dpt.kind = "raw"
  BY DEF Raw
<1>1. o.last \in Payloads /\ o.cached \in RawFromKnx(o.last) /\ o.shown = <<RawToMqtt(o.cached)>>
  BY <1>0 DEF FromBus, DptFromKnx, DptToMqtt
<1>2. o.last \in Seq(ByteSet) /\ Len(o.last) \in 1 .. 15 /\ o.last[1] < 64
  BY <1>1, SameOctets DEF Payloads, MaxPayloadSize
<1>3. o.cached = o.last
  BY <1>1 DEF RawFromKnx
<1> QED
  BY <1>1, <1>2, <1>3 DEF RawToMqtt

\* What a text of octets says.
LEMMA OctetsSaid ==
    ASSUME NEW d, d.kind = "raw", NEW p \in Seq(ByteSet), NEW i, NEW v, v.type = "words",
           v.value = [k \in DOMAIN p |-> {p[k]}]
    PROVE  Said(d, i, v) = {p}
<1>1. DOMAIN v.value = DOMAIN p /\ \A k \in DOMAIN p : v.value[k] = {p[k]}
  OBVIOUS
<1>2. \A k \in DOMAIN v.value : v.value[k] \in {{n} : n \in Octets}
  <2>1. \A k \in DOMAIN p : p[k] \in Octets
    BY SameOctets
  <2> QED
    BY <1>1, <2>1
<1>3. [k \in DOMAIN v.value |-> Only(v.value[k])] = p
  <2>1. \A k \in DOMAIN p : Only(v.value[k]) = p[k]
    BY <1>1, OnlyOne
  <2>2. p = [k \in DOMAIN p |-> p[k]]
    OBVIOUS
  <2> QED
    BY <1>1, <2>1, <2>2
<1> QED
  BY <1>2, <1>3 DEF Said

LEMMA RawShowsLast == ASSUME NEW o, o.dpt = Raw, FromBus(o) PROVE ShowsLast(o)
<1> DEFINE p == o.last
           d == o.dpt
           v == [type |-> "words", value |-> [k \in DOMAIN p |-> {p[k]}]]
<1>1. d.kind = "raw"
  BY DEF Raw
<1>2. p \in Seq(ByteSet) /\ o.shown = <<v>>
  BY RawShows
<1>3. v.type = "words" /\ v.value = [k \in DOMAIN p |-> {p[k]}]
  OBVIOUS
<1> HIDE DEF v, d
<1>4. Said(d, 1, v) = {p}
  BY <1>1, <1>2, <1>3, OctetsSaid
<1>5. DOMAIN o.shown = {1} /\ o.shown[1] = v
  BY <1>2
<1>6. Meaning(d, p)[1] = p
  <2>1. Meaning(d, p) = <<p>>
    BY <1>1 DEF Meaning
  <2> QED
    BY <2>1
<1> QED
  BY <1>1, <1>4, <1>5, <1>6 DEF ShowsLast, d

LEMMA MeaningNumber ==
    ASSUME NEW d \in WbClasses, NEW i \in DOMAIN d.fields, NEW p \in Seq(ByteSet), Len(p) = d.size
    PROVE  MeaningOfMqtt(d.main, p)[i] \in Int
<1>1. ClassMade(d)
  BY ClassesMade
<1>2. PICK c : c \in FromKnx(d, p)
  BY DEF FromKnx
<1>3. WbTyped(d, c) /\ c[i] = MeaningOfMqtt(d.main, p)[i]
  BY <1>1, <1>2, FromKnxTyped
<1> QED
  BY <1>3 DEF WbTyped

LEMMA ConveyedAgrees ==
    ASSUME NEW d \in WbClasses, NEW i \in Controls(d), NEW p \in Seq(ByteSet), Len(p) = d.size, NEW x \in Int,
           Conveys(d, x, p, i),
           NEW q, MeaningOfMqtt(d.main, q) = MeaningOfMqtt(d.main, p), d.main = 9 => q[2] = p[2]
    PROVE  Agrees(d, i, q, x)
<1>1. d.kind = "wb" /\ i \in DOMAIN d.fields
  BY ClassControl
<1>2. Meaning(d, q) = MeaningOfMqtt(d.main, p)
  BY <1>1 DEF Meaning
<1>3. CASE d.main = 9
  <2> DEFINE m == MeaningOfMqtt(9, p)[1]
  <2>1. PICK e \in 0 .. 15 : Exponent(p[2]) = e /\ x - m \in 0 .. 2 ^ e - 1
    BY <1>3 DEF Conveys
  <2>2. m \in Int
    <3>1. 1 \in DOMAIN d.fields
      BY ClassesMade DEF ClassMade
    <3> QED
      BY <1>3, <3>1, MeaningNumber
  <2>3. Meaning(d, q)[1] = m /\ Exponent(q[2]) = e
    BY <1>2, <1>3, <2>1
  <2> HIDE DEF m
  <2> DEFINE power == 2 ^ e
  <2>4. power \in Int
    <3>1. power \in Powers16
      BY PowerOf, Zenon
    <3> QED
      BY <3>1 DEF Powers16
  <2>5. x - m \in 0 .. power - 1
    BY <2>1
  <2>6. 2 ^ Exponent(q[2]) = power
    BY <2>3
  <2> HIDE DEF power
  <2>7. m - x <= power /\ 0 - (m - x) <= power
    BY <2>2, <2>4, <2>5
  <2>8. power + Slack(d) = power
    BY <1>1, <2>4 DEF Slack
  <2> QED
    BY <1>1, <1>3, <2>3, <2>6, <2>7, <2>8 DEF Agrees
<1>4. CASE d.main # 9
  BY <1>1, <1>2, <1>4 DEF Agrees, Conveys
<1> QED
  BY <1>3, <1>4

\* The field of control i takes the text v for x.
Takes(d, i, v, x) == Received(d.fields[i], v) = {x} /\ InField(d.fields[i], x)

\* Setting a control of a class to what its field holds.
LEMMA ClassSet ==
    ASSUME NEW d \in WbClasses, NEW c, WbTyped(d, c), NEW i \in Controls(d), NEW v, NEW x,
           Takes(d, i, v, x),
           NEW k, k = i - 1, NEW r, r \in DptFromMqtt(d, c, k, v)
    PROVE  ~ r.throws /\ WbTyped(d, r.cached) /\ r.cached[i] = x
<1>1. d.kind = "wb" /\ i \in DOMAIN d.fields /\ k + 1 = i
  BY ClassControl
<1> DEFINE y == [c EXCEPT ![i] = x]
<1>2. FromMqtt(d, c, k, v) = {y}
  BY <1>1 DEF FromMqtt, Takes
<1> HIDE DEF y
<1>3. r = Kept(y, FALSE)
  <2> QED
    BY <1>1, <1>2 DEF DptFromMqtt
<1>4. r.cached = y /\ ~ r.throws
  BY <1>3 DEF Kept
<1>5. c \in [DOMAIN d.fields -> Int] /\ \A j \in DOMAIN d.fields : FieldTyped(d.fields[j], c[j])
  BY DEF WbTyped
<1>6. x \in Int /\ FieldTyped(d.fields[i], x)
  BY InFieldTyped DEF InField, Takes
<1>7. y \in [DOMAIN d.fields -> Int] /\ y[i] = x /\ \A j \in DOMAIN d.fields : FieldTyped(d.fields[j], y[j])
  BY <1>1, <1>5, <1>6 DEF y
<1> QED
  BY <1>4, <1>7 DEF WbTyped, y

\* What is sent for it.
LEMMA ClassWritten ==
    ASSUME NEW d \in WbClasses, NEW c, WbTyped(d, c), NEW i \in Controls(d), InField(d.fields[i], c[i])
    PROVE  /\ DptToKnx(d, c) = {ToKnx(d, c)} /\ ToKnx(d, c) \in Seq(ByteSet)
           /\ Len(ToKnx(d, c)) = d.size /\ d.size \in 1 .. 15
           /\ Conveys(d, c[i], ToKnx(d, c), i)
<1>1. ClassMade(d) /\ i \in DOMAIN d.fields /\ d.kind = "wb"
  BY ClassesMade, ClassControl
<1>2. Conveys(d, c[i], ToKnx(d, c), i)
  BY <1>1, WrittenMeans
<1>3. ToKnx(d, c) \in Seq(ByteSet) /\ Len(ToKnx(d, c)) = d.size
  BY <1>1, ToKnxTyped
<1> QED
  BY <1>1, <1>2, <1>3 DEF DptToKnx, ClassMade

LEMMA ClassAgain ==
    ASSUME NEW o, o.dpt \in WbClasses, FromBus(o), NEW i \in Controls(o.dpt)
    PROVE  SetAgain(o, i)
<1> DEFINE d == o.dpt
           c == o.cached
           p == o.last
           f == d.fields[i]
<1>1. ClassMade(d) /\ d.kind = "wb" /\ i \in DOMAIN d.fields /\ FieldsOf(d, i - 1) = {i}
  BY ClassesMade, ClassControl
<1>2. p \in Seq(ByteSet)
  BY SameOctets DEF FromBus, Payloads
<1>3. c \in FromKnx(d, p) /\ o.shown = ToMqtt(d, c)
  BY <1>1 DEF FromBus, DptFromKnx, DptToMqtt
<1>4. WbTyped(d, c) /\ c[i] = MeaningOfMqtt(d.main, p)[i]
  BY <1>1, <1>2, <1>3, FromKnxTyped
<1>5. InField(f, c[i]) /\ Known(f) /\ c[i] \in Int
  <2>1. InField(f, c[i])
    BY <1>1, <1>2, <1>3, ReadInField
  <2>2. Known(f)
    BY <1>1 DEF ClassMade
  <2>3. c[i] \in Int
    BY <2>1 DEF InField
  <2> QED
    BY <2>1, <2>2, <2>3
<1>6. o.shown[i] = Published(f, c[i])
  BY <1>1, <1>3, <1>4 DEF ToMqtt, WbTyped
<1> DEFINE x == c[i]
           v == o.shown[i]
<1>7. Received(f, v) = {x}
  <2> HIDE DEF f, x
  <2>1. Received(f, Published(f, x)) = {x}
    BY <1>5, ShownReceived DEF x
  <2> QED
    BY <1>6, <2>1 DEF x
<1>8. Meaning(d, p)[i] = x
  BY <1>1, <1>4 DEF Meaning
<1>9. ASSUME NEW r \in DptFromMqtt(d, c, i - 1, v)
      PROVE  /\ ~ r.throws /\ DptToKnx(d, r.cached) # {}
             /\ \A data \in DptToKnx(d, r.cached) : Agrees(d, i, data, x)
  <2> HIDE DEF d, c, f, x, v
  <2>0. d \in WbClasses /\ i \in Controls(d) /\ f = d.fields[i]
    BY DEF d, f
  <2>1. ~ r.throws /\ WbTyped(d, r.cached) /\ r.cached[i] = x
    <3>1. WbTyped(d, c) /\ Takes(d, i, v, x)
      BY <1>4, <1>5, <1>7, <2>0 DEF x, Takes
    <3> DEFINE k == i - 1
    <3>2. k = i - 1 /\ r \in DptFromMqtt(d, c, k, v)
      BY <1>9
    <3> HIDE DEF k
    <3> QED
      BY <2>0, <3>1, <3>2, ClassSet
  <2>2. InField(d.fields[i], r.cached[i])
    BY <1>5, <2>0, <2>1 DEF x
  <2> DEFINE e == r.cached
             data == ToKnx(d, e)
  <2> HIDE DEF e
  <2>3. /\ DptToKnx(d, e) = {data} /\ data \in Seq(ByteSet)
        /\ Len(data) = d.size /\ Conveys(d, e[i], data, i)
    BY <2>0, <2>1, <2>2, ClassWritten DEF e
  <2> HIDE DEF data
  <2>4. Conveys(d, x, data, i) /\ x \in Int
    BY <1>5, <2>1, <2>3 DEF e, x
  <2>5. Agrees(d, i, data, x)
    BY <2>0, <2>3, <2>4, ConveyedAgrees
  <2> QED
    BY <2>1, <2>3, <2>5 DEF e
<1> HIDE DEF x
<1> QED
  BY <1>1, <1>8, <1>9 DEF SetAgain

\* A value the documents allow is received as what it says.
LEMMA AllowedReceived ==
    ASSUME NEW d \in WbClasses, NEW i \in Controls(d), NEW v, \A j \in DOMAIN d.fields : Input(d.fields[j], v),
           Allows(d, i - 1, v)
    PROVE  \E x : Said(d, i, v) = {x} /\ Received(d.fields[i], v) = {x} /\ InField(d.fields[i], x)
<1> DEFINE f == d.fields[i]
           k == i - 1
<1>1. /\ i \in DOMAIN d.fields /\ k + 1 = i /\ FieldsOf(d, k) = {i} /\ d.kind = "wb"
      /\ FieldSaid(d, f) /\ Types[f.control] = ControlType(d.main, i)
      /\ \A x \in AllowedMqtt(d.main, i) : InField(f, x)
  BY ClassControl
<1>2. Input(f, v)
  BY <1>1
<1> HIDE DEF f, k
<1>3. Allows(d, k, v)
  BY DEF k
<1>4. v.type = Types[f.control]
  BY <1>1, <1>3 DEF Allows, Typical
<1>5. PICK x \in Said(d, i, v) : Possible(d, i, x)
  BY <1>1, <1>3 DEF Allows
<1>6. Means(f, v, x) /\ Said(d, i, v) = {x}
  BY <1>1, <1>2, <1>4, SaidMeans
<1>7. InField(f, x)
  BY <1>1, <1>5 DEF Possible
<1>8. Received(f, v) = {x}
  BY <1>1, <1>6, <1>7, MeantReceived DEF FieldSaid
<1> QED
  BY <1>6, <1>7, <1>8 DEF f

LEMMA ClassAccepts ==
    ASSUME NEW d \in WbClasses, NEW c, WbTyped(d, c), NEW i \in Controls(d),
           NEW v, \A j \in DOMAIN d.fields : Input(d.fields[j], v), Allows(d, i - 1, v)
    PROVE  Accepted(d, c, i - 1, v)
<1>1. PICK x : Received(d.fields[i], v) = {x} /\ InField(d.fields[i], x)
  BY AllowedReceived
<1>2. ASSUME NEW r \in DptFromMqtt(d, c, i - 1, v)
      PROVE  ~ r.throws /\ \E data \in DptToKnx(d, r.cached) : SetPayload(DefaultTpdu, data) # {}
  <2>1. ~ r.throws /\ WbTyped(d, r.cached) /\ r.cached[i] = x
    <3> DEFINE k == i - 1
    <3>1. k = i - 1 /\ r \in DptFromMqtt(d, c, k, v)
      BY <1>2
    <3>2. Takes(d, i, v, x)
      BY <1>1 DEF Takes
    <3> HIDE DEF k
    <3> QED
      BY <3>1, <3>2, ClassSet
  <2> DEFINE e == r.cached
             data == ToKnx(d, e)
  <2>2. WbTyped(d, e) /\ InField(d.fields[i], e[i])
    BY <1>1, <2>1
  <2> HIDE DEF e
  <2>3. DptToKnx(d, e) = {data} /\ Len(data) = d.size /\ d.size \in 1 .. 15
    BY <2>2, ClassWritten
  <2> HIDE DEF data
  <2>4. SetPayload(DefaultTpdu, data) # {}
    BY <2>3 DEF SetPayload, MaxPayloadSize
  <2> QED
    BY <2>1, <2>3, <2>4 DEF e
<1> QED
  BY <1>2 DEF Accepted

\* A list with one element put before it.
LEMMA Prefixed ==
    ASSUME NEW S, NEW a \in Seq(S), Len(a) = 1, NEW b \in Seq(S), NEW w \in Nat, Len(b) = w
    PROVE  /\ a \o b \in Seq(S) /\ Len(a \o b) = 1 + w /\ (a \o b)[1] = a[1]
           /\ \A k \in 2 .. 1 + w : (a \o b)[k] = b[k - 1]
<1> DEFINE c == a \o b
<1>1. /\ c \in Seq(S) /\ Len(c) = 1 + w
      /\ \A k \in 1 .. 1 : c[k] = a[k]
      /\ \A k \in 1 .. w : c[1 + k] = b[k]
  <2>1. Joined(a, b, S)
    BY Concatenated
  <2>2. /\ c \in Seq(S) /\ Len(c) = Len(a) + Len(b)
        /\ \A k \in 1 .. Len(a) : c[k] = a[k]
        /\ \A k \in 1 .. Len(b) : c[Len(a) + k] = b[k]
    BY <2>1 DEF Joined
  <2> HIDE DEF c
  <2> QED
    BY <2>2
<1> HIDE DEF c
<1>2. \A k \in 2 .. 1 + w : k - 1 \in 1 .. w /\ 1 + (k - 1) = k
  OBVIOUS
<1> QED
  BY <1>1, <1>2 DEF c

\* What the devices read of a packet is the payload the program had set.
LEMMA PayloadSent ==
    ASSUME NEW data \in Seq(ByteSet), NEW u \in SetPayload(DataTpdu(GroupValueWrite), data),
           NEW p, p.octets = GetRaw(u)
    PROVE  PayloadOn(p) = SixBits(data)
<1> DEFINE o == p.octets
           n == Len(o)
<1>1. data \in Seq(Octets) /\ GroupValueWrite \in 0 .. 15
  BY SameOctets DEF GroupValueWrite
<1>2. u \in Tpdus /\ IsData(u) /\ u.payload = SixBits(data) /\ u.payload \in Payloads
  BY <1>1, WriteMade
<1>3. SixBits(Tail(o)) = SixBits(data) /\ Len(o) = Len(u.payload) + 1
  BY <1>2, TpduRest
<1>4. o \in Seq(Octets)
  BY <1>2, RawType
<1>5. n \in Nat /\ n >= 2
  BY <1>2, <1>3 DEF Payloads
<1> HIDE DEF o
<1>6. PayloadOn(p) = <<o[2] % 64>> \o SubSeq(o, 3, n)
  BY DEF PayloadOn, o
<1> DEFINE rest == SubSeq(o, 3, n)
           all == <<o[2] % 64>> \o rest
           tail == Tail(o)
<1>7. rest \in Seq(Octets) /\ Len(rest) = n - 2 /\ \A k \in 1 .. n - 2 : rest[k] = o[k + 2]
  <2> DEFINE w == n - 2
  <2>1. w \in Nat /\ 2 + w = n /\ 2 + w <= Len(o) /\ 2 + 1 = 3 /\ 2 \in Nat
    BY <1>5
  <2> HIDE DEF w, n
  <2>2. /\ SubSeq(o, 2 + 1, 2 + w) \in Seq(Octets) /\ Len(SubSeq(o, 2 + 1, 2 + w)) = w
        /\ \A k \in 1 .. w : SubSeq(o, 2 + 1, 2 + w)[k] = o[2 + k]
    BY <1>4, <2>1, Part
  <2>3. SubSeq(o, 2 + 1, 2 + w) = rest
    BY <2>1
  <2>4. \A k \in 1 .. w : 2 + k = k + 2
    BY <2>1
  <2> HIDE DEF rest
  <2> QED
    BY <2>2, <2>3, <2>4 DEF w
<1>8. tail \in Seq(Octets) /\ Len(tail) = n - 1 /\ \A k \in 1 .. n - 1 : tail[k] = o[k + 1]
  BY <1>4, <1>5
<1>9. o[2] \in Octets
  BY <1>4, <1>5
<1>10. <<o[2] % 64>> \in Seq(Octets) /\ Len(<<o[2] % 64>>) = 1 /\ <<o[2] % 64>>[1] = o[2] % 64
  <2>1. o[2] % 64 \in Octets
    BY <1>9, OctetBounds
  <2> QED
    BY <2>1
<1> DEFINE first == <<o[2] % 64>>
<1> HIDE DEF rest, tail, n, first
<1>11. all \in Seq(Octets) /\ Len(all) = n - 1 /\ all[1] = o[2] % 64 /\ \A k \in 2 .. n - 1 : all[k] = rest[k - 1]
  <2>1. all = first \o rest
    BY DEF first
  <2>2. first \in Seq(Octets) /\ Len(first) = 1 /\ first[1] = o[2] % 64
    BY <1>10 DEF first
  <2>3. rest \in Seq(Octets) /\ Len(rest) = n - 2
    BY <1>7
  <2> HIDE DEF all
  <2> DEFINE w == n - 2
  <2>4. w \in Nat /\ 1 + w = n - 1
    BY <1>5
  <2> HIDE DEF w
  <2>5. all \in Seq(Octets) /\ Len(all) = 1 + w /\ all[1] = first[1] /\ \A k \in 2 .. 1 + w : all[k] = rest[k - 1]
    BY <2>1, <2>2, <2>3, <2>4, Prefixed DEF w
  <2> QED
    BY <2>2, <2>4, <2>5
<1> HIDE DEF all
<1>12. DOMAIN all = 1 .. n - 1 /\ DOMAIN tail = 1 .. n - 1
  BY <1>5, <1>8, <1>11
<1>13. \A k \in 1 .. n - 1 : all[k] = IF k = 1 THEN tail[k] % 64 ELSE tail[k]
  <2> TAKE k \in 1 .. n - 1
  <2>1. CASE k = 1
    BY <1>5, <1>8, <1>11, <2>1
  <2>2. CASE k # 1
    <3>1. k \in 2 .. n - 1 /\ k - 1 \in 1 .. n - 2 /\ k - 1 + 2 = k + 1
      BY <1>5, <2>2
    <3> QED
      BY <1>7, <1>8, <1>11, <2>2, <3>1
  <2> QED
    BY <2>1, <2>2
<1>14. all = SixBits(tail)
  <2>1. all = [k \in 1 .. n - 1 |-> all[k]]
    BY <1>11, <1>12
  <2> QED
    BY <1>12, <1>13, <2>1 DEF SixBits
<1> QED
  BY <1>3, <1>6, <1>14 DEF all, rest, tail, n

\* A control's value as it was sent, for an object of a class.
LEMMA ClassBrings ==
    ASSUME NEW d \in WbClasses, NEW p, SentBy(d, p)
    PROVE  Brings(d, p.origin.index, p.origin.value, PayloadOn(p))
<1> DEFINE k == p.origin.index
           v == p.origin.value
           i == k + 1
           q == PayloadOn(p)
<1>1. v \in UserValues(d) /\ k \in Int /\ i \in Controls(d)
  BY DEF SentBy
<1>2. PICK c : CachedTyped(d, c) /\ \E r \in DptFromMqtt(d, c, k, v) :
          /\ ~ r.throws
          /\ \E data \in DptToKnx(d, r.cached) : \E u \in SetPayload(DataTpdu(GroupValueWrite), data) : p.octets = GetRaw(u)
  BY DEF SentBy
<1>3. PICK r \in DptFromMqtt(d, c, k, v) :
          \E data \in DptToKnx(d, r.cached) : \E u \in SetPayload(DataTpdu(GroupValueWrite), data) : p.octets = GetRaw(u)
  BY <1>2
<1>4. PICK data \in DptToKnx(d, r.cached) : \E u \in SetPayload(DataTpdu(GroupValueWrite), data) : p.octets = GetRaw(u)
  BY <1>3
<1>5. PICK u \in SetPayload(DataTpdu(GroupValueWrite), data) : p.octets = GetRaw(u)
  BY <1>4
<1>6. k = i - 1
  BY <1>1
<1>7. d.kind = "wb" /\ FieldsOf(d, i - 1) = {i}
  BY <1>1, ClassControl
<1>8. WbTyped(d, c)
  BY <1>2, <1>7 DEF CachedTyped
<1>9. d \in Dpts \ {Raw}
  BY <1>7 DEF Dpts, WbClasses, Raw
<1>10. \A j \in DOMAIN d.fields : Input(d.fields[j], v)
  BY <1>1, <1>9, UserValuesAssumption
<1> HIDE DEF i, k, v
<1> SUFFICES ASSUME Allows(d, i - 1, v)
             PROVE  \A j \in FieldsOf(d, i - 1) : \A x \in Said(d, j, v) : Agrees(d, j, q, x)
  BY <1>6 DEF Brings, k, v
<1>11. PICK x : Said(d, i, v) = {x} /\ Received(d.fields[i], v) = {x} /\ InField(d.fields[i], x)
  BY <1>1, <1>10, AllowedReceived
<1>12. WbTyped(d, r.cached) /\ r.cached[i] = x
  <2>1. k = i - 1 /\ r \in DptFromMqtt(d, c, k, v)
    BY <1>3, <1>6 DEF k, v
  <2>2. Takes(d, i, v, x)
    BY <1>11 DEF Takes
  <2> QED
    BY <1>1, <1>8, <2>1, <2>2, ClassSet
<1>13. /\ data = ToKnx(d, r.cached) /\ data \in Seq(ByteSet) /\ Len(data) = d.size
       /\ Conveys(d, x, data, i)
  <2> DEFINE e == r.cached
  <2>1. WbTyped(d, e) /\ InField(d.fields[i], e[i])
    BY <1>11, <1>12
  <2>2. data \in DptToKnx(d, e) /\ e[i] = x
    BY <1>12
  <2> HIDE DEF e
  <2>3. /\ DptToKnx(d, e) = {ToKnx(d, e)} /\ ToKnx(d, e) \in Seq(ByteSet)
        /\ Len(ToKnx(d, e)) = d.size /\ Conveys(d, e[i], ToKnx(d, e), i)
    BY <1>1, <2>1, ClassWritten
  <2>4. data = ToKnx(d, e)
    BY <2>2, <2>3
  <2> QED
    BY <2>2, <2>3, <2>4 DEF e
<1>14. q = SixBits(data)
  BY <1>5, <1>13, PayloadSent
<1>15. MeaningOfMqtt(d.main, q) = MeaningOfMqtt(d.main, data) /\ (d.main = 9 => q[2] = data[2])
  <2>1. q = [j \in DOMAIN data |-> IF j = 1 THEN data[j] % 64 ELSE data[j]]
    BY <1>14 DEF SixBits
  <2> QED
    BY <1>13, <2>1, SixBitsMean
<1>16. x \in Int
  BY <1>11 DEF InField
<1> HIDE DEF q
<1>17. Agrees(d, i, q, x)
  BY <1>1, <1>13, <1>15, <1>16, ConveyedAgrees
<1> QED
  BY <1>7, <1>11, <1>17

-----------------------------------------------------------------------------
(* Raw octets                                                              *)

\* A text the documents allow is one of octets.
LEMMA RawAllowed ==
    ASSUME NEW v \in UserValues(Raw), Allows(Raw, 0, v)
    PROVE  \E x \in Seq(ByteSet) :
               /\ Len(x) \in 1 .. 15 /\ Said(Raw, 1, v) = {x} /\ v.type = "words"
               /\ \A c : DptFromMqtt(Raw, c, 0, v) = {RawFromMqtt(v.value)}
               /\ RawFromMqtt(v.value).cached = x /\ ~ RawFromMqtt(v.value).throws
<1> DEFINE w == v.value
           x == [k \in DOMAIN w |-> Only(w[k])]
<1>1. Raw.kind = "raw"
  BY DEF Raw
<1>2. v.type = "words"
  BY <1>1 DEF Allows, Typical
<1>3. FieldsOf(Raw, 0) = {1}
  BY <1>1 DEF FieldsOf
<1>4. Said(Raw, 1, v) # {} /\ \A y \in Said(Raw, 1, v) : Possible(Raw, 1, y)
  BY <1>3 DEF Allows
<1>5. w \in Seq(SUBSET Int)
  <2>1. w \in Seq(WordValues) /\ WordValues \subseteq SUBSET Int
    BY <1>2, UserValuesAssumption DEF WordValues
  <2> QED
    BY <2>1, SeqWiden
<1> HIDE DEF w
<1>6. (\A k \in DOMAIN w : w[k] \in {{n} : n \in Octets}) /\ Said(Raw, 1, v) = {x}
  BY <1>1, <1>2, <1>4 DEF Said, w
<1>7. \A k \in DOMAIN w : x[k] \in ByteSet /\ w[k] = {x[k]}
  <2> TAKE k \in DOMAIN w
  <2>1. PICK n \in Octets : w[k] = {n}
    BY <1>6
  <2>2. Only(w[k]) = n
    BY <2>1, OnlyOne
  <2>3. n \in ByteSet
    BY SameOctets
  <2> QED
    BY <2>1, <2>2, <2>3
<1>8. Len(w) \in Nat /\ DOMAIN w = 1 .. Len(w)
  BY <1>5
<1>9. x \in [1 .. Len(w) -> ByteSet] /\ w = [k \in DOMAIN x |-> {x[k]}]
  <2>1. DOMAIN x = DOMAIN w /\ w = [k \in DOMAIN w |-> w[k]]
    BY <1>5
  <2> QED
    BY <1>7, <1>8, <2>1
<1> HIDE DEF x
<1>10. x \in Seq(ByteSet)
  BY <1>8, <1>9, FunctionIsSequence
<1>11. Len(x) \in 1 .. 15
  <2>1. Possible(Raw, 1, x)
    BY <1>4, <1>6
  <2> DEFINE n == Len(x)
  <2>2. Possible(Raw, 1, x) => n \in 1 .. 15
    BY <1>1 DEF Possible
  <2> QED
    BY <2>1, <2>2
<1>12. Len(x) <= 15
  <2> DEFINE n == Len(x)
  <2>1. n \in 1 .. 15
    BY <1>11
  <2> HIDE DEF n
  <2>2. n <= 15
    BY <2>1
  <2> QED
    BY <2>2 DEF n
<1>13. RawFromMqtt(w).cached = x /\ ~ RawFromMqtt(w).throws
  BY <1>5, <1>9, <1>10, <1>12, RawTaken
<1>14. \A c : DptFromMqtt(Raw, c, 0, v) = {RawFromMqtt(w)}
  BY <1>1, <1>2 DEF DptFromMqtt, w
<1> QED
  BY <1>2, <1>6, <1>10, <1>11, <1>13, <1>14 DEF w

LEMMA RawAccepts == ASSUME NEW v \in UserValues(Raw), Allows(Raw, 0, v), NEW c PROVE Accepted(Raw, c, 0, v)
<1>1. PICK x \in Seq(ByteSet) :
          /\ Len(x) \in 1 .. 15 /\ \A e : DptFromMqtt(Raw, e, 0, v) = {RawFromMqtt(v.value)}
          /\ RawFromMqtt(v.value).cached = x /\ ~ RawFromMqtt(v.value).throws
  BY RawAllowed
<1>2. DptToKnx(Raw, x) = {x}
  BY DEF DptToKnx, Raw
<1>3. SetPayload(DefaultTpdu, x) # {}
  BY <1>1 DEF SetPayload, MaxPayloadSize
<1> QED
  BY <1>1, <1>2, <1>3 DEF Accepted

LEMMA RawBrings ==
    ASSUME NEW p, SentBy(Raw, p)
    PROVE  Brings(Raw, p.origin.index, p.origin.value, PayloadOn(p))
<1> DEFINE k == p.origin.index
           v == p.origin.value
           q == PayloadOn(p)
<1>0. Raw.kind = "raw"
  BY DEF Raw
<1>1. v \in UserValues(Raw) /\ k \in Int /\ k + 1 \in Controls(Raw)
  BY DEF SentBy
<1>2. k = 0
  BY <1>0, <1>1 DEF Controls
<1>3. PICK c : \E r \in DptFromMqtt(Raw, c, k, v) :
          \E data \in DptToKnx(Raw, r.cached) : \E u \in SetPayload(DataTpdu(GroupValueWrite), data) : p.octets = GetRaw(u)
  BY DEF SentBy
<1>4. PICK r \in DptFromMqtt(Raw, c, k, v) :
          \E data \in DptToKnx(Raw, r.cached) : \E u \in SetPayload(DataTpdu(GroupValueWrite), data) : p.octets = GetRaw(u)
  BY <1>3
<1>5. PICK data \in DptToKnx(Raw, r.cached) : \E u \in SetPayload(DataTpdu(GroupValueWrite), data) : p.octets = GetRaw(u)
  BY <1>4
<1>6. PICK u \in SetPayload(DataTpdu(GroupValueWrite), data) : p.octets = GetRaw(u)
  BY <1>5
<1> HIDE DEF k, v, q
<1> SUFFICES ASSUME Allows(Raw, 0, v) PROVE \A j \in FieldsOf(Raw, 0) : \A x \in Said(Raw, j, v) : Agrees(Raw, j, q, x)
  BY <1>2 DEF Brings, k, v, q
<1>7. PICK x \in Seq(ByteSet) :
          /\ Said(Raw, 1, v) = {x} /\ Len(x) \in 1 .. 15
          /\ \A e : DptFromMqtt(Raw, e, 0, v) = {RawFromMqtt(v.value)}
          /\ RawFromMqtt(v.value).cached = x
  BY <1>1, RawAllowed
<1>8. r.cached = x
  BY <1>2, <1>4, <1>7
<1>9. data = x
  BY <1>0, <1>5, <1>8 DEF DptToKnx
<1>10. q = SixBits(x)
  BY <1>6, <1>9, PayloadSent DEF q
<1>11. SixBits(x) = [x EXCEPT ![1] = @ % 64]
  BY <1>7 DEF SixBits
<1>12. FieldsOf(Raw, 0) = {1}
  BY <1>0 DEF FieldsOf
<1> QED
  BY <1>0, <1>7, <1>10, <1>11, <1>12 DEF Agrees

LEMMA RawAgain ==
    ASSUME NEW o, o.dpt = Raw, FromBus(o), NEW i \in Controls(Raw)
    PROVE  SetAgain(o, i)
<1> DEFINE p == o.last
           v == [type |-> "words", value |-> [k \in DOMAIN p |-> {p[k]}]]
<1>0. Raw.kind = "raw"
  BY DEF Raw
<1>1. i = 1
  BY <1>0 DEF Controls
<1>2. p \in Seq(ByteSet) /\ Len(p) \in 1 .. 15 /\ p[1] < 64 /\ o.shown = <<v>>
  BY RawShows
<1>3. v.type = "words" /\ v.value = [k \in DOMAIN p |-> {p[k]}]
  OBVIOUS
<1>4. o.shown[1] = v
  BY <1>2
<1> HIDE DEF v
<1>5. v.value \in Seq(SUBSET Int)
  <2>1. \A k \in DOMAIN p : {p[k]} \in SUBSET Int
    <3>1. \A n \in ByteSet : n \in Int
      BY Byte
    <3> QED
      BY <1>2, <3>1
  <2>2. Len(p) \in Nat /\ DOMAIN p = 1 .. Len(p)
    BY <1>2
  <2>3. v.value \in [1 .. Len(p) -> SUBSET Int]
    BY <1>3, <2>1, <2>2
  <2> QED
    BY <2>2, <2>3, FunctionIsSequence
<1>6. Len(p) <= 15
  <2> DEFINE n == Len(p)
  <2>1. n \in 1 .. 15
    BY <1>2
  <2> HIDE DEF n
  <2>2. n <= 15
    BY <2>1
  <2> QED
    BY <2>2 DEF n
<1>7. RawFromMqtt(v.value).cached = p /\ ~ RawFromMqtt(v.value).throws
  BY <1>2, <1>3, <1>5, <1>6, RawTaken
<1>8. \A c : DptFromMqtt(Raw, c, 0, v) = {RawFromMqtt(v.value)}
  BY <1>0, <1>3 DEF DptFromMqtt
<1>9. DptToKnx(Raw, p) = {p} /\ FieldsOf(Raw, 0) = {1} /\ Meaning(Raw, p)[1] = p
  <2>1. Meaning(Raw, p) = <<p>>
    BY <1>0 DEF Meaning
  <2> QED
    BY <1>0, <2>1 DEF DptToKnx, FieldsOf
<1>10. Agrees(Raw, 1, p, p)
  <2>1. p[1] \in ByteSet /\ 1 \in DOMAIN p
    BY <1>2
  <2>2. p[1] % 64 = p[1]
    <3>1. p[1] \in Int /\ 0 <= p[1]
      BY <2>1, Byte
    <3> QED
      BY <1>2, <3>1
  <2>3. p = [p EXCEPT ![1] = p[1]]
    BY <1>2
  <2>4. p = [p EXCEPT ![1] = @ % 64]
    BY <2>2, <2>3
  <2> QED
    BY <1>0, <2>4 DEF Agrees
<1>11. i - 1 = 0
  BY <1>1
<1> QED
  BY <1>1, <1>4, <1>7, <1>8, <1>9, <1>10, <1>11 DEF SetAgain

-----------------------------------------------------------------------------
(* JSON objects as installed                                               *)

\* What a field is read as means what the documents say, and it holds the numbers
\* that they allow.
FieldMeans(d, i) ==
    /\ Numeric(d.fields[i]) /\ (d.fields[i].as = "float" <=> d.main = 9)
    /\ d.fields[i].at \in Nat /\ d.fields[i].at + d.fields[i].width <= 8 * d.size
    /\ \A x \in AllowedJson(d.main, i) : Holds(d.fields[i], x)
    /\ \A p \in Seq(ByteSet) : Len(p) = d.size =>
           LET x == Decoded(d.fields[i], FieldBits(BitsOf(p), d.fields[i]))
           IN  Holds(d.fields[i], x) /\ MeaningOfJson(d.main, Len(d.fields), p)[i] = x

\* A field of unsigned numbers that is w bits of octet k, r bits before its end.
InOctet(f, k, r, w) ==
    /\ f.as \in {"bit", "unsigned", "enum"} /\ (f.as = "bit" => w = 1) /\ f.width = w /\ f.at = 8 * k - r - w

\* The documents read field i there.
SaysOctet(d, i, k, r, N) ==
    \A p \in Seq(ByteSet) : Len(p) = d.size =>
        MeaningOfJson(d.main, Len(d.fields), p)[i] = (p[k] \div 2 ^ r) % N

\* A field of w bits holds the numbers below 2 ^ w.
LEMMA PartHolds ==
    ASSUME NEW f, f.as \in {"bit", "unsigned", "enum"}, NEW w \in Nat, f.width = w, f.as = "bit" => w = 1,
           NEW N \in Narrow, Times(w, N), w = 1 => N = 2, NEW x \in 0 .. N - 1
    PROVE  Holds(f, x)
<1>1. N \in Nat
  BY DEF Narrow
<1>2. x \in Int /\ 0 <= x /\ x <= N - 1
  BY <1>1
<1>3. Unsigned(LowBits(x, f.width)) = x
  BY <1>1, UnsignedKept
<1>4. f.as = "bit" => x \in BitSet
  <2>1. w = 1 => x = 0 \/ x = 1
    BY <1>1, <1>2
  <2> QED
    BY <2>1 DEF BitSet
<1> QED
  BY <1>2, <1>3, <1>4 DEF Holds

\* A field inside an octet means what the documents read there.
LEMMA PartMeans ==
    ASSUME NEW d, NEW i, NEW k \in Nat, k >= 1, k <= d.size, NEW w \in Nat, NEW r \in 0 .. 7, w + r <= 8,
           InOctet(d.fields[i], k, r, w), NEW N \in Narrow, Times(w, N), w = 1 => N = 2,
           d.main # 9, d.size \in Nat, AllowedJson(d.main, i) = 0 .. N - 1, SaysOctet(d, i, k, r, N)
    PROVE  FieldMeans(d, i)
<1> DEFINE f == d.fields[i]
           j == 8 - r - w
           at == 8 * (k - 1) + j
<1>1. /\ f.as \in {"bit", "unsigned", "enum"} /\ f.width = w /\ f.at = at /\ (f.as = "bit" => w = 1)
      /\ j \in Nat /\ j + w + r = 8 /\ at \in Nat /\ at + w <= 8 * d.size
  <2> DEFINE z == d.size
  <2>1. z \in Nat /\ k <= z
    OBVIOUS
  <2>2. r \in Nat /\ r <= 7
    OBVIOUS
  <2>3. f.as \in {"bit", "unsigned", "enum"} /\ f.width = w /\ f.at = 8 * k - r - w /\ (f.as = "bit" => w = 1)
    BY DEF InOctet
  <2> HIDE DEF z, f
  <2>4. j \in Nat /\ j + w + r = 8 /\ at = 8 * k - r - w /\ at \in Nat
    BY <2>2
  <2>5. at + w <= 8 * z
    BY <2>1, <2>2
  <2> QED
    BY <2>3, <2>4, <2>5 DEF z
<1>2. Numeric(f) /\ f.as # "float"
  BY <1>1 DEF Numeric
<1> HIDE DEF at, j
<1>3. ASSUME NEW p \in Seq(ByteSet), Len(p) = d.size
      PROVE  Decoded(f, FieldBits(BitsOf(p), f)) = (p[k] \div 2 ^ r) % N
  <2>1. k \in 1 .. Len(p) /\ j \in Nat /\ j + w + r = 8 /\ f.width = w /\ f.at = 8 * (k - 1) + j
    BY <1>1, <1>3 DEF at
  <2> HIDE DEF f
  <2>2. OctetRead(f, p, k, r, N)
    BY <2>1, OctetPart
  <2>3. Decoded(f, FieldBits(BitsOf(p), f)) = Unsigned(FieldBits(BitsOf(p), f))
    BY <1>1 DEF Decoded
  <2> QED
    BY <2>2, <2>3 DEF OctetRead
<1>4. ASSUME NEW p \in Seq(ByteSet), Len(p) = d.size
      PROVE  (p[k] \div 2 ^ r) % N \in 0 .. N - 1
  <2>1. k \in 1 .. Len(p)
    BY <1>4
  <2>2. p[k] \in Int
    BY <2>1, OctetAt
  <2>3. r \in Nat /\ p[k] \div 2 ^ r \in Int
    <3>1. Shifted(p[k], r) = p[k] \div 2 ^ r
      BY <2>2, ShiftedIs
    <3>2. r \in Nat
      OBVIOUS
    <3> QED
      BY <2>2, <3>1, <3>2, ShiftedDef
  <2> DEFINE m == p[k] \div 2 ^ r
  <2>4. m \in Int
    BY <2>3
  <2> HIDE DEF m
  <2>5. Unsigned(LowBits(m, w)) = m % N
    BY <2>4, UnsignedLow
  <2>6. Unsigned(LowBits(m, w)) \in 0 .. N - 1
    <3>1. N \in Nat
      BY DEF Narrow
    <3> QED
      BY <2>4, <3>1, Remainder
  <2> QED
    BY <2>5, <2>6 DEF m
<1>5. \A x \in 0 .. N - 1 : Holds(f, x)
  BY <1>1, PartHolds
<1> HIDE DEF f
<1>6. ASSUME NEW p \in Seq(ByteSet), Len(p) = d.size
      PROVE  LET x == Decoded(f, FieldBits(BitsOf(p), f))
             IN  Holds(f, x) /\ MeaningOfJson(d.main, Len(d.fields), p)[i] = x
  <2> DEFINE x == Decoded(f, FieldBits(BitsOf(p), f))
             y == (p[k] \div 2 ^ r) % N
  <2>1. x = y /\ y \in 0 .. N - 1 /\ MeaningOfJson(d.main, Len(d.fields), p)[i] = y
    BY <1>3, <1>4, <1>6 DEF SaysOctet
  <2> HIDE DEF x, y
  <2>2. Holds(f, x) /\ MeaningOfJson(d.main, Len(d.fields), p)[i] = x
    BY <1>5, <2>1
  <2> QED
    BY <2>2 DEF x
<1>7. \A x \in AllowedJson(d.main, i) : Holds(f, x)
  BY <1>5
<1>8. f.at \in Nat /\ f.at + f.width <= 8 * d.size
  BY <1>1
<1> QED
  BY <1>2, <1>6, <1>7, <1>8 DEF FieldMeans, f

\* What is read from two octets can be written again.
LEMMA ReadInFloat ==
    ASSUME NEW raw \in Int
    PROVE  InFloat(RawToFloat16(raw))
<1> DEFINE e == (raw \div 2048) % 16
           x == raw % 2048
           s == IF raw >= 32768 THEN 2048 ELSE 0
           m == x - s
           P == 2 ^ e
<1>1. e \in 0 .. 15 /\ x \in Int /\ 0 <= x /\ x <= 2047 /\ s \in {0, 2048}
  BY SMT
<1>2. RawToFloat16(raw) = m * P
  BY DEF RawToFloat16
<1> HIDE DEF x, s, e
<1>0. e \in 0 .. 15
  BY <1>1
<1>3. P \in Powers16
  BY <1>0, PowerOf, Zenon
<1>4. m \in Int /\ -2048 <= m /\ m <= 2047
  BY <1>1
<1> HIDE DEF m, P
<1> DEFINE z == m * P
<1>5. z \in Int /\ LeastFloat <= z /\ z <= GreatestFloat
  BY <1>3, <1>4, SMT DEF Powers16, LeastFloat, GreatestFloat
<1> HIDE DEF z
<1> QED
  BY <1>2, <1>5, Zenon DEF InFloat, z

\* So can what the documents allow.
LEMMA FloatsAllowed ==
    ASSUME NEW x \in FloatValues
    PROVE  InFloat(x)
<1> DEFINE h == 2 ^ 15
<1>1. h = 32768
  BY LargePowers, SMT
<1> HIDE DEF h
<1>2. x \in Int /\ -2048 * h <= x /\ x <= 2047 * h
  BY <1>1, SMT DEF h, FloatValues
<1>3. LeastFloat <= x /\ x <= GreatestFloat
  BY <1>1, <1>2, SMT DEF LeastFloat, GreatestFloat
<1> QED
  BY <1>2, <1>3 DEF InFloat

\* The parts of a field that is placed as installed.
LEMMA PlacedAt ==
    ASSUME NEW f, NEW as, NEW width, NEW at, FieldAt(f.as, f.width, f.at) = FieldAt(as, width, at)
    PROVE  f.as = as /\ f.width = width /\ f.at = at
BY DEF FieldAt

\* The octets of a short payload.
LEMMA OctetsOfPayload ==
    ASSUME NEW p \in Seq(ByteSet), NEW n \in {1, 2, 3, 4}, Len(p) = n
    PROVE  /\ p[1] \in ByteSet
           /\ n >= 2 => p[2] \in ByteSet
           /\ n >= 3 => p[3] \in ByteSet
           /\ n >= 4 => p[4] \in ByteSet
<1>1. \A k \in 1 .. n : p[k] \in ByteSet
  OBVIOUS
<1>2. 1 \in 1 .. n /\ (n >= 2 => 2 \in 1 .. n) /\ (n >= 3 => 3 \in 1 .. n) /\ (n >= 4 => 4 \in 1 .. n)
  OBVIOUS
<1> QED
  BY <1>1, <1>2, Zenon

\* The divisors of an octet.
LEMMA Powers7 == 2 ^ 0 = 1 /\ 2 ^ 1 = 2 /\ 2 ^ 2 = 4 /\ 2 ^ 3 = 8 /\ 2 ^ 4 = 16 /\ 2 ^ 5 = 32 /\ 2 ^ 6 = 64 /\ 2 ^ 7 = 128
BY SMT

\* What is left of an octet, as the documents write it.
LEMMA OctetCut ==
    ASSUME NEW n \in ByteSet
    PROVE  /\ (n \div 2 ^ 7) % 2 = n \div 128 /\ (n \div 2 ^ 6) % 2 = (n \div 64) % 2 /\ (n \div 2 ^ 5) % 2 = (n \div 32) % 2
           /\ (n \div 2 ^ 4) % 2 = (n \div 16) % 2 /\ (n \div 2 ^ 3) % 2 = (n \div 8) % 2 /\ (n \div 2 ^ 5) % 8 = n \div 32
           /\ (n \div 2 ^ 0) % 8 = n % 8 /\ (n \div 2 ^ 0) % 32 = n % 32 /\ (n \div 2 ^ 0) % 64 = n % 64
           /\ (n \div 2 ^ 0) % 16 = n % 16 /\ (n \div 2 ^ 0) % 128 = n % 128 /\ (n \div 2 ^ 0) % 4 = n % 4
<1>1. n \in Int /\ 0 <= n /\ n <= 255
  BY Byte
<1>2. (n \div 128) % 2 = n \div 128 /\ (n \div 32) % 8 = n \div 32 /\ n \div 1 = n
  BY <1>1, SMT
<1> QED
  BY <1>2, Powers7, Zenon

\* Field i is w bits of octet k, r bits before its end, and counts to N.
PartOf(d, i, k, r, w, N) ==
    /\ k \in Nat /\ k >= 1 /\ k <= d.size /\ d.size \in Nat /\ w \in Nat /\ r \in 0 .. 7 /\ w + r <= 8
    /\ N \in Narrow /\ Times(w, N) /\ (w = 1 => N = 2) /\ InOctet(d.fields[i], k, r, w)

Allowed(d, i, N) == AllowedJson(d.main, i) = 0 .. N - 1

\* A field inside an octet that the documents read there means what they say.
LEMMA PartIn ==
    ASSUME NEW d, NEW i, NEW k, NEW r, NEW w, NEW N, PartOf(d, i, k, r, w, N), SaysOctet(d, i, k, r, N),
           Allowed(d, i, N), d.main # 9
    PROVE  FieldMeans(d, i)
BY PartMeans DEF PartOf, Allowed

\* No two fields share a bit.
Apart(d) ==
    \A i, j \in DOMAIN d.fields : i # j =>
        \/ d.fields[i].at + d.fields[i].width <= d.fields[j].at
        \/ d.fields[j].at + d.fields[j].width <= d.fields[i].at

AllMean(d) == (\A i \in DOMAIN d.fields : FieldMeans(d, i)) /\ Apart(d)

\* Type 6: five bits and an enumeration.
LEMMA Means6 ==
    ASSUME NEW d, AsInstalled(d), d.main = 6
    PROVE  AllMean(d)
<1> DEFINE f == d.fields
<1>1. d.size = 2 /\ DOMAIN f = {1, 2, 3, 4, 5, 6}
  BY DEF AsInstalled, LengthOfJson, FieldsInstalled
<1>2. /\ f[1].as = "bit" /\ f[1].width = 1 /\ f[1].at = 8
      /\ f[2].as = "bit" /\ f[2].width = 1 /\ f[2].at = 9
      /\ f[3].as = "bit" /\ f[3].width = 1 /\ f[3].at = 10
      /\ f[4].as = "bit" /\ f[4].width = 1 /\ f[4].at = 11
      /\ f[5].as = "bit" /\ f[5].width = 1 /\ f[5].at = 12
      /\ f[6].as = "enum" /\ f[6].width = 3 /\ f[6].at = 13
  BY PlacedAt DEF AsInstalled, FieldsInstalled
<1>3. /\ PartOf(d, 1, 2, 7, 1, 2) /\ PartOf(d, 2, 2, 6, 1, 2) /\ PartOf(d, 3, 2, 5, 1, 2)
      /\ PartOf(d, 4, 2, 4, 1, 2) /\ PartOf(d, 5, 2, 3, 1, 2) /\ PartOf(d, 6, 2, 0, 3, 8)
  <2>1. /\ InOctet(f[1], 2, 7, 1) /\ InOctet(f[2], 2, 6, 1) /\ InOctet(f[3], 2, 5, 1) /\ InOctet(f[4], 2, 4, 1)
        /\ InOctet(f[5], 2, 3, 1) /\ InOctet(f[6], 2, 0, 3)
    BY <1>2 DEF InOctet
  <2> QED
    BY <1>1, <2>1, TimesNarrow DEF PartOf, Narrow
<1>4. /\ Allowed(d, 1, 2) /\ Allowed(d, 2, 2) /\ Allowed(d, 3, 2) /\ Allowed(d, 4, 2) /\ Allowed(d, 5, 2)
      /\ Allowed(d, 6, 8)
  BY DEF Allowed, AllowedJson
<1>5. /\ SaysOctet(d, 1, 2, 7, 2) /\ SaysOctet(d, 2, 2, 6, 2) /\ SaysOctet(d, 3, 2, 5, 2)
      /\ SaysOctet(d, 4, 2, 4, 2) /\ SaysOctet(d, 5, 2, 3, 2) /\ SaysOctet(d, 6, 2, 0, 8)
  <2>1. ASSUME NEW p \in Seq(ByteSet), Len(p) = 2, NEW n
        PROVE  /\ MeaningOfJson(6, n, p)[1] = (p[2] \div 2 ^ 7) % 2
               /\ MeaningOfJson(6, n, p)[2] = (p[2] \div 2 ^ 6) % 2
               /\ MeaningOfJson(6, n, p)[3] = (p[2] \div 2 ^ 5) % 2
               /\ MeaningOfJson(6, n, p)[4] = (p[2] \div 2 ^ 4) % 2
               /\ MeaningOfJson(6, n, p)[5] = (p[2] \div 2 ^ 3) % 2
               /\ MeaningOfJson(6, n, p)[6] = (p[2] \div 2 ^ 0) % 8
    <3>1. p[2] \in ByteSet
      BY <2>1, OctetsOfPayload
    <3>2. MeaningOfJson(6, n, p) = <<p[2] \div 128, (p[2] \div 64) % 2, (p[2] \div 32) % 2, (p[2] \div 16) % 2, (p[2] \div 8) % 2, p[2] % 8>>
      BY DEF MeaningOfJson
    <3> QED
      BY <3>1, <3>2, OctetCut
  <2> QED
    BY <1>1, <2>1 DEF SaysOctet
<1>6. \A i \in DOMAIN f : FieldMeans(d, i)
  BY <1>1, <1>3, <1>4, <1>5, PartIn
<1>7. Apart(d)
  BY <1>1, <1>2 DEF Apart
<1> QED
  BY <1>6, <1>7 DEF AllMean

\* Type 10: a time.
LEMMA Means10 ==
    ASSUME NEW d, AsInstalled(d), d.main = 10
    PROVE  AllMean(d)
<1> DEFINE f == d.fields
<1>1. d.size = 4 /\ DOMAIN f = {1, 2, 3, 4}
  BY DEF AsInstalled, LengthOfJson, FieldsInstalled
<1>2. /\ f[1].as = "enum" /\ f[1].width = 3 /\ f[1].at = 8
      /\ f[2].as = "unsigned" /\ f[2].width = 5 /\ f[2].at = 11
      /\ f[3].as = "unsigned" /\ f[3].width = 6 /\ f[3].at = 18
      /\ f[4].as = "unsigned" /\ f[4].width = 6 /\ f[4].at = 26
  BY PlacedAt DEF AsInstalled, FieldsInstalled
<1>3. /\ PartOf(d, 1, 2, 5, 3, 8) /\ PartOf(d, 2, 2, 0, 5, 32) /\ PartOf(d, 3, 3, 0, 6, 64)
      /\ PartOf(d, 4, 4, 0, 6, 64)
  <2>1. InOctet(f[1], 2, 5, 3) /\ InOctet(f[2], 2, 0, 5) /\ InOctet(f[3], 3, 0, 6) /\ InOctet(f[4], 4, 0, 6)
    BY <1>2 DEF InOctet
  <2> QED
    BY <1>1, <2>1, TimesNarrow DEF PartOf, Narrow
<1>4. Allowed(d, 1, 8) /\ Allowed(d, 2, 32) /\ Allowed(d, 3, 64) /\ Allowed(d, 4, 64)
  BY DEF Allowed, AllowedJson
<1>5. /\ SaysOctet(d, 1, 2, 5, 8) /\ SaysOctet(d, 2, 2, 0, 32) /\ SaysOctet(d, 3, 3, 0, 64)
      /\ SaysOctet(d, 4, 4, 0, 64)
  <2>1. ASSUME NEW p \in Seq(ByteSet), Len(p) = 4, NEW n
        PROVE  /\ MeaningOfJson(10, n, p)[1] = (p[2] \div 2 ^ 5) % 8
               /\ MeaningOfJson(10, n, p)[2] = (p[2] \div 2 ^ 0) % 32
               /\ MeaningOfJson(10, n, p)[3] = (p[3] \div 2 ^ 0) % 64
               /\ MeaningOfJson(10, n, p)[4] = (p[4] \div 2 ^ 0) % 64
    <3>1. p[2] \in ByteSet /\ p[3] \in ByteSet /\ p[4] \in ByteSet
      BY <2>1, OctetsOfPayload
    <3>2. MeaningOfJson(10, n, p) = <<p[2] \div 32, p[2] % 32, p[3] % 64, p[4] % 64>>
      BY DEF MeaningOfJson
    <3> QED
      BY <3>1, <3>2, OctetCut
  <2> QED
    BY <1>1, <2>1 DEF SaysOctet
<1>6. \A i \in DOMAIN f : FieldMeans(d, i)
  BY <1>1, <1>3, <1>4, <1>5, PartIn
<1>7. Apart(d)
  BY <1>1, <1>2 DEF Apart
<1> QED
  BY <1>6, <1>7 DEF AllMean

\* Type 11: a date.
LEMMA Means11 ==
    ASSUME NEW d, AsInstalled(d), d.main = 11
    PROVE  AllMean(d)
<1> DEFINE f == d.fields
<1>1. d.size = 4 /\ DOMAIN f = {1, 2, 3}
  BY DEF AsInstalled, LengthOfJson, FieldsInstalled
<1>2. /\ f[1].as = "unsigned" /\ f[1].width = 5 /\ f[1].at = 11
      /\ f[2].as = "unsigned" /\ f[2].width = 4 /\ f[2].at = 20
      /\ f[3].as = "unsigned" /\ f[3].width = 7 /\ f[3].at = 25
  BY PlacedAt DEF AsInstalled, FieldsInstalled
<1>3. PartOf(d, 1, 2, 0, 5, 32) /\ PartOf(d, 2, 3, 0, 4, 16) /\ PartOf(d, 3, 4, 0, 7, 128)
  <2>1. InOctet(f[1], 2, 0, 5) /\ InOctet(f[2], 3, 0, 4) /\ InOctet(f[3], 4, 0, 7)
    BY <1>2 DEF InOctet
  <2> QED
    BY <1>1, <2>1, TimesNarrow DEF PartOf, Narrow
<1>4. Allowed(d, 1, 32) /\ Allowed(d, 2, 16) /\ Allowed(d, 3, 128)
  BY DEF Allowed, AllowedJson
<1>5. SaysOctet(d, 1, 2, 0, 32) /\ SaysOctet(d, 2, 3, 0, 16) /\ SaysOctet(d, 3, 4, 0, 128)
  <2>1. ASSUME NEW p \in Seq(ByteSet), Len(p) = 4, NEW n
        PROVE  /\ MeaningOfJson(11, n, p)[1] = (p[2] \div 2 ^ 0) % 32
               /\ MeaningOfJson(11, n, p)[2] = (p[3] \div 2 ^ 0) % 16
               /\ MeaningOfJson(11, n, p)[3] = (p[4] \div 2 ^ 0) % 128
    <3>1. p[2] \in ByteSet /\ p[3] \in ByteSet /\ p[4] \in ByteSet
      BY <2>1, OctetsOfPayload
    <3>2. MeaningOfJson(11, n, p) = <<p[2] % 32, p[3] % 16, p[4] % 128>>
      BY DEF MeaningOfJson
    <3> QED
      BY <3>1, <3>2, OctetCut
  <2> QED
    BY <1>1, <2>1 DEF SaysOctet
<1>6. \A i \in DOMAIN f : FieldMeans(d, i)
  BY <1>1, <1>3, <1>4, <1>5, PartIn
<1>7. Apart(d)
  BY <1>1, <1>2 DEF Apart
<1> QED
  BY <1>6, <1>7 DEF AllMean

\* Type 18: a scene.
LEMMA Means18 ==
    ASSUME NEW d, AsInstalled(d), d.main = 18
    PROVE  AllMean(d)
<1> DEFINE f == d.fields
<1>1. d.size = 2 /\ DOMAIN f = {1, 2}
  BY DEF AsInstalled, LengthOfJson, FieldsInstalled
<1>2. /\ f[1].as = "bit" /\ f[1].width = 1 /\ f[1].at = 8
      /\ f[2].as = "unsigned" /\ f[2].width = 6 /\ f[2].at = 10
  BY PlacedAt DEF AsInstalled, FieldsInstalled
<1>3. PartOf(d, 1, 2, 7, 1, 2) /\ PartOf(d, 2, 2, 0, 6, 64)
  <2>1. InOctet(f[1], 2, 7, 1) /\ InOctet(f[2], 2, 0, 6)
    BY <1>2 DEF InOctet
  <2> QED
    BY <1>1, <2>1, TimesNarrow DEF PartOf, Narrow
<1>4. Allowed(d, 1, 2) /\ Allowed(d, 2, 64)
  BY DEF Allowed, AllowedJson
<1>5. SaysOctet(d, 1, 2, 7, 2) /\ SaysOctet(d, 2, 2, 0, 64)
  <2>1. ASSUME NEW p \in Seq(ByteSet), Len(p) = 2, NEW n
        PROVE  /\ MeaningOfJson(18, n, p)[1] = (p[2] \div 2 ^ 7) % 2
               /\ MeaningOfJson(18, n, p)[2] = (p[2] \div 2 ^ 0) % 64
    <3>1. p[2] \in ByteSet
      BY <2>1, OctetsOfPayload
    <3>2. MeaningOfJson(18, n, p) = <<p[2] \div 128, p[2] % 64>>
      BY DEF MeaningOfJson
    <3> QED
      BY <3>1, <3>2, OctetCut
  <2> QED
    BY <1>1, <2>1 DEF SaysOctet
<1>6. \A i \in DOMAIN f : FieldMeans(d, i)
  BY <1>1, <1>3, <1>4, <1>5, PartIn
<1>7. Apart(d)
  BY <1>1, <1>2 DEF Apart
<1> QED
  BY <1>6, <1>7 DEF AllMean

\* Type 23: two bits of the first octet.
LEMMA Means23 ==
    ASSUME NEW d, AsInstalled(d), d.main = 23
    PROVE  AllMean(d)
<1> DEFINE f == d.fields
<1>1. d.size = 1 /\ DOMAIN f = {1}
  BY DEF AsInstalled, LengthOfJson, FieldsInstalled
<1>2. f[1].as = "enum" /\ f[1].width = 2 /\ f[1].at = 6
  BY PlacedAt DEF AsInstalled, FieldsInstalled
<1>3. PartOf(d, 1, 1, 0, 2, 4)
  <2>1. InOctet(f[1], 1, 0, 2)
    BY <1>2 DEF InOctet
  <2> QED
    BY <1>1, <2>1, TimesNarrow DEF PartOf, Narrow
<1>4. Allowed(d, 1, 4)
  BY DEF Allowed, AllowedJson
<1>5. SaysOctet(d, 1, 1, 0, 4)
  <2>1. ASSUME NEW p \in Seq(ByteSet), Len(p) = 1, NEW n
        PROVE  MeaningOfJson(23, n, p)[1] = (p[1] \div 2 ^ 0) % 4
    <3>1. p[1] \in ByteSet
      BY <2>1, OctetsOfPayload
    <3>2. MeaningOfJson(23, n, p) = <<p[1] % 4>>
      BY DEF MeaningOfJson
    <3> QED
      BY <3>1, <3>2, OctetCut
  <2> QED
    BY <1>1, <2>1 DEF SaysOctet
<1>6. \A i \in DOMAIN f : FieldMeans(d, i)
  BY <1>1, <1>3, <1>4, <1>5, PartIn
<1>7. Apart(d)
  BY <1>1, <1>2 DEF Apart
<1> QED
  BY <1>6, <1>7 DEF AllMean

\* As many bits as there are fields.
LEMMA Means21 ==
    ASSUME NEW d, AsInstalled(d), d.main = 21
    PROVE  AllMean(d)
<1> DEFINE n == Len(d.fields)
<1>1. d.size = 2 /\ n \in 1 .. 8 /\ DOMAIN d.fields = 1 .. n
  BY DEF AsInstalled, LengthOfJson, FieldsInstalled
<1>2. ASSUME NEW i \in 1 .. n
      PROVE  d.fields[i].as = "bit" /\ d.fields[i].width = 1 /\ d.fields[i].at = 15 - n + i
  <2>1. FieldsInstalled(21, n) = [j \in 1 .. n |-> FieldAt("bit", 1, 15 - n + j)]
    BY DEF FieldsInstalled
  <2>2. FieldAt(d.fields[i].as, d.fields[i].width, d.fields[i].at) = FieldsInstalled(21, n)[i]
    BY <1>1, <2>1 DEF AsInstalled
  <2>3. FieldsInstalled(21, n)[i] = FieldAt("bit", 1, 15 - n + i)
    BY <2>1
  <2> DEFINE f == d.fields[i]
             at == 15 - n + i
  <2>4. FieldAt(f.as, f.width, f.at) = FieldAt("bit", 1, at)
    BY <2>2, <2>3
  <2> HIDE DEF f, at
  <2>5. f.as = "bit" /\ f.width = 1 /\ f.at = at
    BY <2>4, PlacedAt
  <2> QED
    BY <2>5 DEF f, at
<1> HIDE DEF n
<1>3. ASSUME NEW i \in 1 .. n PROVE FieldMeans(d, i)
  <2> DEFINE r == n - i
  <2>1. r \in 0 .. 7 /\ 15 - n + i = 8 * 2 - r - 1
    BY <1>1
  <2>2. InOctet(d.fields[i], 2, r, 1)
    BY <1>2, <2>1 DEF InOctet
  <2> HIDE DEF r
  <2>3. PartOf(d, i, 2, r, 1, 2)
    BY <1>1, <2>1, <2>2, TimesNarrow DEF PartOf, Narrow
  <2>4. Allowed(d, i, 2)
    BY DEF Allowed, AllowedJson
  <2>5. ASSUME NEW p PROVE MeaningOfJson(21, n, p)[i] = (p[2] \div 2 ^ r) % 2
    <3>1. MeaningOfJson(21, n, p) = [k \in 1 .. n |-> (p[2] \div 2 ^ (n - k)) % 2]
      BY DEF MeaningOfJson
    <3> QED
      BY <3>1, Zenon DEF r
  <2>6. SaysOctet(d, i, 2, r, 2)
    BY <2>5 DEF SaysOctet, n
  <2> QED
    BY <2>3, <2>4, <2>6, PartIn
<1>4. Apart(d)
  <2>1. ASSUME NEW i \in 1 .. n, NEW j \in 1 .. n, i < j
        PROVE  d.fields[i].at + d.fields[i].width <= d.fields[j].at
    <3> DEFINE at == d.fields[i].at
               width == d.fields[i].width
               next == d.fields[j].at
    <3>1. at = 15 - n + i /\ width = 1 /\ next = 15 - n + j
      BY <1>2
    <3>2. n \in Int /\ i \in Int /\ j \in Int
      BY <1>1
    <3> HIDE DEF at, width, next
    <3>3. at + width <= next
      BY <2>1, <3>1, <3>2
    <3> QED
      BY <3>3 DEF at, width, next
  <2>2. \A i, j \in 1 .. n : i # j => i < j \/ j < i
    BY <1>1
  <2>3. DOMAIN d.fields = 1 .. n
    BY <1>1
  <2> QED
    BY <2>1, <2>2, <2>3, Zenon DEF Apart
<1> QED
  BY <1>1, <1>3, <1>4 DEF AllMean

\* One field of two octets.
LEMMA TwoOctetField ==
    ASSUME NEW d, AsInstalled(d), d.main \in {8, 9}
    PROVE  /\ d.size = 3 /\ DOMAIN d.fields = {1} /\ Numeric(d.fields[1]) /\ (d.fields[1].as = "float" <=> d.main = 9)
           /\ d.fields[1].as = (IF d.main = 9 THEN "float" ELSE "signed")
           /\ d.fields[1].at = 8 /\ d.fields[1].width = 16
           /\ \A p \in Seq(ByteSet) : FieldBits(BitsOf(p), d.fields[1]) = SubSeq(BitsOf(p), 9, 24)
<1> DEFINE f == d.fields[1]
<1>1. d.size = 3 /\ DOMAIN d.fields = {1}
  BY DEF AsInstalled, LengthOfJson, FieldsInstalled
<1>2. f.as = (IF d.main = 9 THEN "float" ELSE "signed") /\ f.at = 8 /\ f.width = 16
  <2>1. CASE d.main = 8
    BY <2>1, PlacedAt DEF AsInstalled, FieldsInstalled
  <2>2. CASE d.main = 9
    BY <2>2, PlacedAt DEF AsInstalled, FieldsInstalled
  <2> QED
    BY <2>1, <2>2
<1> HIDE DEF f
<1>3. Numeric(f)
  BY <1>2 DEF Numeric
<1>4. \A p : FieldBits(BitsOf(p), f) = SubSeq(BitsOf(p), 9, 24)
  <2>1. 8 + 1 = 9 /\ 8 + 16 = 24
    OBVIOUS
  <2> QED
    BY <1>2, <2>1, Zenon DEF FieldBits
<1> QED
  BY <1>1, <1>2, <1>3, <1>4 DEF f

\* Type 8: one signed number.
LEMMA Means8 ==
    ASSUME NEW d, AsInstalled(d), d.main = 8
    PROVE  AllMean(d)
<1> DEFINE f == d.fields[1]
           N == 32768
<1>1. /\ d.size = 3 /\ DOMAIN d.fields = {1} /\ Numeric(f) /\ f.as = "signed" /\ f.at = 8 /\ f.width = 16
      /\ \A p \in Seq(ByteSet) : FieldBits(BitsOf(p), f) = SubSeq(BitsOf(p), 9, 24)
  BY TwoOctetField
<1> HIDE DEF f
<1>2. N \in Nat /\ Times(15, N) /\ N = 2 ^ 15
  BY TimesTable, LargePowers
<1>3. ASSUME NEW n, n \in Int, 0 - N <= n, n <= N - 1 PROVE Holds(f, n)
  <2> HIDE DEF N
  <2>1. n \in 0 - N .. N - 1 /\ 15 + 1 = 16 /\ 15 \in Nat
    BY <1>2, <1>3
  <2>2. Signed(LowBits(n, 15 + 1)) = n
    BY <1>2, <2>1, SignedKept, Zenon
  <2> QED
    BY <1>1, <1>3, <2>1, <2>2 DEF Holds
<1>4. ASSUME NEW n \in AllowedJson(8, 1) PROVE Holds(f, n)
  <2>1. AllowedJson(8, 1) = 0 - 2 ^ 15 .. 2 ^ 15 - 1
    BY DEF AllowedJson
  <2> HIDE DEF N
  <2>2. n \in 0 - N .. N - 1
    BY <1>2, <2>1
  <2>3. n \in Int /\ 0 - N <= n /\ n <= N - 1
    BY <1>2, <2>2
  <2> QED
    BY <1>3, <2>3
<1>5. ASSUME NEW p \in Seq(ByteSet), Len(p) = 3, NEW c
      PROVE  LET x == Decoded(f, FieldBits(BitsOf(p), f)) IN Holds(f, x) /\ MeaningOfJson(8, c, p)[1] = x
  <2> DEFINE a == p[2]
             b == p[3]
             x == Decoded(f, FieldBits(BitsOf(p), f))
             y == Negative(Word(p), 32768)
  <2>1. p[2] \in ByteSet /\ p[3] \in ByteSet
    BY <1>5, OctetsOfPayload
  <2>2. a \in Int /\ 0 <= a /\ a <= 255 /\ b \in Int /\ 0 <= b /\ b <= 255
    BY <2>1, Byte
  <2>3. Signed(SubSeq(BitsOf(p), 9, 24)) = 256 * Negative(a, 128) + b
    <3>1. Len(p) >= 3
      BY <1>5
    <3> QED
      BY <3>1, TwoOctets
  <2>4. x = 256 * Negative(a, 128) + b
    BY <1>1, <2>3 DEF Decoded
  <2>5. MeaningOfJson(8, c, p) = <<y>>
    BY DEF MeaningOfJson
  <2>6. y = Negative(a * 256 + b, 32768)
    BY DEF Word
  <2> HIDE DEF a, b, x, y
  <2>7. x = y /\ x \in Int /\ 0 - 32768 <= x /\ x <= 32768 - 1
    BY <2>2, <2>4, <2>6, SMT DEF Negative
  <2>8. Holds(f, x)
    BY <1>3, <2>7
  <2>9. MeaningOfJson(8, c, p)[1] = x
    BY <2>5, <2>7
  <2> QED
    BY <2>8, <2>9 DEF x
<1>6. FieldMeans(d, 1)
  <2>1. (f.as = "float" <=> d.main = 9) /\ f.at \in Nat /\ f.at + f.width <= 8 * d.size
    BY <1>1
  <2> QED
    BY <1>1, <1>4, <1>5, <2>1, Zenon DEF FieldMeans, f
<1> QED
  BY <1>1, <1>6 DEF AllMean, Apart

\* Type 9: one float.
LEMMA Means9 ==
    ASSUME NEW d, AsInstalled(d), d.main = 9
    PROVE  AllMean(d)
<1> DEFINE f == d.fields[1]
<1>1. /\ d.size = 3 /\ DOMAIN d.fields = {1} /\ Numeric(f) /\ f.as = "float" /\ f.at = 8 /\ f.width = 16
      /\ \A p \in Seq(ByteSet) : FieldBits(BitsOf(p), f) = SubSeq(BitsOf(p), 9, 24)
  BY TwoOctetField
<1> HIDE DEF f
<1>2. \A n : InFloat(n) => Holds(f, n)
  BY <1>1 DEF Holds, InFloat
<1>3. ASSUME NEW n \in AllowedJson(9, 1) PROVE Holds(f, n)
  <2>1. AllowedJson(9, 1) = FloatValues
    BY DEF AllowedJson
  <2>2. InFloat(n)
    BY <2>1, FloatsAllowed
  <2> QED
    BY <1>2, <2>2
<1>4. ASSUME NEW p \in Seq(ByteSet), Len(p) = 3, NEW c
      PROVE  LET x == Decoded(f, FieldBits(BitsOf(p), f)) IN Holds(f, x) /\ MeaningOfJson(9, c, p)[1] = x
  <2> DEFINE raw == Unsigned(SubSeq(BitsOf(p), 9, 24))
             x == Decoded(f, FieldBits(BitsOf(p), f))
             y == Hundredths(p[2], p[3])
  <2>1. p[2] \in ByteSet /\ p[3] \in ByteSet
    BY <1>4, OctetsOfPayload
  <2>2. raw = 256 * p[2] + p[3]
    <3>1. Len(p) >= 3
      BY <1>4
    <3> QED
      BY <3>1, TwoOctets
  <2>3. x = RawToFloat16(raw)
    BY <1>1 DEF Decoded
  <2>4. RawToFloat16(256 * p[2] + p[3]) = y
    BY <2>1, Float16Read
  <2>5. MeaningOfJson(9, c, p) = <<y>>
    BY DEF MeaningOfJson
  <2>6. raw \in Int
    <3>1. p[2] \in Int /\ p[3] \in Int
      BY <2>1, Byte
    <3> QED
      BY <2>2, <3>1
  <2> HIDE DEF raw, x, y
  <2>7. InFloat(x)
    BY <2>3, <2>6, ReadInFloat
  <2>8. MeaningOfJson(9, c, p)[1] = x
    BY <2>2, <2>3, <2>4, <2>5
  <2> QED
    BY <1>2, <2>7, <2>8 DEF x
<1>5. FieldMeans(d, 1)
  BY <1>1, <1>3, <1>4, SMTT(30) DEF FieldMeans, f
<1> QED
  BY <1>1, <1>5 DEF AllMean, Apart

\* The fields of JSON objects as installed mean what the documents say.
LEMMA InstalledMeans ==
    ASSUME NEW d, AsInstalled(d)
    PROVE  AllMean(d)
<1>1. d.main \in {6, 8, 9, 10, 11, 18, 21, 23}
  BY DEF AsInstalled
<1> QED
  BY <1>1, Means6, Means8, Means9, Means10, Means11, Means18, Means21, Means23

\* What is sent for a number means it, by the documents; a float is off by less
\* than one step from what is left of the number as a float of 24 bits.
JsonConveys(d, x, p, i) ==
    /\ d.main # 9 => MeaningOfJson(d.main, Len(d.fields), p)[i] = x
    /\ d.main = 9 => OffByLess(AsFloat(x), p[2], p[3])

\* What conveys a number agrees with it in the sense of the properties.
LEMMA JsonAgrees ==
    ASSUME NEW d, AsInstalled(d), NEW i \in DOMAIN d.fields, NEW x, Holds(d.fields[i], x),
           NEW p \in Seq(ByteSet), Len(p) = d.size, JsonConveys(d, x, p, i),
           NEW q, MeaningOfJson(d.main, Len(d.fields), q) = MeaningOfJson(d.main, Len(d.fields), p),
           d.main = 9 => q[2] = p[2]
    PROVE  Agrees(d, i, q, x)
<1>1. d.kind = "json" /\ AllMean(d)
  BY InstalledMeans DEF AsInstalled
<1>2. Meaning(d, q) = MeaningOfJson(d.main, Len(d.fields), p)
  BY <1>1 DEF Meaning
<1>3. CASE d.main = 9
  <2>0. FieldMeans(d, i) /\ d.fields[i].as = "float" /\ d.size = 3
    BY <1>1, <1>3, TwoOctetField DEF AllMean, FieldMeans
  <2> DEFINE m == Hundredths(p[2], p[3])
             a == AsFloat(x)
  <2>1. MeaningOfJson(d.main, Len(d.fields), p)[1] = m
    <3> DEFINE c == Len(d.fields)
    <3>1. MeaningOfJson(9, c, p) = <<m>>
      BY DEF MeaningOfJson
    <3> QED
      BY <1>3, <3>1
  <2>2. PICK e \in 0 .. 15 : Exponent(p[2]) = e /\ a - m \in 0 .. 2 ^ e - 1
    BY <1>3 DEF JsonConveys, OffByLess
  <2>3. m \in Int
    <3> DEFINE h == p[2]
               l == p[3]
    <3>1. h \in ByteSet /\ l \in ByteSet
      BY <2>0, OctetsOfPayload
    <3>2. RawToFloat16(256 * h + l) = Hundredths(h, l)
      BY <3>1, Float16Read
    <3>3. 256 * h + l \in Int
      BY <3>1, Byte, SMTT(30)
    <3> HIDE DEF h, l
    <3>4. InFloat(Hundredths(h, l))
      BY <3>2, <3>3, ReadInFloat
    <3> QED
      BY <3>4 DEF InFloat, h, l
  <2>4. x \in Int /\ a \in Int /\ x - 3 <= a /\ a <= x + 3
    BY <2>0, AsFloatNear DEF Holds, InFloat
  <2>5. Meaning(d, q)[1] = m /\ Exponent(q[2]) = e
    BY <1>2, <1>3, <2>1, <2>2
  <2> HIDE DEF m, a
  <2> DEFINE power == 2 ^ e
  <2>6. power \in Int
    <3>1. power \in Powers16
      BY PowerOf, Zenon
    <3> QED
      BY <3>1 DEF Powers16
  <2>7. a - m \in 0 .. power - 1
    BY <2>2
  <2>8. 2 ^ Exponent(q[2]) = power
    BY <2>5
  <2> HIDE DEF power
  <2>9. m - x <= power + 3 /\ 0 - (m - x) <= power + 3
    BY <2>3, <2>4, <2>6, <2>7
  <2>10. Slack(d) = 3
    BY <1>1 DEF Slack
  <2> QED
    BY <1>1, <1>3, <2>5, <2>8, <2>9, <2>10 DEF Agrees
<1>4. CASE d.main # 9
  BY <1>1, <1>2, <1>4 DEF Agrees, JsonConveys
<1> QED
  BY <1>3, <1>4

\* The octets that are sent, without the first two bits, mean the same.
LEMMA JsonSixBits ==
    ASSUME NEW d, AsInstalled(d), NEW p \in Seq(ByteSet), Len(p) = d.size,
           NEW q, q = [k \in DOMAIN p |-> IF k = 1 THEN p[k] % 64 ELSE p[k]]
    PROVE  /\ MeaningOfJson(d.main, Len(d.fields), q) = MeaningOfJson(d.main, Len(d.fields), p)
           /\ d.main = 9 => q[2] = p[2]
<1> DEFINE n == Len(p)
           c == Len(d.fields)
<1>1. n \in 1 .. 4 /\ DOMAIN p = 1 .. n
  <2>1. \A m \in {6, 8, 9, 10, 11, 18, 21, 23} : LengthOfJson(m) \in 1 .. 4
    BY DEF LengthOfJson
  <2>2. n \in 1 .. 4
    BY <2>1 DEF AsInstalled
  <2> QED
    BY <2>2
<1>2. \A k \in {2, 3, 4} : k <= n => q[k] = p[k]
  BY <1>1
<1>3. q[1] = p[1] % 64 /\ p[1] \in ByteSet
  BY <1>1
<1>4. q[1] % 4 = p[1] % 4
  <2> DEFINE h == p[1]
  <2>1. h \in Int /\ 0 <= h
    BY <1>3, Byte
  <2> HIDE DEF h
  <2>2. (h % 64) % 4 = h % 4
    BY <2>1, SMT
  <2> QED
    BY <1>3, <2>2 DEF h
<1> HIDE DEF c, n
<1>5. CASE d.main \in {6, 18, 21}
  <2>1. q[2] = p[2]
    BY <1>2, <1>5 DEF AsInstalled, LengthOfJson, n
  <2>2. MeaningOfJson(d.main, c, q) = MeaningOfJson(d.main, c, p)
    <3>1. CASE d.main = 6
      BY <2>1, <3>1 DEF MeaningOfJson
    <3>2. CASE d.main = 18
      BY <2>1, <3>2 DEF MeaningOfJson
    <3>3. CASE d.main = 21
      BY <2>1, <3>3 DEF MeaningOfJson
    <3> QED
      BY <1>5, <3>1, <3>2, <3>3
  <2> QED
    BY <1>5, <2>1, <2>2 DEF c
<1>6. CASE d.main \in {8, 9}
  <2>1. q[2] = p[2] /\ q[3] = p[3]
    BY <1>2, <1>6 DEF AsInstalled, LengthOfJson, n
  <2>2. MeaningOfJson(d.main, c, q) = MeaningOfJson(d.main, c, p)
    <3>1. CASE d.main = 8
      BY <2>1, <3>1 DEF MeaningOfJson, Word
    <3>2. CASE d.main = 9
      BY <2>1, <3>2 DEF MeaningOfJson
    <3> QED
      BY <1>6, <3>1, <3>2
  <2> QED
    BY <2>1, <2>2 DEF c
<1>7. CASE d.main \in {10, 11}
  <2>1. q[2] = p[2] /\ q[3] = p[3] /\ q[4] = p[4]
    BY <1>2, <1>7 DEF AsInstalled, LengthOfJson, n
  <2>2. MeaningOfJson(d.main, c, q) = MeaningOfJson(d.main, c, p)
    <3>1. CASE d.main = 10
      BY <2>1, <3>1 DEF MeaningOfJson
    <3>2. CASE d.main = 11
      BY <2>1, <3>2 DEF MeaningOfJson
    <3> QED
      BY <1>7, <3>1, <3>2
  <2> QED
    BY <2>1, <2>2 DEF c
<1>8. CASE d.main = 23
  <2>1. MeaningOfJson(d.main, c, q) = MeaningOfJson(d.main, c, p)
    BY <1>4, <1>8 DEF MeaningOfJson
  <2> QED
    BY <1>8, <2>1 DEF c
<1> QED
  BY <1>5, <1>6, <1>7, <1>8 DEF AsInstalled

\* A text of JSON with one number for each field.
Complete(d, v, x) ==
    /\ v.type = "json" /\ DOMAIN v.value = {d.fields[i].name : i \in DOMAIN d.fields}
    /\ \A i \in DOMAIN d.fields :
           Tells(d.fields[i], v.value[d.fields[i].name], x[i]) /\ Holds(d.fields[i], x[i])

\* The cached members are those numbers.
CachedAs(d, c, x) ==
    /\ DOMAIN c = DOMAIN d.fields
    /\ \A i \in DOMAIN d.fields : Tells(d.fields[i], c[i], x[i]) /\ Holds(d.fields[i], x[i])

\* What a member says of its field.
LEMMA MemberSaid ==
    ASSUME NEW f, Numeric(f), NEW m, NEW x, Tells(f, m, x), NEW d, f.as = "float" <=> d.main = 9
    PROVE  m # Null /\ m.type # "text" /\ Amount(d, m.value) = x
<1>1. m # Null /\ m.type # "text"
  BY DEF Tells, Null
<1>2. CASE f.as = "float"
  BY <1>1, <1>2 DEF Tells, Amount
<1>3. CASE f.as # "float"
  <2>1. m.value = <<x, 0>> /\ <<x, 0>>[1] = x /\ <<x, 0>>[2] = 0
    BY <1>3 DEF Tells
  <2> QED
    BY <1>1, <1>3, <2>1 DEF Amount
<1> QED
  BY <1>1, <1>2, <1>3

\* What a complete text says of every field.
LEMMA CompleteSaid ==
    ASSUME NEW d, AsInstalled(d), NEW v, NEW x, Complete(d, v, x), NEW i \in DOMAIN d.fields
    PROVE  Said(d, i, v) = {x[i]}
<1> DEFINE f == d.fields[i]
           m == v.value[f.name]
<1>1. d.kind = "json" /\ v.type = "json" /\ f.name \in DOMAIN v.value
  BY DEF AsInstalled, Complete
<1>2. Numeric(f) /\ (f.as = "float" <=> d.main = 9)
  BY InstalledMeans DEF AllMean, FieldMeans
<1>3. Tells(f, m, x[i])
  BY DEF Complete
<1>4. m # Null /\ m.type # "text" /\ Amount(d, m.value) = x[i]
  <2> HIDE DEF f, m
  <2> QED
    BY <1>2, <1>3, MemberSaid
<1>5. {v.value[n] : n \in {f.name} \cap DOMAIN v.value} \ {Null} = {m}
  BY <1>1, <1>4
<1>6. Said(d, i, v) = {IF y.type = "text" THEN y.value ELSE Amount(d, y.value) :
                          y \in {v.value[n] : n \in {f.name} \cap DOMAIN v.value} \ {Null}}
  BY <1>1 DEF Said
<1> HIDE DEF m
<1> QED
  BY <1>4, <1>5, <1>6

\* A complete text replaces all that is cached.
LEMMA CompleteTaken ==
    ASSUME NEW d, AsInstalled(d), NEW v, NEW x, Complete(d, v, x), NEW c, DOMAIN c = DOMAIN d.fields,
           NEW r \in DptFromMqtt(d, c, 0, v)
    PROVE  ~ r.throws /\ CachedAs(d, r.cached, x)
<1> DEFINE object == v.value
           known == {d.fields[i].name : i \in DOMAIN d.fields}
           taken == {n \in DOMAIN object : \A m \in DOMAIN object : m <= n => m \in known}
<1>1. d.kind = "json" /\ v.type = "json" /\ DOMAIN object = known
  BY DEF AsInstalled, Complete
<1>2. r = JsonFromMqtt(d, c, object)
  BY <1>1 DEF DptFromMqtt
<1>3. taken = known
  BY <1>1
<1>4. /\ r.cached = [i \in DOMAIN c |-> IF d.fields[i].name \in taken THEN object[d.fields[i].name] ELSE c[i]]
      /\ r.throws = (taken # DOMAIN object)
  BY <1>2 DEF JsonFromMqtt
<1>5. \A i \in DOMAIN d.fields : d.fields[i].name \in known
  OBVIOUS
<1> HIDE DEF taken, known, object
<1>6. ~ r.throws
  BY <1>1, <1>3, <1>4
<1>7. DOMAIN r.cached = DOMAIN d.fields /\ \A i \in DOMAIN d.fields : r.cached[i] = object[d.fields[i].name]
  BY <1>3, <1>4, <1>5
<1> QED
  BY <1>6, <1>7 DEF CachedAs, Complete, object

\* What is sent for it.
LEMMA InstalledWritten ==
    ASSUME NEW d, AsInstalled(d), NEW c, NEW x, CachedAs(d, c, x)
    PROVE  /\ d.size \in 1 .. 15
           /\ \E data \in Seq(ByteSet) :
                  /\ DptToKnx(d, c) = {data} /\ Len(data) = d.size
                  /\ \A i \in DOMAIN d.fields : JsonConveys(d, x[i], data, i)
<1> DEFINE I == DOMAIN d.fields
           raw == [i \in I |-> GetRawValue(d.fields[i], c[i])]
           bits == [i \in I |-> Only(raw[i])]
           data == Assemble(d.fields, bits, d.size)
<1>1. d.kind = "json" /\ d.size \in 1 .. 15 /\ d.size \in Nat /\ (d.main = 9 => d.size = 3)
  <2>1. \A m \in {6, 8, 9, 10, 11, 18, 21, 23} : LengthOfJson(m) \in 1 .. 15
    BY DEF LengthOfJson
  <2>2. LengthOfJson(9) = 3
    BY DEF LengthOfJson
  <2> QED
    BY <2>1, <2>2 DEF AsInstalled
<1>2. AllMean(d)
  BY InstalledMeans
<1>3. ASSUME NEW i \in I
      PROVE  /\ raw[i] = {RawBits(d.fields[i], x[i])} /\ bits[i] = RawBits(d.fields[i], x[i])
             /\ bits[i] \in [1 .. d.fields[i].width -> BitSet]
             /\ d.fields[i].as # "float" => Decoded(d.fields[i], bits[i]) = x[i]
  <2> DEFINE f == d.fields[i]
             y == x[i]
             m == c[i]
  <2>1. Numeric(f) /\ Holds(f, y) /\ Tells(f, m, y)
    BY <1>2 DEF AllMean, FieldMeans, CachedAs
  <2>2. raw[i] = GetRawValue(f, m)
    OBVIOUS
  <2>3. bits[i] = Only(raw[i])
    OBVIOUS
  <2> HIDE DEF f, y, m, raw, bits
  <2>4. GetRawValue(f, m) = {RawBits(f, y)}
    BY <2>1, MemberWritten
  <2>5. bits[i] = RawBits(f, y)
    BY <2>2, <2>3, <2>4, OnlyOne
  <2>6. RawBits(f, y) \in [1 .. f.width -> BitSet] /\ (f.as # "float" => Decoded(f, RawBits(f, y)) = y)
    BY <2>1, BitsWritten
  <2> QED
    BY <2>2, <2>4, <2>5, <2>6 DEF f, y
<1>4. DptToKnx(d, c) = {data}
  <2>1. DptToKnx(d, c) = JsonToKnx(d, c)
    BY <1>1 DEF DptToKnx
  <2>2. \A i \in I : raw[i] # {}
    BY <1>3
  <2>3. DOMAIN raw = I
    OBVIOUS
  <2>4. JsonToKnx(d, c) = {Assemble(d.fields, [i \in DOMAIN raw |-> Only(raw[i])], d.size)}
    BY <2>2, <2>3 DEF JsonToKnx
  <2> QED
    BY <2>1, <2>3, <2>4
<1> HIDE DEF raw, bits
<1>5. Laid(d.fields, d.size)
  BY <1>2 DEF AllMean, Apart, FieldMeans, Numeric, Laid
<1>6. data \in Seq(ByteSet) /\ Len(data) = d.size
  BY <1>1, <1>3, <1>5, AssembleType DEF Laid
<1>7. ASSUME NEW i \in I PROVE FieldBits(BitsOf(data), d.fields[i]) = bits[i]
  BY <1>1, <1>3, <1>5, FieldKept
<1> HIDE DEF data
<1>8. ASSUME NEW i \in I PROVE JsonConveys(d, x[i], data, i)
  <2> DEFINE f == d.fields[i]
             y == x[i]
             n == Len(d.fields)
  <2>1. MeaningOfJson(d.main, n, data)[i] = Decoded(f, bits[i]) /\ (f.as = "float" <=> d.main = 9)
    BY <1>2, <1>6, <1>7 DEF AllMean, FieldMeans
  <2>2. CASE d.main # 9
    BY <1>3, <2>1, <2>2 DEF JsonConveys
  <2>3. CASE d.main = 9
    <3>1. i = 1 /\ f.width = 16 /\ FieldBits(BitsOf(data), d.fields[1]) = SubSeq(BitsOf(data), 9, 24)
      BY <1>6, <2>3, TwoOctetField
    <3>2. Holds(f, y) /\ f.as = "float"
      BY <2>1, <2>3 DEF CachedAs
    <3>3. AsFloat(y) \in Int /\ InFloat(AsFloat(y))
      BY <3>2, AsFloatNear DEF Holds, InFloat
    <3>4. SubSeq(BitsOf(data), 9, 24) = LowBits(FloatToRaw16(AsFloat(y)), 16)
      BY <1>3, <1>7, <3>1, <3>2 DEF RawBits
    <3> DEFINE a == AsFloat(y)
    <3> HIDE DEF a, y, f
    <3>5. Len(data) = 3
      BY <1>1, <1>6, <2>3
    <3>6. OffByLess(a, data[2], data[3])
      <4>1. SentAsFloat(a, data)
        BY <3>4, <3>5 DEF SentAsFloat, a
      <4> QED
        BY <1>6, <3>3, <4>1, FloatSent DEF a
    <3>7. JsonConveys(d, y, data, i)
      BY <2>3, <3>6, Zenon DEF JsonConveys, a
    <3> QED
      BY <3>7 DEF y
  <2> QED
    BY <2>2, <2>3
<1> QED
  BY <1>1, <1>4, <1>6, <1>8

\* A text the documents allow is a complete one.
LEMMA AllowedComplete ==
    ASSUME NEW d \in JsonDpts, AsInstalled(d), NEW v \in UserValues(d), Allows(d, 0, v)
    PROVE  \E x : Complete(d, v, x)
<1> DEFINE I == DOMAIN d.fields
           x == [i \in I |-> Amount(d, v.value[d.fields[i].name].value)]
<1>1. d.kind = "json" /\ d.main \in {6, 8, 9, 10, 11, 18, 21, 23} /\ AllMean(d)
  BY InstalledMeans DEF AsInstalled
<1>2. /\ v.type = "json" /\ DOMAIN v.value = {d.fields[i].name : i \in I}
      /\ \A n \in DOMAIN v.value : TypicalMember(d.main, v.value[n])
  BY <1>1 DEF Allows, Typical
<1>3. FieldsOf(d, 0) = I
  BY <1>1 DEF FieldsOf
<1>4. ASSUME NEW i \in I
      PROVE  Tells(d.fields[i], v.value[d.fields[i].name], x[i]) /\ Holds(d.fields[i], x[i])
  <2> DEFINE f == d.fields[i]
             m == v.value[f.name]
             y == Amount(d, m.value)
  <2>1. f.name \in DOMAIN v.value
    BY <1>2
  <2>2. m.type = "number" /\ (d.main # 9 => m.value[2] = 0)
    <3>1. TypicalMember(d.main, m)
      BY <1>2, <2>1
    <3> HIDE DEF m
    <3> QED
      BY <1>1, <3>1 DEF TypicalMember
  <2>3. m.value \in Int \X (0 .. 99)
    <3>1. JsonInput(f, m)
      BY <1>2, <2>1, UserValuesAssumption
    <3> HIDE DEF f, m
    <3> QED
      BY <2>2, <3>1 DEF JsonInput
  <2>4. FieldMeans(d, i) /\ (f.as = "float" <=> d.main = 9)
    BY <1>1 DEF AllMean, FieldMeans
  <2>5. x[i] = y
    OBVIOUS
  <2>6. y \in Said(d, i, v)
    <3>1. m # Null /\ m.type # "text"
      BY <2>2 DEF Null
    <3>2. m \in {v.value[n] : n \in {f.name} \cap DOMAIN v.value} \ {Null}
      BY <2>1, <3>1
    <3>3. Said(d, i, v) = {IF z.type = "text" THEN z.value ELSE Amount(d, z.value) :
                              z \in {v.value[n] : n \in {f.name} \cap DOMAIN v.value} \ {Null}}
      BY <1>1, <1>2 DEF Said
    <3> HIDE DEF m
    <3> QED
      BY <3>1, <3>2, <3>3
  <2>7. y \in AllowedJson(d.main, i)
    <3>1. Possible(d, i, y)
      BY <1>3, <2>6 DEF Allows
    <3>2. d.kind # "raw" /\ d.kind # "wb" /\ d.main # 16
      BY <1>1
    <3> HIDE DEF y
    <3> QED
      BY <3>1, <3>2 DEF Possible
  <2>8. Holds(f, y)
    BY <2>4, <2>7 DEF FieldMeans
  <2> HIDE DEF x, f, m
  <2>9. Tells(f, m, y)
    <3>1. m.value[1] \in Int /\ m.value[2] \in 0 .. 99 /\ m.value = <<m.value[1], m.value[2]>>
      BY <2>3
    <3>2. CASE d.main = 9
      BY <2>2, <2>4, <3>1, <3>2 DEF Tells, Amount
    <3>3. CASE d.main # 9
      <4>1. y = m.value[1] /\ m.value = <<y, 0>>
        BY <2>2, <3>1, <3>3 DEF Amount
      <4> HIDE DEF y
      <4> QED
        BY <2>2, <2>4, <3>1, <3>3, <4>1 DEF Tells
    <3> QED
      BY <3>2, <3>3
  <2> QED
    BY <2>5, <2>8, <2>9 DEF f, m
<1> HIDE DEF x
<1>5. Complete(d, v, x)
  BY <1>2, <1>4 DEF Complete
<1> QED
  BY <1>5

\* What the object shows after a telegram: the numbers that the payload means.
LEMMA InstalledRead ==
    ASSUME NEW o, AsInstalled(o.dpt), FromBus(o)
    PROVE  /\ o.last \in Seq(ByteSet) /\ Len(o.last) = o.dpt.size /\ DOMAIN o.cached = DOMAIN o.dpt.fields
           /\ DOMAIN o.shown = {1}
           /\ \E x : /\ Complete(o.dpt, o.shown[1], x)
                     /\ \A i \in DOMAIN o.dpt.fields : x[i] = Meaning(o.dpt, o.last)[i]
<1> DEFINE d == o.dpt
           p == o.last
           c == o.cached
           I == DOMAIN d.fields
           x == [i \in I |-> Decoded(d.fields[i], FieldBits(BitsOf(p), d.fields[i]))]
           v == JsonToMqtt(d, c)
<1>1. d.kind = "json" /\ AllMean(d) /\ (\A i, j \in I : d.fields[i].name = d.fields[j].name => i = j)
  BY InstalledMeans DEF AsInstalled
<1>2. p \in Seq(ByteSet)
  BY SameOctets DEF FromBus, Payloads
<1>3. c \in JsonFromKnx(d, p) /\ o.shown = <<v>>
  BY <1>1 DEF FromBus, DptFromKnx, DptToMqtt
<1>4. Len(p) = d.size /\ c = [i \in I |-> FieldValue(d.fields[i], FieldBits(BitsOf(p), d.fields[i]))]
  BY <1>3 DEF JsonFromKnx
<1>5. DOMAIN c = I
  BY <1>4
<1>6. DOMAIN o.shown = {1} /\ o.shown[1] = v
  <2> HIDE DEF v
  <2> QED
    BY <1>3
<1>7. /\ v.type = "json" /\ DOMAIN v.value = {d.fields[i].name : i \in I}
      /\ \A n \in {d.fields[i].name : i \in I} : v.value[n] = c[CHOOSE i \in I : d.fields[i].name = n]
  BY DEF JsonToMqtt
<1> HIDE DEF v
<1>8. ASSUME NEW i \in I
      PROVE  /\ x[i] = Meaning(d, p)[i]
             /\ Tells(d.fields[i], v.value[d.fields[i].name], x[i]) /\ Holds(d.fields[i], x[i])
  <2> DEFINE f == d.fields[i]
             y == x[i]
             bits == FieldBits(BitsOf(p), f)
             m == v.value[f.name]
             n == Len(d.fields)
  <2>1. FieldMeans(d, i)
    BY <1>1 DEF AllMean
  <2>2. y = Decoded(f, bits)
    OBVIOUS
  <2>3. Numeric(f) /\ Holds(f, Decoded(f, bits)) /\ MeaningOfJson(d.main, n, p)[i] = Decoded(f, bits)
    BY <1>2, <1>4, <2>1 DEF FieldMeans
  <2>4. Meaning(d, p)[i] = y
    BY <1>1, <2>2, <2>3 DEF Meaning
  <2>5. (CHOOSE j \in I : d.fields[j].name = f.name) = i
    BY <1>1
  <2>6. m = c[i]
    BY <1>7, <2>5, ZenonT(30)
  <2>7. c[i] = FieldValue(f, bits)
    BY <1>4
  <2> HIDE DEF f, y, bits, m
  <2>8. FieldValue(f, bits) = MemberFor(f, y)
    BY <2>2, <2>3, FieldShown
  <2>9. Holds(f, y)
    BY <2>2, <2>3
  <2>10. Tells(f, MemberFor(f, y), y)
    BY <2>3, <2>9, ShownWritten
  <2>11. Tells(f, m, y)
    BY <2>6, <2>7, <2>8, <2>10
  <2> QED
    BY <2>4, <2>9, <2>11 DEF f, y, m
<1> HIDE DEF x
<1>9. Complete(d, v, x)
  BY <1>7, <1>8 DEF Complete
<1> QED
  BY <1>2, <1>4, <1>5, <1>6, <1>8, <1>9

\* The text that is shown means what the payload does.
LEMMA InstalledShows ==
    ASSUME NEW o, AsInstalled(o.dpt), FromBus(o)
    PROVE  ShowsLast(o)
<1> DEFINE d == o.dpt
           v == o.shown[1]
<1>1. d.kind = "json" /\ d.size = LengthOfJson(d.main)
  BY DEF AsInstalled
<1>2. Len(o.last) = d.size
  BY InstalledRead
<1>3. PICK x : Complete(d, v, x) /\ \A i \in DOMAIN d.fields : x[i] = Meaning(d, o.last)[i]
  BY InstalledRead
<1> HIDE DEF v
<1>4. \A i \in DOMAIN d.fields : Said(d, i, v) = {Meaning(d, o.last)[i]}
  BY <1>3, CompleteSaid
<1> QED
  BY <1>1, <1>2, <1>4 DEF ShowsLast, v

\* It can be set again.
LEMMA InstalledAgain ==
    ASSUME NEW o, AsInstalled(o.dpt), FromBus(o), NEW i \in Controls(o.dpt)
    PROVE  SetAgain(o, i)
<1> DEFINE d == o.dpt
           v == o.shown[1]
           I == DOMAIN d.fields
<1>1. d.kind = "json"
  BY DEF AsInstalled
<1>2. i = 1 /\ i - 1 = 0 /\ FieldsOf(d, 0) = I
  BY <1>1 DEF Controls, FieldsOf
<1>3. DOMAIN o.cached = I
  BY InstalledRead
<1>4. PICK x : Complete(d, v, x) /\ \A k \in I : x[k] = Meaning(d, o.last)[k]
  BY InstalledRead
<1> HIDE DEF v
<1>5. ASSUME NEW r \in DptFromMqtt(d, o.cached, 0, v)
      PROVE  /\ ~ r.throws /\ DptToKnx(d, r.cached) # {}
             /\ \A data \in DptToKnx(d, r.cached), k \in I : Agrees(d, k, data, Meaning(d, o.last)[k])
  <2> DEFINE c == r.cached
  <2>1. ~ r.throws /\ CachedAs(d, c, x)
    BY <1>3, <1>4, CompleteTaken
  <2> HIDE DEF c
  <2>2. PICK data \in Seq(ByteSet) :
            /\ DptToKnx(d, c) = {data} /\ Len(data) = d.size
            /\ \A k \in I : JsonConveys(d, x[k], data, k)
    BY <2>1, InstalledWritten
  <2>3. ASSUME NEW k \in I PROVE Agrees(d, k, data, x[k])
    <3> DEFINE y == x[k]
    <3>1. Holds(d.fields[k], y) /\ JsonConveys(d, y, data, k)
      BY <1>4, <2>2 DEF Complete
    <3> HIDE DEF y
    <3>2. Agrees(d, k, data, y)
      BY <2>2, <3>1, JsonAgrees
    <3> QED
      BY <3>2 DEF y
  <2> QED
    BY <1>4, <2>1, <2>2, <2>3 DEF c
<1> QED
  BY <1>2, <1>5 DEF SetAgain, v

\* A text the documents allow is taken, whatever was cached.
LEMMA InstalledAccepts ==
    ASSUME NEW d \in JsonDpts, AsInstalled(d), NEW c, DOMAIN c = DOMAIN d.fields,
           NEW v \in UserValues(d), Allows(d, 0, v)
    PROVE  Accepted(d, c, 0, v)
<1>1. PICK x : Complete(d, v, x)
  BY AllowedComplete
<1>2. ASSUME NEW r \in DptFromMqtt(d, c, 0, v)
      PROVE  ~ r.throws /\ \E data \in DptToKnx(d, r.cached) : SetPayload(DefaultTpdu, data) # {}
  <2> DEFINE e == r.cached
  <2>1. ~ r.throws /\ CachedAs(d, e, x)
    BY <1>1, CompleteTaken
  <2> HIDE DEF e
  <2>2. d.size \in 1 .. 15 /\ \E data \in Seq(ByteSet) : DptToKnx(d, e) = {data} /\ Len(data) = d.size
    BY <2>1, InstalledWritten
  <2>3. PICK data \in Seq(ByteSet) : DptToKnx(d, e) = {data} /\ Len(data) = d.size
    BY <2>2
  <2>4. SetPayload(DefaultTpdu, data) # {}
    BY <2>2, <2>3 DEF SetPayload, MaxPayloadSize
  <2> QED
    BY <2>1, <2>3, <2>4 DEF e
<1> QED
  BY <1>2 DEF Accepted

\* A text as it was sent, for an object of JSON as installed.
LEMMA InstalledBrings ==
    ASSUME NEW d \in JsonDpts, AsInstalled(d), NEW p, SentBy(d, p)
    PROVE  Brings(d, p.origin.index, p.origin.value, PayloadOn(p))
<1> DEFINE k == p.origin.index
           v == p.origin.value
           q == PayloadOn(p)
           I == DOMAIN d.fields
<1>0. d.kind = "json"
  BY DEF AsInstalled
<1>1. v \in UserValues(d) /\ k \in Int /\ k + 1 \in Controls(d)
  BY DEF SentBy
<1>2. k = 0
  BY <1>0, <1>1 DEF Controls
<1>3. PICK c : CachedTyped(d, c) /\ \E r \in DptFromMqtt(d, c, k, v) :
          \E data \in DptToKnx(d, r.cached) : \E u \in SetPayload(DataTpdu(GroupValueWrite), data) : p.octets = GetRaw(u)
  BY DEF SentBy
<1>4. PICK r \in DptFromMqtt(d, c, k, v) :
          \E data \in DptToKnx(d, r.cached) : \E u \in SetPayload(DataTpdu(GroupValueWrite), data) : p.octets = GetRaw(u)
  BY <1>3
<1>5. PICK data \in DptToKnx(d, r.cached) : \E u \in SetPayload(DataTpdu(GroupValueWrite), data) : p.octets = GetRaw(u)
  BY <1>4
<1>6. PICK u \in SetPayload(DataTpdu(GroupValueWrite), data) : p.octets = GetRaw(u)
  BY <1>5
<1>7. DOMAIN c = I
  BY <1>0, <1>3 DEF CachedTyped, JsonTyped
<1> HIDE DEF k, v, q
<1> SUFFICES ASSUME Allows(d, 0, v) PROVE \A i \in FieldsOf(d, 0) : \A y \in Said(d, i, v) : Agrees(d, i, q, y)
  BY <1>2 DEF Brings, k, v, q
<1>8. PICK x : Complete(d, v, x)
  BY <1>1, AllowedComplete
<1>9. r \in DptFromMqtt(d, c, 0, v)
  BY <1>2, <1>4
<1>10. CachedAs(d, r.cached, x)
  BY <1>7, <1>8, <1>9, CompleteTaken
<1> DEFINE e == r.cached
<1>11. CachedAs(d, e, x) /\ data \in DptToKnx(d, e)
  BY <1>5, <1>10
<1> HIDE DEF e
<1>12. PICK sent \in Seq(ByteSet) :
           /\ DptToKnx(d, e) = {sent} /\ Len(sent) = d.size
           /\ \A i \in I : JsonConveys(d, x[i], sent, i)
  BY <1>11, InstalledWritten
<1>13. data = sent
  BY <1>11, <1>12
<1>14. data \in Seq(ByteSet) /\ Len(data) = d.size /\ \A i \in I : JsonConveys(d, x[i], data, i)
  BY <1>12, <1>13
<1>15. q = SixBits(data)
  BY <1>6, <1>14, PayloadSent DEF q
<1>16. /\ MeaningOfJson(d.main, Len(d.fields), q) = MeaningOfJson(d.main, Len(d.fields), data)
       /\ d.main = 9 => q[2] = data[2]
  <2>1. q = [j \in DOMAIN data |-> IF j = 1 THEN data[j] % 64 ELSE data[j]]
    BY <1>15 DEF SixBits
  <2> QED
    BY <1>14, <2>1, JsonSixBits
<1>17. ASSUME NEW i \in I PROVE Said(d, i, v) = {x[i]} /\ Agrees(d, i, q, x[i])
  <2> DEFINE y == x[i]
  <2>1. Said(d, i, v) = {y} /\ Holds(d.fields[i], y) /\ JsonConveys(d, y, data, i)
    <3>1. Said(d, i, v) = {y}
      BY <1>8, CompleteSaid
    <3>2. Holds(d.fields[i], y)
      BY <1>8, Zenon DEF Complete
    <3>3. JsonConveys(d, y, data, i)
      BY <1>14
    <3> QED
      BY <3>1, <3>2, <3>3
  <2> HIDE DEF y
  <2>2. Agrees(d, i, q, y)
    BY <1>14, <1>16, <2>1, JsonAgrees
  <2> QED
    BY <2>1, <2>2 DEF y
<1>18. FieldsOf(d, 0) = I
  BY <1>0 DEF FieldsOf
<1> QED
  BY <1>17, <1>18

-----------------------------------------------------------------------------
(* The results: what the objects exchange                                  *)

\* The objects of the classes, of raw octets and of JSON as installed, and the
\* installations of such objects.
Understood == {a \in DOMAIN objects : objects[a].dpt.kind # "json" \/ AsInstalled(objects[a].dpt)}
AllUnderstood == Understood = DOMAIN objects

\* Such an object is of a class, of raw octets or of JSON.
LEMMA UnderstoodKinds ==
    ASSUME Installed, NEW a \in Understood
    PROVE  \/ objects[a].dpt \in WbClasses
           \/ objects[a].dpt = Raw
           \/ objects[a].dpt \in JsonDpts /\ AsInstalled(objects[a].dpt) /\ objects[a].dpt.kind = "json"
<1> DEFINE d == objects[a].dpt
<1>1. d \in Dpts \cup JsonDpts /\ (d.kind # "json" \/ AsInstalled(d))
  BY ObjectsKnown DEF Understood
<1> HIDE DEF d
<1>2. CASE d.kind # "json"
  BY <1>1, <1>2, Kinds DEF d
<1>3. CASE d.kind = "json"
  BY <1>1, <1>3, Kinds DEF d
<1> QED
  BY <1>2, <1>3

\* What was read from the bus is shown and can be set again.
LEMMA UnderstoodFromBus ==
    ASSUME Installed, Traffic, NEW a \in Understood, objects[a].last # <<>>
    PROVE  ShowsLast(objects[a]) /\ \A i \in DOMAIN objects[a].shown : SetAgain(objects[a], i)
<1> DEFINE o == objects[a]
<1>1. FromBus(o) /\ DOMAIN o.shown = Controls(o.dpt)
  BY DEF Traffic, Understood, ObjectTyped
<1>2. o.dpt \in WbClasses \/ o.dpt = Raw \/ AsInstalled(o.dpt)
  BY UnderstoodKinds
<1> HIDE DEF o
<1>3. ShowsLast(o)
  BY <1>1, <1>2, ClassShows, RawShowsLast, InstalledShows
<1>4. ASSUME NEW i \in DOMAIN o.shown PROVE SetAgain(o, i)
  BY <1>1, <1>2, ClassAgain, RawAgain, InstalledAgain
<1> QED
  BY <1>3, <1>4 DEF o

\* An object's controls show what the payload of its last telegram means, all
\* fields of it, whatever they showed before and whatever users had set
\* (mqtt.cpp:75-108, dpt*.cpp).
THEOREM ShownIsBusAlways ==
    Spec => [](/\ \A a \in Understood : objects[a].last # <<>> => ShowsLast(objects[a])
               /\ AllUnderstood => ShownIsBus)
<1>1. Installed /\ Traffic => /\ \A a \in Understood : objects[a].last # <<>> => ShowsLast(objects[a])
                              /\ AllUnderstood => ShownIsBus
  BY UnderstoodFromBus DEF AllUnderstood, ShownIsBus
<1> QED
  BY <1>1, TrafficAlways, PTL

\* What the controls show of a telegram is accepted when it is set, and means on
\* the bus what the devices had sent (mqtt.cpp:37-70, dpt*.cpp).
THEOREM ShownUsableAlways ==
    Spec => [](/\ \A a \in Understood : objects[a].last # <<>> => \A i \in DOMAIN objects[a].shown : SetAgain(objects[a], i)
               /\ AllUnderstood => ShownUsable)
<1>1. Installed /\ Traffic =>
          /\ \A a \in Understood : objects[a].last # <<>> => \A i \in DOMAIN objects[a].shown : SetAgain(objects[a], i)
          /\ AllUnderstood => ShownUsable
  BY UnderstoodFromBus DEF AllUnderstood, ShownUsable
<1> QED
  BY <1>1, TrafficAlways, PTL

\* A value the documents allow is taken.
LEMMA UnderstoodAccepts ==
    ASSUME Installed, Traffic, NEW a \in Understood, NEW v \in UserValues(objects[a].dpt), NEW i \in Controls(objects[a].dpt),
           Allows(objects[a].dpt, i - 1, v)
    PROVE  Accepted(objects[a].dpt, objects[a].cached, i - 1, v)
<1> DEFINE d == objects[a].dpt
           c == objects[a].cached
<1>1. CachedTyped(d, c) /\ (d \in WbClasses \/ d = Raw \/ (d \in JsonDpts /\ AsInstalled(d) /\ d.kind = "json"))
  BY UnderstoodKinds DEF Traffic, Understood, ObjectTyped
<1> HIDE DEF d, c
<1>2. v \in UserValues(d) /\ i \in Controls(d) /\ Allows(d, i - 1, v)
  BY DEF d
<1>3. CASE d \in WbClasses
  <2>a. ClassMade(d) /\ d.kind = "wb"
    BY <1>3, ClassesMade DEF ClassMade
  <2>1. d \in Dpts \ {Raw}
    BY <1>3, <2>a DEF Dpts, WbClasses, Raw
  <2>2. WbTyped(d, c)
    BY <1>1, <2>a DEF CachedTyped
  <2>3. \A j \in DOMAIN d.fields : Input(d.fields[j], v)
    BY <1>2, <2>1, UserValuesAssumption
  <2>4. Accepted(d, c, i - 1, v)
    BY <1>2, <1>3, <2>2, <2>3, ClassAccepts
  <2> QED
    BY <2>4 DEF d, c
<1>4. CASE d = Raw
  <2>1. i - 1 = 0
    BY <1>2, <1>4 DEF Controls, Raw
  <2>2. Accepted(d, c, 0, v)
    BY <1>2, <1>4, <2>1, RawAccepts
  <2> QED
    BY <2>1, <2>2 DEF d, c
<1>5. CASE d \in JsonDpts /\ AsInstalled(d) /\ d.kind = "json"
  <2>1. i - 1 = 0
    BY <1>2, <1>5 DEF Controls
  <2>2. DOMAIN c = DOMAIN d.fields
    BY <1>1, <1>5 DEF CachedTyped, JsonTyped
  <2>3. Accepted(d, c, 0, v)
    BY <1>2, <1>5, <2>1, <2>2, InstalledAccepts
  <2> QED
    BY <2>1, <2>3 DEF d, c
<1> QED
  BY <1>1, <1>3, <1>4, <1>5

\* The values an object's controls take.
TakesAll(a) ==
    \A v \in UserValues(objects[a].dpt), i \in Controls(objects[a].dpt) :
        Allows(objects[a].dpt, i - 1, v) => Accepted(objects[a].dpt, objects[a].cached, i - 1, v)

\* Whatever was set, refused or received before, an object takes every value the
\* documents allow and has octets for it that fit into a telegram (dpt*.cpp,
\* mqtt.cpp:37-70, knxtelegramtpdu.cpp).
THEOREM ValuesAcceptedAlways == Spec => []((\A a \in Understood : TakesAll(a)) /\ (AllUnderstood => ValuesAccepted))
<1>1. Installed /\ Traffic => (\A a \in Understood : TakesAll(a)) /\ (AllUnderstood => ValuesAccepted)
  BY UnderstoodAccepts DEF TakesAll, AllUnderstood, ValuesAccepted
<1> QED
  BY <1>1, TrafficAlways, PTL

\* What was sent to an object for a control.
Arrives(p) == Brings(objects[p.dst].dpt, p.origin.index, p.origin.value, PayloadOn(p))

\* What was sent for a control arrives.
LEMMA UnderstoodBrings ==
    ASSUME Installed, Traffic, NEW p \in bus, p.origin.by = "control", p.dst \in Understood
    PROVE  Arrives(p)
<1> DEFINE d == objects[p.dst].dpt
<1>1. SentBy(d, p)
  BY DEF Traffic, SentTo
<1>2. d \in WbClasses \/ d = Raw \/ (d \in JsonDpts /\ AsInstalled(d))
  BY UnderstoodKinds
<1> HIDE DEF d
<1>3. Brings(d, p.origin.index, p.origin.value, PayloadOn(p))
  BY <1>1, <1>2, ClassBrings, RawBrings, InstalledBrings
<1> QED
  BY <1>3 DEF Arrives, d

\* A value that the documents allow reaches the bus: what a telegram sent for a
\* control means to the devices is what the user had set, also when the object's
\* other fields hold what a refused text left there (dpt*.cpp, datapointutils.cpp,
\* knxtelegramtpdu.cpp).
THEOREM UserValueArrivesAlways ==
    Spec => [](/\ \A p \in bus : p.origin.by = "control" /\ p.dst \in Understood => Arrives(p)
               /\ AllUnderstood => UserValueArrives)
<1>1. ASSUME Installed, Traffic, NEW p \in bus, p.origin.by = "control"
      PROVE  p.dst \in DOMAIN objects
  BY <1>1 DEF Traffic, SentTo
<1>2. Installed /\ Traffic => /\ \A p \in bus : p.origin.by = "control" /\ p.dst \in Understood => Arrives(p)
                              /\ AllUnderstood => UserValueArrives
  BY <1>1, UnderstoodBrings DEF AllUnderstood, UserValueArrives, Arrives
<1> QED
  BY <1>2, TrafficAlways, PTL
=============================================================================
