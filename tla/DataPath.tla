------------------------------ MODULE DataPath ------------------------------
(***************************************************************************)
(* What happens to addresses and values on their way through the program:  *)
(* an export of ETS becomes a configuration, the configuration the group   *)
(* objects, and then values go from the users' controls and messages to    *)
(* the bus and from the bus to the controls and the legacy device's text.  *)
(* The threads and the connection are the subject of other modules; here   *)
(* a notification is one step, knxd a set of packets.                      *)
(***************************************************************************)
EXTENDS EtsConfig, KnxConverter, DatapointFormats

CONSTANTS
    Exports,          \* what the ETS tool may read
    Configurations,   \* what users may write themselves
    UserValues(_),    \* what users set an object's controls to, by data point
    DevicePayloads(_), \* what devices send to it
    DevicePackets,    \* other packets of devices
    Messages,         \* what users write to the legacy device
    Frames,           \* telegrams to write as frames
    Own,              \* the source knxd gives the program's telegrams
    MaxBus,           \* bound: packets in knxd
    MaxObjects        \* bound: objects of an installation whose traffic is explored

OctetStrings == {o \in Seq(Octets) : o # <<>>}

\* The packets of devices are not taken for messages or events.
ASSUME DevicePacketsAssumption ==
    \A p \in DevicePackets : p.origin.by = "device" /\ p.dst \in EibAddresses /\ p.octets \in OctetStrings

ASSUME DevicePayloadsAssumption == \A d \in Dpts \cup JsonDpts : DevicePayloads(d) \subseteq Seq(Octets)

ASSUME UserValuesAssumption ==
    /\ \A v \in UserValues(Raw) : v.type = "words" => v.value \in Seq(WordValues)
    /\ \A d \in Dpts \ {Raw} : \A v \in UserValues(d), i \in DOMAIN d.fields : Input(d.fields[i], v)
    /\ \A d \in JsonDpts : \A v \in UserValues(d), i \in DOMAIN d.fields :
           v.type = "json" /\ d.fields[i].name \in DOMAIN v.value => JsonInput(d.fields[i], v.value[d.fields[i].name])

\* The elements the tool reads, by their places in the export.
Places(e) == UNION {UNION {{<<k, j, i>> : i \in 0 .. Len(e[k][j].children)} : j \in DOMAIN e[k]} : k \in DOMAIN e}
ElementAt(e, p) == IF p[3] = 0 THEN e[p[1]][p[2]] ELSE e[p[1]][p[2]].children[p[3]]

\* ETS gives an address once; one of hexadecimal digits is read as 0/0/0.
ASSUME ExportsAssumption ==
    \A e \in Exports :
        /\ IsExport(e)
        /\ \A p, q \in Places(e) : ElementAt(e, p).tag = "GroupAddress" /\ ElementAt(e, q).tag = "GroupAddress" =>
               \A a \in GroupAddressOf(ElementAt(e, p).address) \cap GroupAddressOf(ElementAt(e, q).address) :
                   p = q \/ a = GroupAddress(0, 0, 0)

ASSUME ConfigurationsAssumption ==
    \A c \in Configurations :
        /\ IsSequence(c.devices)
        /\ \A k \in DOMAIN c.devices :
               /\ IsSequence(c.devices[k].controls)
               /\ \A control \in {c.devices[k].controls[i] : i \in DOMAIN c.devices[k].controls} :
                      control.address \in Seq(WordValues) /\ control.type.main \in Nat /\ control.type.sub \subseteq Nat

ASSUME MessagesAssumption ==
    \A m \in Messages :
        m.group \in BOOLEAN /\ m.dst \in Seq(WordValues) /\ m.apci.number \in WordValues /\ m.data \in Seq(WordValues)

\* Of a data telegram the control code is what its constructor sets.
ASSUME FramesAssumption ==
    \A t \in Frames : t \in Telegrams /\ (IsData(t.tpdu) => t.tpdu.control = Connect)

VARIABLES
    phase,      \* "import", "configure", "run"; the ends "rejected", "stopped"; "line"
    export,     \* <<>> if the user wrote the configuration
    config,
    objects,    \* GroupObjectList: from addresses to objects
    bus,        \* the packets on their way through knxd
    published,  \* the text of the legacy device's control
    heard,      \* what the legacy device was last told of: an event or a packet
    line        \* a telegram and its frame

vars == <<phase, export, config, objects, bus, published, heard, line>>

\* A packet remembers why it was sent, an object the payload it shows; the code
\* sees neither.
Packet(src, dst, octets, origin) == [src |-> src, dst |-> dst, octets |-> octets, origin |-> origin]
Nothing == [origin |-> [by |-> "nobody"]]
Event   == [origin |-> [by |-> "event"]]
Request == [by |-> "request"]
Device  == [by |-> "device"]
Control(index, value) == [by |-> "control", index |-> index, value |-> value]
Message(text) == [by |-> "message", text |-> text]

Unknown == [type |-> "unknown", value |-> <<>>]  \* a control's stored value

-----------------------------------------------------------------------------
(* The data point of an object: IDpt                                       *)

InitialCache(d) ==
    CASE d.kind = "raw"  -> <<0>>
      [] d.kind = "wb"   -> Initial(d)
      [] d.kind = "json" -> JsonInitial(d)

Controls(d) == IF d.kind = "wb" THEN DOMAIN d.fields ELSE {1}

NewObject(d) ==
    [dpt |-> d, cached |-> InitialCache(d), shown |-> [i \in Controls(d) |-> Unknown], last |-> <<>>]

DptFromKnx(d, payload) ==
    CASE d.kind = "raw"  -> RawFromKnx(payload)
      [] d.kind = "wb"   -> FromKnx(d, payload)
      [] d.kind = "json" -> JsonFromKnx(d, payload)

DptToMqtt(d, cached) ==
    CASE d.kind = "raw"  -> <<RawToMqtt(cached)>>
      [] d.kind = "wb"   -> ToMqtt(d, cached)
      [] d.kind = "json" -> <<JsonToMqtt(d, cached)>>

Kept(cached, throws) == [cached |-> cached, throws |-> throws]

\* A text that is no JSON object throws before anything is changed.
DptFromMqtt(d, cached, index, v) ==
    CASE d.kind = "wb" /\ FromMqtt(d, cached, index, v) = {} -> {Kept(cached, TRUE)}
      [] d.kind = "wb" /\ FromMqtt(d, cached, index, v) # {} ->
             {Kept(c, FALSE) : c \in FromMqtt(d, cached, index, v)}
      [] d.kind = "raw" /\ index = 0 /\ v.type = "words" -> {RawFromMqtt(v.value)}
      [] d.kind = "json" /\ index = 0 /\ v.type = "json" -> {JsonFromMqtt(d, cached, v.value)}
      [] OTHER -> {Kept(cached, TRUE)}

DptToKnx(d, cached) ==
    CASE d.kind = "raw"  -> {cached}
      [] d.kind = "wb"   -> {ToKnx(d, cached)}
      [] d.kind = "json" -> JsonToKnx(d, cached)

-----------------------------------------------------------------------------
NoConfiguration == [legacy |-> FALSE, devices |-> <<>>]

Init ==
    /\ objects = <<>>
    /\ bus = {}
    /\ published = <<>>
    /\ heard = Nothing
    /\ \/ phase = "import" /\ export \in Exports /\ config = NoConfiguration /\ line = <<>>
       \/ phase = "configure" /\ export = <<>> /\ config \in Configurations /\ line = <<>>
       \/ /\ phase = "line" /\ export = <<>> /\ config = NoConfiguration
          /\ \E t \in Frames : line = [telegram |-> t, octets |-> GetRawTelegram(t), noise |-> FALSE]

\* The tool writes a configuration, or ends with an exception.
Import ==
    /\ phase = "import"
    /\ \/ \E c \in LoadEtsExport(export) : config' = c /\ phase' = "configure"
       \/ LoadEtsExport(export) = {} /\ phase' = "rejected" /\ UNCHANGED config
    /\ UNCHANGED <<export, objects, bus, published, heard, line>>

ConfiguredControls == FlattenSeq([k \in DOMAIN config.devices |-> config.devices[k].controls])

\* AddGroupObject takes no nullptr and no address twice.
ObjectsOf(addresses, dpts) ==
    LET made == {k \in DOMAIN dpts : dpts[k] # NoObject}
    IN  [a \in {addresses[k] : k \in made} |->
            NewObject(dpts[CHOOSE k \in made : addresses[k] = a /\ \A j \in made : addresses[j] = a => k <= j])]

\* A configuration the schema refuses ends the program, and so does an address
\* or a type that throws.
Configure ==
    /\ phase = "configure"
    /\ LET dpts == [k \in DOMAIN ConfiguredControls |-> CreateDatapoint(ConfiguredControls[k].type)]
           addresses == [k \in DOMAIN ConfiguredControls |-> GroupAddressOf(ConfiguredControls[k].address)]
       IN  IF ~ Validate(config) \/ \E k \in DOMAIN dpts : dpts[k] = {} \/ addresses[k] = {}
           THEN phase' = "stopped" /\ UNCHANGED objects
           ELSE /\ phase' = "run"
                /\ objects' = ObjectsOf([k \in DOMAIN dpts |-> GetEibAddress(Only(addresses[k]))],
                                        [k \in DOMAIN dpts |-> Only(dpts[k])])
    /\ UNCHANGED <<export, config, bus, published, heard, line>>

-----------------------------------------------------------------------------
(* To the bus                                                              *)

\* Send of the controller and of the client service: the telegram's octets,
\* {} if SetPayload throws.
Transaction(a, apci, payload, origin) ==
    {Packet(Own, a, GetRaw(u), origin) : u \in SetPayload(DataTpdu(apci), payload)}

\* TKnxGroupObjectController::Notify of a connection, a packet for each object.
ReadRequests == UNION {Transaction(a, GroupValueRead, <<0>>, Request) : a \in DOMAIN objects}

\* TGroupObjectMqtt::MqttNotify for an object without a feedback address: what
\* throws is shown as an error, except that of SetPayload, which leaves MqttNotify.
SetControl(a, index, v) ==
    /\ phase = "run"
    /\ \E r \in DptFromMqtt(objects[a].dpt, objects[a].cached, index, v) :
           LET data == IF r.throws THEN {} ELSE DptToKnx(objects[a].dpt, r.cached)
               sent == UNION {Transaction(a, GroupValueWrite, d, Control(index, v)) : d \in data}
           IN  /\ objects' = [objects EXCEPT ![a].cached = r.cached,
                                             ![a].last = <<>>,
                                             ![a].shown = IF sent = {} THEN @ ELSE [@ EXCEPT ![index + 1] = v]]
               /\ bus' = bus \cup sent
    /\ UNCHANGED <<phase, export, config, published, heard, line>>

\* The handler of the legacy device's control: exceptions are logged, and an
\* individual telegram is not sent.
SendMessage(text) ==
    /\ phase = "run" /\ config.legacy
    /\ bus' = bus \cup {Packet(Own, t.dst, GetRaw(t.tpdu), Message(text)) :
                           t \in {m \in MqttToKnxTelegram(text) : m.group}}
    /\ UNCHANGED <<phase, export, config, objects, published, heard, line>>

-----------------------------------------------------------------------------
(* From the bus                                                            *)

DeviceSends(p) ==
    /\ phase = "run"
    /\ bus' = bus \cup {p}
    /\ UNCHANGED <<phase, export, config, objects, published, heard, line>>

\* TKnxLegacyDevice::Notify
Publish(what, t) ==
    IF config.legacy THEN heard' = what /\ published' = KnxTelegramToMqtt(t)
    ELSE UNCHANGED <<heard, published>>

\* An event goes to the subscribers with a telegram nobody sent.
NotifyEvent(connected) ==
    /\ phase = "run"
    /\ Publish(Event, DefaultTelegram)
    /\ bus' = IF connected THEN bus \cup ReadRequests ELSE bus
    /\ UNCHANGED <<phase, export, config, objects, line>>

Ungrouped(p) ==                  \* fault: the telegram is not made a group telegram
    {Telegram(p.src, p.dst, FALSE, u) : u \in SetRaw(p.octets)}

\* KnxdReceiveProcessing: a group telegram, whatever its octets say.
TelegramOf(p) ==
    {Telegram(p.src, p.dst, TRUE, u) : u \in SetRaw(p.octets)}

\* TGroupObjectMqtt::KnxNotify
Notified(object, tpdu) ==
    IF tpdu.apci \notin {GroupValueWrite, GroupValueResponse} THEN {object}
    ELSE IF DptFromKnx(object.dpt, tpdu.payload) = {} THEN {object}
    ELSE {[object EXCEPT !.cached = c, !.shown = DptToMqtt(object.dpt, c), !.last = tpdu.payload] :
             c \in DptFromKnx(object.dpt, tpdu.payload)}

Receive(p) ==
    /\ bus' = bus \ {p}
    /\ \/ TelegramOf(p) = {} /\ UNCHANGED <<objects, published, heard>>
       \/ \E t \in TelegramOf(p) :
              /\ Publish(p, t)
              /\ IF t.dst \in DOMAIN objects
                 THEN \E o \in Notified(objects[t.dst], t.tpdu) : objects' = [objects EXCEPT ![t.dst] = o]
                 ELSE UNCHANGED objects
    /\ UNCHANGED <<phase, export, config, line>>

\* knxd does not return a telegram of the program, or loses one.
Lose(p) ==
    /\ bus' = bus \ {p}
    /\ UNCHANGED <<phase, export, config, objects, published, heard, line>>

-----------------------------------------------------------------------------
\* One bit of the frame changes on the line.
Flip(octet, i) == IF Bit(octet, i) = 1 THEN octet - 2 ^ i ELSE octet + 2 ^ i

Noise ==
    /\ phase = "line" /\ ~ line.noise
    /\ \E k \in DOMAIN line.octets, i \in 0 .. 7 :
           line' = [line EXCEPT !.octets[k] = Flip(@, i), !.noise = TRUE]
    /\ UNCHANGED <<phase, export, config, objects, bus, published, heard>>

Users ==
    \/ \E a \in DOMAIN objects : \E v \in UserValues(objects[a].dpt), i \in Controls(objects[a].dpt) :
           SetControl(a, i - 1, v)
    \/ \E m \in Messages : SendMessage(m)

Devices ==
    \/ \E a \in DOMAIN objects : \E payload \in DevicePayloads(objects[a].dpt) :
           \E apci \in {GroupValueResponse, GroupValueWrite} :
               \E u \in SetPayload(DataTpdu(apci), payload) :
                   DeviceSends(Packet(Own + 1, a, GetRaw(u), Device))
    \/ config.legacy /\ \E p \in DevicePackets : DeviceSends(p)

Next ==
    \/ Import
    \/ Configure
    \/ Cardinality(bus) < MaxBus /\ Cardinality(DOMAIN objects) <= MaxObjects /\ (Users \/ Devices)
    \/ bus = {} /\ \E connected \in BOOLEAN : NotifyEvent(connected)
    \/ \E p \in bus : Receive(p) \/ Lose(p)
    \/ Noise

Spec == Init /\ [][Next]_vars

-----------------------------------------------------------------------------
(* Properties                                                              *)

\* Every variable has its type: an object caches as many values as its data
\* point has fields, and shows one for each of its controls.
TypeOK ==
    /\ phase \in {"import", "rejected", "configure", "stopped", "run", "line"}
    /\ DOMAIN objects \subseteq EibAddresses
    /\ \A a \in DOMAIN objects :
           /\ objects[a].dpt.kind \in {"raw", "wb", "json"}
           /\ objects[a].dpt.kind # "raw" => DOMAIN objects[a].cached = DOMAIN objects[a].dpt.fields
           /\ DOMAIN objects[a].shown = Controls(objects[a].dpt)
    /\ \A p \in bus : p.dst \in EibAddresses /\ p.octets \in OctetStrings
    /\ heard # Nothing => config.legacy /\ published # <<>>

\* What a configuration of the tool stops at is the schema: every name it lets
\* through has a data point behind it, and every control of the configuration
\* gets its object.
ConfigurationAccepted ==
    /\ phase = "stopped" /\ export # <<>> => ~ Validate(config)
    /\ phase = "run" /\ export # <<>> =>
           \A k \in DOMAIN ConfiguredControls :
               \E a \in DOMAIN objects : GroupAddressOf(ConfiguredControls[k].address) = InitEib(a)

\* ut_etsconfigtool.cpp:53 says of the exports it loads that the schema lets
\* through what the tool writes.  It is false of the names of many types.
ToolNamesValid ==
    phase = "configure" /\ export # <<>> =>
        \A k \in DOMAIN ConfiguredControls : ConfiguredControls[k].type \in SchemaTypes

\* The addresses of an export that carry a type, with the type's numbers.
Typed == {p \in Places(export) : /\ ElementAt(export, p).tag = "GroupAddress"
                                 /\ ElementAt(export, p).dpts \notin {{}, {<<>>}}}

\* A type keeps its main number from ETS to the object: the object exchanges
\* values of that type as controls if it can, else as JSON, and octets if the
\* program knows no such type.
TypeKept ==
    phase = "run" =>
        \A p \in Typed : \A d \in ElementAt(export, p).dpts, a \in GroupAddressOf(ElementAt(export, p).address) :
            GetEibAddress(a) \in DOMAIN objects =>
                LET object == objects[GetEibAddress(a)].dpt
                    main   == Only(d[1])
                IN  IF main \in 1 .. 9 \cup {12, 13, 14, 20} THEN object.kind = "wb" /\ object.main = main
                    ELSE IF main \in DOMAIN Descriptors THEN object.kind = "json" /\ object.main = main
                    ELSE object.kind = "raw"

\* Each group of addresses that ETS has made for one middle group, or for one
\* main group, and no two for the same.
Groups == UNION {{<<k, j>> : j \in 0 .. Len(export[k])} : k \in DOMAIN export}
Children(g) == IF g[2] = 0 THEN export[g[1]] ELSE export[g[1]][g[2]].children
AddressesIn(g) == UNION {GroupAddressOf(Children(g)[i].address) :
                            i \in {c \in DOMAIN Children(g) : Children(g)[c].tag = "GroupAddress"}}
ByLevels ==
    \A g, h \in Groups : \A a \in AddressesIn(g), b \in AddressesIn(h) :
        g = h <=> a.main = b.main /\ (g[2] # 0 => a.middle = b.middle)

\* README.md:94: "each device shall have a unique id".  So it is for an export of
\* two or three levels, and no control is in two devices.
DevicesDistinct ==
    export # <<>> /\ ByLevels =>
        \A d, e \in DOMAIN config.devices : d # e =>
            /\ config.devices[d].id # config.devices[e].id
            /\ \A k \in DOMAIN config.devices[d].controls, l \in DOMAIN config.devices[e].controls :
                   config.devices[d].controls[k].address # config.devices[e].controls[l].address

-----------------------------------------------------------------------------
(* Values and payloads compared by DatapointFormats                        *)

PayloadOn(p) == <<p.octets[2] % 64>> \o SubSeq(p.octets, 3, Len(p.octets))

Meaning(d, payload) ==
    CASE d.kind = "raw"  -> <<payload>>
      [] d.kind = "wb"   -> MeaningOfMqtt(d.main, payload)
      [] d.kind = "json" -> MeaningOfJson(d.main, Len(d.fields), payload)

\* The fields of the types that MeaningOfJson reads, as the installed descriptors
\* place them; only main 21 has several numbers of fields.
FieldAt(as, width, at) == [as |-> as, width |-> width, at |-> at]
FieldsInstalled(main, n) ==
    CASE main = 6  -> <<FieldAt("bit", 1, 8), FieldAt("bit", 1, 9), FieldAt("bit", 1, 10), FieldAt("bit", 1, 11),
                        FieldAt("bit", 1, 12), FieldAt("enum", 3, 13)>>
      [] main = 8  -> <<FieldAt("signed", 16, 8)>>
      [] main = 9  -> <<FieldAt("float", 16, 8)>>
      [] main = 10 -> <<FieldAt("enum", 3, 8), FieldAt("unsigned", 5, 11), FieldAt("unsigned", 6, 18),
                        FieldAt("unsigned", 6, 26)>>
      [] main = 11 -> <<FieldAt("unsigned", 5, 11), FieldAt("unsigned", 4, 20), FieldAt("unsigned", 7, 25)>>
      [] main = 18 -> <<FieldAt("bit", 1, 8), FieldAt("unsigned", 6, 10)>>
      [] main = 21 -> [i \in 1 .. n |-> FieldAt("bit", 1, 15 - n + i)]
      [] main = 23 -> <<FieldAt("enum", 2, 6)>>

AsInstalled(d) ==
    LET fields == FieldsInstalled(d.main, Len(d.fields))
    IN  /\ d.kind = "json" /\ d.main \in {6, 8, 9, 10, 11, 18, 21, 23} /\ d.size = LengthOfJson(d.main)
        /\ d.main = 21 => Len(d.fields) \in 1 .. 8
        /\ DOMAIN d.fields = DOMAIN fields
        /\ \A i \in DOMAIN fields : FieldAt(d.fields[i].as, d.fields[i].width, d.fields[i].at) = fields[i]
        /\ \A i, j \in DOMAIN fields : d.fields[i].name = d.fields[j].name => i = j

\* What a number says of a field: hundredths, or the whole part.
Amount(d, number) ==
    IF d.main = 9 THEN number[1] * 100 + number[2]
    ELSE IF number[1] < 0 /\ number[2] # 0 THEN number[1] + 1 ELSE number[1]

\* What a value says of the field i of a data point: nothing or one thing.
Said(d, i, v) ==
    CASE d.kind = "raw" /\ v.type = "words" ->
             IF \E k \in DOMAIN v.value : v.value[k] \notin {{n} : n \in Octets} THEN {}
             ELSE {[k \in DOMAIN v.value |-> Only(v.value[k])]}
      [] d.kind = "wb" /\ v.type = "bool"   -> {v.value[1]}
      [] d.kind = "wb" /\ v.type = "chars"  -> {IF v.value = <<>> THEN 0 ELSE v.value[1]}
      [] d.kind = "wb" /\ v.type = "number" -> {Amount(d, v.value)}
      [] d.kind = "json" /\ v.type = "json" ->
             {IF m.type = "text" THEN m.value ELSE Amount(d, m.value) :
                 m \in {v.value[n] : n \in {d.fields[i].name} \cap DOMAIN v.value} \ {Null}}
      [] OTHER -> {}

FieldsOf(d, index) == IF d.kind = "wb" THEN {index + 1} ELSE IF d.kind = "json" THEN DOMAIN d.fields ELSE {1}

Possible(d, i, x) ==
    CASE d.kind = "raw" -> Len(x) \in 1 .. 15
      [] d.kind = "wb" -> x \in AllowedMqtt(d.main, i)
      [] d.kind = "json" /\ d.main = 16 -> Len(x) <= 14 /\ \A k \in DOMAIN x : x[k] # 0
      [] OTHER -> x \in AllowedJson(d.main, i)

\* A text, a float, or a number without a fraction (jsondatapoint.md): of half a
\* bit the program sends 1, and it throws for an unsigned number just below zero.
TypicalMember(main, m) ==
    IF main = 16 THEN m.type = "text" ELSE m.type = "number" /\ (main # 9 => m.value[2] = 0)

Typical(d, index, v) ==
    CASE d.kind = "raw" -> v.type = "words"
      [] d.kind = "wb" -> v.type = ControlType(d.main, index + 1)
      [] OTHER -> /\ v.type = "json" /\ DOMAIN v.value = {d.fields[i].name : i \in DOMAIN d.fields}
                  /\ \A n \in DOMAIN v.value : TypicalMember(d.main, v.value[n])

\* A value the documents allow: of the right type, complete and in range.
Allows(d, index, v) ==
    /\ Typical(d, index, v)
    /\ \A i \in FieldsOf(d, index) :
           Said(d, i, v) # {} /\ \A x \in Said(d, i, v) : Possible(d, i, x)

\* The hundredths that a float of JSON, of 24 bits, may differ from what is written.
Slack(d) == IF d.kind = "json" THEN 3 ELSE 0

\* The payload says of field i what was meant: of the first octet of raw data six
\* bits are sent, and a float of two octets is off by one step at most.
Agrees(d, i, payload, x) ==
    CASE d.kind = "raw" -> payload = [x EXCEPT ![1] = @ % 64]
      [] d.kind # "raw" /\ d.main = 9 ->
             LET off  == Meaning(d, payload)[1] - x
                 most == 2 ^ Exponent(payload[2]) + Slack(d)
             IN  off <= most /\ 0 - off <= most
      [] OTHER -> Meaning(d, payload)[i] = x

Brings(d, index, v, payload) ==
    Allows(d, index, v) => \A i \in FieldsOf(d, index) : \A x \in Said(d, i, v) : Agrees(d, i, payload, x)

\* What a user sets a control to is what the devices read from the telegram: for
\* every type, whatever the object's other fields hold and whatever was refused
\* before (dpt*.cpp, dptjson.cpp, datapointutils.cpp, knxtelegramtpdu.cpp).
UserValueArrives ==
    \A p \in bus : p.origin.by = "control" =>
        Brings(objects[p.dst].dpt, p.origin.index, p.origin.value, PayloadOn(p))

Accepted(d, cached, index, v) ==
    \A r \in DptFromMqtt(d, cached, index, v) :
        /\ ~ r.throws
        /\ \E data \in DptToKnx(d, r.cached) : SetPayload(DefaultTpdu, data) # {}

\* No earlier value, refused half-way or not, makes the program refuse a value
\* the documents allow: what a refused text leaves in the cache does no harm.
ValuesAccepted ==
    phase = "run" =>
        \A a \in DOMAIN objects : \A v \in UserValues(objects[a].dpt), i \in Controls(objects[a].dpt) :
            Allows(objects[a].dpt, i - 1, v) => Accepted(objects[a].dpt, objects[a].cached, i - 1, v)

ShowsLast(o) ==
    LET d == o.dpt
    IN  /\ d.kind = "wb" => Len(o.last) = LengthOfMqtt(d.main)
        /\ d.kind = "json" => Len(o.last) = LengthOfJson(d.main)
        /\ \A i \in IF d.kind = "json" THEN DOMAIN d.fields ELSE DOMAIN o.shown :
               Said(d, i, o.shown[IF d.kind = "json" THEN 1 ELSE i]) = {Meaning(d, o.last)[i]}

\* After a telegram of the right length the controls show what its payload means,
\* all fields of it, whatever they showed before; one of another length shows
\* nothing new (mqtt.cpp:75-108).
ShownIsBus == \A a \in DOMAIN objects : objects[a].last # <<>> => ShowsLast(objects[a])

SetAgain(o, i) ==
    \A r \in DptFromMqtt(o.dpt, o.cached, i - 1, o.shown[i]) :
        /\ ~ r.throws /\ DptToKnx(o.dpt, r.cached) # {}
        /\ \A data \in DptToKnx(o.dpt, r.cached), f \in FieldsOf(o.dpt, i - 1) :
               Agrees(o.dpt, f, data, Meaning(o.dpt, o.last)[f])

\* What the controls show may be set again: it is accepted and means on the bus
\* what the devices had sent.
ShownUsable ==
    \A a \in DOMAIN objects : objects[a].last # <<>> => \A i \in DOMAIN objects[a].shown : SetAgain(objects[a], i)

-----------------------------------------------------------------------------
(* Messages and frames                                                     *)

\* README.md:36-55 shows a text with the receiver, the APCI and the data of a
\* message, the first octet of the data left out if there are more.
Shows(shown, text) ==
    LET octets == [k \in DOMAIN text.data |-> Only(text.data[k]) % (IF k = 1 THEN 64 ELSE 256)]
        named == {k \in 1 .. 16 : ApciString[k] = text.apci.name \/ {k - 1} = {n % 16 : n \in text.apci.number}}
    IN  /\ GroupAddressOf(text.dst) = {shown.to.dst.address}
        /\ shown.what \in {ApciString[k] : k \in named}
        /\ shown.data = CASE Len(octets) = 0 -> <<0>> [] Len(octets) = 1 -> octets [] OTHER -> Tail(octets)

\* A message that comes back from the bus is published as it was written.
MessageHeard == heard.origin.by = "message" => Shows(published, heard.origin.text)

\* The legacy device publishes a text for a connection event too, the one of an
\* empty telegram (knxlegacydevice.cpp:81).  A reader can tell it from the text of
\* a telegram by its receiver: knxd delivers group telegrams only.
EventsDistinguishable ==
    heard # Nothing => (heard.origin.by = "event" <=> ~ published.to.dst.group)

\* The frame of a telegram that carries data is read as that telegram, and no frame,
\* whatever it carries, is read with one bit wrong.
FramesRead ==
    line # <<>> =>
        /\ line.noise => SetRawTelegram(line.octets) = {}
        /\ ~line.noise /\ IsData(line.telegram.tpdu) =>
               SetRawTelegram(line.octets) = {line.telegram}

\* ut_knxtelegram.cpp:34 reads the frame of a control telegram.  The code does not
\* read those it writes: their length counts an octet that a control telegram has
\* not (knxtelegram.cpp:106).
ControlFramesRead ==
    line # <<>> /\ ~line.noise /\ ~IsData(line.telegram.tpdu) =>
        SetRawTelegram(line.octets) = {line.telegram}
=============================================================================
