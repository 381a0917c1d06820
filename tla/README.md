# wb-mqtt-knx: TLA+ models and proofs

wb-mqtt-knx connects a KNX bus, reached through the daemon knxd, with the MQTT
conventions of Wiren Board. This directory holds TLA+ modules translated from
its source (`src/src/`), the TLC configurations that check them on small
instances, and TLAPS proofs of what holds for every instance. `PROJECT.json`
lists components, runs, seeded faults ("mutants"), the map from definitions to
source lines, findings, hazards and theorems.

## The system

| component | state | operations | talks to |
|---|---|---|---|
| `TKnxClientService` (knxclientservice.cpp) | `IsStarted`, `IsConnected`, `KnxdConnection`, the client thread, two mutexes | Start, Stop, Send, the thread's loop: connect, notify, receive, disconnect | knxd; notifies its subscribers on its own thread |
| `TKnxGroupObjectController` (knxgroupobjectcontroller.cpp) | the map from group addresses to items: poll and timeout counters, the timeout flag | AddGroupObject, RemoveGroupObject, Notify (tick), Notify (event, telegram), Send | called by the tick thread, the client thread, MQTT; calls the group objects and the client service |
| `TTickTimer` (ticktimer.cpp) | `IsStarted`, its thread | Start, Stop, a notification every 50 ms | the controller |
| `TObserver` (observer.h) | a vector of subscribers, no lock | Subscribe, Unsubscribe, NotifyAllSubscribers | base of the client service and the timer |
| `Configurator` | the JSON configuration | ConfigureObjectController | builder, controller |
| `TGroupObjectMqtt` (knxgroupobject/mqtt.cpp) | a data point, its controls, `DptExchangeMutex` | MqttNotify, KnxNotify, KnxNotifyEvent | MQTT driver, controller |
| `TGroupObjectMqttBuilder` | the MQTT devices | LinkDevice, Create, RemoveUnusedControls, Clear | MQTT driver |
| `TKnxLegacyDevice` | one text control | handler, Notify, Deinit | MQTT driver, client service |
| `TTelegram`, `TTpdu`, `converter`, `TKnxGroupAddress`, `TKnxIndividualAddress` | octets and numbers | encode, decode, to and from text | client service, group objects, legacy device, ETS tool |
| data points (DPT), JSON data points | the values last exchanged | FromKnx, ToKnx, FromMqtt, ToMqtt | the group objects |
| `TDatapointId`, tables of names, schema | none | names to ids, ids to classes | builder, ETS tool |
| `main()` | | configuration, start, the signal handlers' shutdown | all |
| ETS tool (etsconfigtool/) | the configuration it writes | converts an ETS export | the service, through the file |

Four threads meet without a common lock: the client thread, the tick thread,
the MQTT driver's thread and the thread that handles signals. What is hard to
test follows from that: answers that arrive between two statements of the tick
handler, timeouts that fall on the tick of the next poll, a connection that
breaks or is replaced while it is used, Start and Stop from several threads, a
Stop that gives up waiting, errors published by two threads. Along the path of the
data it is the long chain of conversions, each right by itself: a value refused
half-way that stays in a cache, the sign and the rounding at the limits of a
type, a payload of six bits or less that shares an octet with the APCI, four
tables in two programs that must name the same types. The list, each hazard at its line and with the properties that guard it, is `hazards` in
`PROJECT.json`.

## Modules

| module | what it is |
|---|---|
| `PollContract` | what the controller promises of each object's polls: asked, answered or reported, never forgotten, reported at most once |
| `GroupObjectController` | the controller's map, the two threads that walk it, its properties and inductive invariants |
| `MCGroupObjectController` | small configurations for TLC |
| `GroupObjectController_proofs` | TLAPS proofs for all configurations |
| `KnxEventSource` | what the subscribers of the client service may rely on: one notification at a time, telegrams and errors only after `KnxdSocketConnected` |
| `KnxClientService` | Start, Stop, Send, the client thread and knxd as its environment |
| `MCKnxClientService` | threads, callers, senders and connections for TLC |
| `KnxClientService_proofs` | TLAPS proofs for any number of threads |
| `Gateway` | the program's life: main(), the subscriber lists, the tick timer, the shutdown; uses `KnxEventSource` for the client thread's events |
| `MCGateway`, `Gateway_proofs` | two devices for TLC; proofs for any devices |
| `MqttGroupObject` | one group object between its MQTT controls and the bus, on two threads |
| `MCMqttGroupObject`, `MqttGroupObject_proofs` | a data point of two fields for TLC, on two controls or in one text; proofs for any fields, values and texts |
| `KnxAddress`, `KnxTelegram`, `KnxConverter` | addresses, TPDU and frame, the legacy device's texts, as operators |
| `Bits`, `Datapoints`, `JsonDatapoint` | payloads as strings of bits; every data point class by its fields, in both directions |
| `DatapointId`, `DatapointCatalog` | ids and names; the tables of the tool, the schema and the service |
| `EtsConfig` | the ETS tool's conversion and the schema's check |
| `DatapointFormats` | the reference: what a payload means by the documents, in octet arithmetic |
| `DataPath` | composes these: from an export to the objects, values and telegrams in both directions |
| `MCDataPath` | descriptors, exports, values, payloads, messages and frames for TLC |
| `Datapoints_proofs` | induction; numbers and bits; what each class of data points reads and writes, compared with its document |
| `KnxConverter_proofs`, `EtsConfig_proofs`, `DataPath_proofs` | addresses, TPDUs, frames and messages; ids, tables, JSON data points and the tool's conversion; the theorems of `DataPath` |

The first two components meet in `KnxEventSource`: the client service is shown to
implement it, and it is what the guards of `ConnectionEvent` and
`ReceiveTelegram` assume in `GroupObjectController` (an error only after a
connection, a telegram only while connected, one notification at a time).

### GroupObjectController

An object stands for its list item (`Configurator` creates one object for each
call). Registration actions happen before `StartServices`, as in `main()`.
Afterwards the tick thread (`tickPc`, `tickIt`) visits the entries in address
order: `CheckTimeout`, `Expire`, `ReportTimeout`, `CheckPoll`, `SendPoll`,
`ArmTimer` are one access each to what the client thread may touch in between,
that is `StartTimeoutTimer` (an atomic) and the object's error. `NextVisit` is
`++iterator`. The client thread (`workPc`, `workIt`) notifies connection events
entry by entry and handles a telegram in one step, since all it shares is one
store. `poll` and `elapsed` are history variables: the fate of the last poll and
the ticks since. The read requests sent when the connection comes up are left
out: they do not touch the counters. A telegram to an unknown address is a step
that changes nothing and is left out too.

### KnxClientService

Client threads have identities of their own, so that "at most one" is a
property and not a shape of the model. A program point precedes each access to
an atomic, to a mutex or to knxd; a lock is taken in one step and the work under
it, with the unlock, is the next, so that an unprotected access would show. A
sender keeps the connection it read in `using` until `EIBSendGroup` returns.
`NotifyReturns` and `NotifyThrows` end a notification; in between the thread may
call Send itself. Connections are identities with a state (closed, open,
broken); knxd breaks all open ones when it stops. `MayHang` says whether a call
into knxd or into a subscriber may outlast the six seconds of Stop; `terminated`
is std::terminate. Calls that find nothing to do (Start of a started service,
Send on a stopped one) change nothing and are not steps.

### Gateway

`mainPc` is main()'s program point: set-up, configuration (`LinkDevice` once for
each device, in any order), the two starts, `serve`, and then the steps of the
second signal handler of main.cpp, one for each of its statements. A list of
subscribers is the vector of `TObserver`: `With` appends as Subscribe does,
`Without` moves what follows the erased element up. A walk takes the end of the
vector once, as the range-for does (`tickEnd`, `clientEnd`), and goes on when the
vector has become shorter: `NotifyErased` is the undefined access, with the two
outcomes a build can have. The client thread's events come from
`Source == INSTANCE KnxEventSource`; its way to them is in `KnxClientService`.
`ControllerThrows` is an exception out of a group object, which ends the walk.
`Hang` puts a thread into a call to knxd or the broker that never returns;
`JoinTimeout` is the six seconds of the client's Stop, `Watchdog` the sixty of the
signal handling. `owed` is a history variable: a telegram is being notified and
the legacy device, subscribed, has not had it yet.

### MqttGroupObject

Each statement of MqttNotify and KnxNotify that touches the data point, the mutex,
a control or the bus is a step, between the lock and its release too, so that the
properties rest on the mutex and not on the grain of the model. The data point is
the function `cached` from fields to values; `Wire` says what of a field's value a
telegram keeps (ToKnx, then FromKnx), for instance the low bits only. Data points of
the classes have one control for each field (DPT 2 and 3 have two), JSON and raw data
points one `text` for all: `Controls` and `Group` say which control shows what.
The bus is the queue of telegrams on their way to the client thread; telegrams of
other devices join it at any time, and the program's own come back or do not (`Send`
chooses; `last` is none after one that did not).

Of a text FromMqtt may take some members and then throw (an unknown member, an octet
that is no number), or take them all and ToKnx throws (a word where a number belongs).
`value` is what it takes before either, `bad` whether it throws, `Spoilt` what ToKnx
refuses. So `RejectValue` changes `cached` by what was taken and sends nothing, and
`RejectData` leaves the cache as FromMqtt made it; the next message may be refused for
what an earlier one left. `altered` remembers that a refused message changed the data
point; a telegram sets every field and ends that. The error text a control shows is
left out. A control whose text was short shows `Missing` for the rest. `control` starts
with any values, because libwbmqtt restores them, `cached` with the default.

### DataPath

The path of addresses and values, with the threads left to the other modules: a
notification is one step and knxd a set of packets (`bus`) that come back in any
order or not at all. `phase` begins with an export of ETS (`Import` is
LoadEtsExport), with a configuration of a user, or with a telegram to be written
as a frame. `Configure` validates by the schema and makes the objects as
TGroupObjectMqttBuilder::Create and AddGroupObject do; an exception ends the
program. Then `SetControl` is MqttNotify with the data point's FromMqtt and
ToKnx, `SendMessage` the legacy device's handler, `Receive` the way from
KnxdReceiveProcessing to KnxNotify and to the legacy device, `NotifyEvent` a
connection event, which sends the read requests and reaches the legacy device
with a default telegram. `Noise` changes one bit of a frame.

A conversion that may throw or return false is the set of its outcomes: empty
where it fails, one element where it succeeds, several where the result is not
defined (a double cast to an integer type it does not fit). Texts are the words
and tokens the code splits them into, each with the integer std::stoi reads from
it, if any; names of types are records of the parts the code compares. A data
point class is a table of fields with place, width and type, and `Assemble` and
`FieldBits` move their bits; a JSON object is a function from names to values,
names being their alphabetical ranks, which is jsoncpp's order. A float of two
octets is counted in hundredths, one of four is its IEEE 754 pattern. What is
undefined or cut in the source is so here: the second octet of a one-octet TPDU,
six bits of the first payload octet, four bits of an exponent, the members taken
before one that is refused.

The properties do not use these tables: `DatapointFormats` says of each type what
its octets mean, and `Meaning` compares. Three history fields serve them: the
`origin` of a packet, the payload an object shows (`last`), and what the legacy
device was last told of (`heard`).

## Runs

| run | expects | shows |
|---|---|---|
| `controller` | pass | all safety properties, the refinement of `PollContract` with its fairness, and that polling never ends |
| `client` | pass | one client thread, no use of a closed connection, no leak, events in order; Stop and Send return, a broken connection is noticed, the service reconnects |
| `gateway` | pass | no walk past the end of the timer's list, a clean return, no telegram withheld from the legacy device, a signal ends the program whatever hangs |
| `mqtt_object` | pass | no value lost or mixed between the two threads, controls follow the feedback, the cache agrees with the bus at rest unless a message refused since the last telegram changed it, both calls end |
| `data_path` | pass | types are kept from ETS to the object, what a user sets is what devices read, what devices send is what controls show and may be set again, messages and events reach the legacy device distinguishably, frames that carry data are read back and those with a wrong bit refused |
| `configured_times` | violation | an object with a feedback address runs at double speed |
| `error_for_answered` | violation | an answer between Send and the arming of the timer is forgotten |
| `control_frames` | violation | the frame written of a control telegram is refused by its own reader |
| `stop_terminates` | violation | Stop destroys a thread that is still running |
| `client_walk` | violation | the client thread's iterator passes the end of the list the handler shortens |
| `other_fields` | violation | setting one field after a restart sends the defaults of the others |
| `tool_names` | violation | the ETS tool writes type names the service's schema refuses |

The last seven are findings about the code; `PROJECT.json` quotes the documents
they disagree with. One more disagreement is plain from `AddGroupObject` and has no
run: when only its feedback address is taken, AddGroupObject returns false and keeps
the object under its main address, where iknxgroupobjectcontroller.h:16 says that true
means added; Configurator ignores the result.

**Bounds.** `controller`: three addresses, four objects, a tick of 50 ms. `light`
has a feedback address and period and timeout of two ticks each, the tightest
case of `PollConcluded`; the address of `blind` is the feedback address of
`light`, so that every conflict of registration occurs in either order, and its
period is shorter than a tick; the timeout of `meter` is longer than its period;
`scene` is null. Objects may be registered in any order or not at all. All
counters are bounded by the settings, no state constraint is used. `client`: two
callers (one waits for the other), a sender besides the client thread, two
thread identities (one more than may run), three connections (one published, one
being opened, one in reserve for a fault to leak). `MayHang` is TRUE: calls may
outlast the six seconds of Stop, and the liveness properties allow for a program
that std::terminate has ended; there is no symmetry, since they are checked in
the same run. `gateway`:
two devices, so that the configuration may fail and Clear may hang between them;
with and without the legacy device. There is nothing to bound: the lists have two
subscribers at most. `mqtt_object`: two fields, on two controls or in one
text, three values of which a telegram keeps two, one value that ToKnx refuses, four
texts (either member, one with a word for a number, both) of which FromMqtt takes all or
throws after the last, one telegram of the wrong length, and one telegram in the queue (`MaxBus`) besides the one KnxNotify works on and the one
MqttNotify is about to send: three writers meet. `data_path`: every class of data
points on one object; exports of one, two and three levels, with every form of
type, good and bad; each type's values at its limits, just beyond and of the
wrong type, payloads of the right and the wrong length; one packet in knxd
(`MaxBus`), since packets do not disturb each other there, and traffic in
installations of at most two objects (`MaxObjects`). Sequences are not bounded:
any values and payloads follow each other in any order. `Descriptors` holds those
of the descriptor file the configurations name, values of four octets stay below 2^31
because TLC's integers have 32 bits, and `Own` is 1.1.0 as an example. The deadlock check is off where
the program may stop for good (an empty map; all callers done; the program ended; a configuration refused);
`mqtt_object` checks it.

**Fairness.** Threads are scheduled (weak fairness on each thread's steps). A
waiting Send or client thread gets `ConnectionMutex` in the end (strong
fairness): the mutex is held for one call of eibclient at a time and every holder
goes on to other work, but std::mutex itself promises no order. A notification
ends (strong fairness on its end, because it may call Send several times before):
the subscribers loop over finite lists. Nothing is assumed of telegrams,
connection events, knxd, callers, or which outcome select has. In `Gateway` the
handler, the two threads and the watchdog, which wblib runs on a thread of its
own, are scheduled; main() before the signal, and Hang, are not fair. In
`MqttGroupObject` each thread that has the mutex is scheduled, and gets it in the
end (strong fairness) although the other may take it again: it is held for two
conversions. The calls of libwbmqtt are taken to return. `DataPath` has no fairness: it
states what a value is when it arrives, not that it does.

## Proofs

Assumed: `ControllerAssumption`, `ClientAssumption`, `GatewayAssumption` and
`ObjectAssumption` state the types of the constants, that the special values are
distinct, a positive tick, and that a value that went through a telegram goes
through the next one unchanged. `DescriptorsAssumption` says that the descriptor
file has no id 0 and only encodings that dptjsonbuilder.cpp can build, as the
installed file. `ExportsAssumption` says that an export of ETS has the shape the
tool reads and names an address once (ETS refuses a second use; texts of hexadecimal
digits, which the tool takes for 0/0/0, may repeat), `ConfigurationsAssumption`,
`MessagesAssumption`, `UserValuesAssumption`, `DevicePayloadsAssumption` and
`DevicePacketsAssumption` give the types of what users and devices send (of a number
for a float of two octets also that what std::round makes of it fits the integer it is
converted to: beyond that the conversion is undefined), and `FramesAssumption` that a
frame's telegram is one the constructors of TTelegram and TTpdu make. TLC evaluates
each of them. The theorems on addresses, ids, TPDUs, numbers and bits assume nothing.

*Controller.* `TypeCorrect` first. `PollInv` strengthens `PollConcluded` and
`ExpiryIsEarned`: while a supervised poll waits, its timer runs and the timeout
counter has come down exactly as many visits as the poll counter
(`CountersAgree`), so that with Timeout <= PollInterval the timeout runs out no
later than the period; two map entries do not hurt, since both counters are
visited equally often. `TicksInv` strengthens `TicksAsConfigured`: counter plus
elapsed ticks is constant, plus one between the start of the tick and the visit
(`Ahead`). `ErrorsInv` strengthens `ErrorsFollowConnection` by the loop
invariant of the notification: all entries before the iterator are served.
`ContractKept` is the safety half of the refinement of `PollContract`.

*Client service.* `ServiceInv`: ActiveMutex covers a Start until the thread
exists and a Stop until it is gone, hence one thread. `MutexInv`: who changes or
uses the pointer holds the mutex. `OwnerInv`: the program point of the one
thread tells which connection it owns; from these `SendSafe`, `ReceiverSafe`,
`NoLeak`. `EventInv` gives `EventsOrdered`, the refinement of `KnxEventSource`.

*Gateway.* `Life` says for each program point of main() which threads run, what is
on the two lists and which devices are left; it is inductive and gives
`TickWalkIsSafe` and `ReturnIsClean`. `OwedInv` strengthens
`TelegramsReachLegacy`: while a telegram is owed the walk stands on the first
element, which is the legacy device wherever it is subscribed (`LegacyIsFirst`).

*MQTT object.* `MutexHeld`: who is between lock and release holds the mutex, so
only one is. `ValueTaken` and `TelegramTaken`: what a thread has put into the data point
stays there until it takes its result out. The three are inductive together with
`TypeOK` (`Exchange`), which needs them: that nothing spoilt is sent or shown rests on
the mutex.
`FeedbackInv` adds that with a feedback address MqttNotify never sets a control,
and is the loop invariant of the publication: the controls before `index` are done.
`CacheInv` strengthens `CacheFollowsBus` by where the last value on the bus is: in
the queue with only rejected telegrams behind it, with the client thread before
FromKnx, or in the cache, which MqttNotify may have changed only on its way to Send or
to a refusal, after which `altered` holds until the next FromKnx.

*Data.* `AddressRoundTrip`, `EibRoundTrip`, `DoubleIsTriple`, `IndividualRoundTrip`: an
address survives each of its forms; the arithmetic of quotients and remainders is
in lemmas of its own. `OrderAgrees`, `IdLessIsOrder`, `SameKeyIsEqual`: the orders
std::map is given are orders, and they identify what operator== does.
`NameRoundTrip`, `NameIsRead`: the tool's name of an id is read as that id.
`TpduRoundTrip`: a TPDU with data is read from its octets as it was, whatever the
payload. `EventsDistinguishableAlways` rests on `PacketsSent`, that no packet on
the bus comes from a connection event: then what was heard tells whether its text
was made of the default telegram or of a group telegram. `MessagesShown` follows a
message through knxd: `MessagesSent` says that its packet holds the octets of the one
address, APCI and payload its words stand for (`OneAddress`, `OneApci`,
`OnePayload`), and `TpduRoundTrip` and `AddressRoundTrip` that they are read back.

*Recursion.* A recursive function cannot be unfolded by the prover, and the library's
induction theorems take an operator as a parameter. `Datapoints_proofs` therefore proves
from the well-foundedness of `<` on the naturals that every nonempty set of naturals
has a least element (`LeastNumber`), from it induction for sets (`Induction`, `Upto`)
and that a recursive function on 0 .. n exists (`Recursion`); what `ValueFrom`,
`Shifted`, `FlattenSeq` and the model's other recursive functions compute is proved with
these. `Reassembled` is the fact below all codecs: a number is its low bits after
its rest.

*Frames.* `FramesReadAlways`: `FrameRoundTrip` reads a frame of a telegram that carries
data back, octet by octet (of a control telegram it is not read, run `control_frames`); `FlippedIsRefused` says that a frame with one bit wrong has a wrong
checksum, whichever octet it is in, because the parity of its column of bits changes
(`OddToggles`), and that one whose length octet changed is refused too.

*Installation.* `Installed` is the inductive invariant of `DataPath` from the
configuration on: a configuration that comes from an export is one of those
`LoadEtsExport` may return (`Origins`), every object is made from a control of the
configuration (`ObjectsMade`), every control whose data point exists has its object
(`ControlsServed`), and no traffic exchanges an object's data point. `LoadedDef`
says which configuration the tool makes: each device comes from one group of the
export (a main group's own addresses, or a middle group), each of its controls from
one address there. `NamesMade` says what the tool's two tables yield for an id, and that
the service's builder finds a data point for every name of them. From the three follow
`ConfigurationAcceptedAlways` (only the schema stops a configuration of the tool),
`TypeKeptAlways` (the main number survives export, tables, name, parser and builder) and
`DevicesDistinctAlways` (no id and no control in two devices).

*Data points.* A class is a table of fields, and the lemmas are about any table
(`ClassMade`): the octets it writes hold each field's bits (`FieldWritten`), what it
reads of octets is in the field's range (`ReadInField`), a value shown is received as
itself (`ShownReceived`). Each class is then compared with its document once
(`ClassesDocumented`, `FromKnxTyped`), and `WrittenMeans` is what follows: the octets
written for a value mean that value, to the octet arithmetic of `DatapointFormats`. The
float of two octets is the exception, it may lose less than one step of its exponent
(`FloatKept`, `Conveys`); what was read of the bus is such a value already and is
written without loss.

*Traffic.* `Traffic` strengthens `TypeOK`, beside `Installed`: the cache of every
object has the types of its fields, and an object that a telegram reached shows what
its data point made of the payload (`FromBus`); for every packet sent for a control
there was a cache of the right types from which FromMqtt and ToKnx made its octets
(`SentBy`). Neither follows from the types of the variables: a refused value leaves a
half-changed cache behind, and the object has moved on when its packet arrives. With
it `TypeCorrect` is proved for all data points, and `ShownIsBusAlways`,
`ShownUsableAlways`, `ValuesAcceptedAlways` and `UserValueArrivesAlways` for the classes
of `Datapoints` and for the JSON data points that are described as installed
(`AsInstalled`, below): each states the property of these objects (`Understood`) in any
installation, and the run's property of installations that have no others
(`AllUnderstood`).

*JSON data points.* A descriptor may place fields anywhere; what its octets mean by the
documents is known only of the types of KNX. `FieldsInstalled` gives the fields of the
types that `DatapointFormats` reads as JSON objects, and `AsInstalled` asks a data point
for these places, widths and types, not for names or enumerators. `InstalledMeans`
shows, type by type, that a field's bits are what the document reads of the octets
(`FieldMeans`), and that no two fields overlap (`Apart`), so that a payload put together
keeps each (`FieldKept`). A complete text replaces the whole cache (`Complete`), which
is why an earlier refused one does no harm to it. What is sent for what a field holds
means it (`JsonConveys`): exactly, but for the float of two octets, which is off by less
than one step of its exponent (`OffByLess`) from the number as a float of 24 bits.

Two values that the documents do not rule out are left out of what
`UserValueArrives` and `ValuesAccepted` promise, because the program treats them
otherwise: a number with a fraction for a field that has none (`TypicalMember`: of 0.5
for a bit the program sends 1, and it throws for an unsigned number just below zero),
and the last hundredths of a float in JSON, which is held in 24 bits (`Slack`: at most
three hundredths, as at -265093.11).

Model-checked only: texts in JSON (main 16) in `UserValueArrives`, `ValuesAccepted`,
`ShownIsBus` and `ShownUsable` (they are filtered with a recursive operator of the
library; their types are proved). `InstalledAssumption`, evaluated with the run, says
that the theorems leave out no other JSON data point of the installed descriptors but
the signed octet of main 6: `DatapointFormats` has no JSON object for it, and the run
has no traffic with it.

Model-checked only are also the liveness properties and the fairness half of
`PollContractHolds` (fairness and ENABLED are out of the prover's reach). All inductive
invariants of the first four components were first checked by TLC as invariants of the
runs.

## Not modelled

- Reading and writing files: XML, JSON and the command lines of both programs.
- How a text is split into words, numbers are written, and logging.
- The MQTT driver with its transactions and locks; whether MqttNotify and KnxNotify
  may block each other through them depends on code outside the repository.
- The errors a control shows for a rejected value or telegram, and
  RemoveUnusedControls.
- Fields of 64 bits (DPT 29) and asString of numbers in JSON data points.
- The race of two objects on the union in datapointutils.cpp (line 13): a conversion
  is one step in `DataPath`.
- Time passes in ticks only: a duration of a call appears as `MayHang`, the busy
  retry while knxd is down not at all.

The data race on the subscriber list is in `Gateway`; elsewhere in what is modelled
the shared fields are atomics or under a mutex.

## Plan

Done: the controller, the client service, the gateway, the MQTT object and the data
path, each with its runs, seeded faults and proofs. To do, in this order:

1. The race in datapointutils.cpp: two objects with floats of four octets, the
   conversions of two threads interleaved.
2. `MqttGroupObject`: the error of each control (rejected value, rejected telegram,
   connection events), its refinement of an atomic register.
3. `DataPath`: what a payload means proved for texts in JSON, too.
4. The controller and the MQTT object composed: the answer to a poll seen through
   the control.
