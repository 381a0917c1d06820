------------------------------ MODULE Gateway ------------------------------
(***************************************************************************)
(* The life of the program: main() makes the parts, subscribes them to     *)
(* each other, configures the MQTT devices and starts two threads, which   *)
(* notify the subscribers on their lists; on a signal one handler takes    *)
(* everything apart again.                                                 *)
(*                                                                         *)
(* The lists are the std::vector of TObserver, walked with iterators and   *)
(* changed without a lock.  The client thread's events are those of        *)
(* KnxEventSource; how it comes by them is KnxClientService.  A call into  *)
(* knxd or the MQTT broker may never return (Hang).                        *)
(***************************************************************************)
EXTENDS Naturals, Sequences

CONSTANTS Devices,     \* the MQTT devices of the configuration
          KnxDevice,   \* the device of TKnxLegacyDevice
          NoEvent

ASSUME GatewayAssumption == KnxDevice \notin Devices

VARIABLES
    mainPc,                        \* main(), then the signal handler
    devices,                       \* the MQTT devices that exist
    tickList, tickStarted,         \* TTickTimer
    tickPc, tickIt, tickEnd,       \* its thread: program point and iterators
    clientList, clientStarted,     \* TKnxClientService
    clientPc, clientIt, clientEnd, \* its thread
    heard, notifying,              \* see KnxEventSource
    owed,                          \* history: a telegram the control must show
    hung                           \* threads in a call that never returns

main   == <<mainPc, devices>>
timer  == <<tickStarted, tickPc, tickIt, tickEnd>>
client == <<clientStarted, clientPc, clientIt, clientEnd>>
events == <<heard, notifying>>
vars   == <<main, tickList, timer, clientList, client, events, owed, hung>>

Subscribers == {"controller", "legacy"}
Threads     == {"handler", "tick", "client"}

\* The steps of the signal handler, in order.
HandlerPoints == {"stopTimer", "joinTimer", "leaveTimer", "leaveClient", "clear",
                  "leaveLegacy", "deinit", "stopClient", "joinClient"}
Ended == {"stopped", "failed", "killed", "terminated"}

MainPoints ==
    {"setup", "configure", "startTimer", "serve"} \cup HandlerPoints \cup Ended

\* "test" is the loop's condition, "wait" the sleep or the calls into knxd,
\* "walk" the loop over the subscribers.
LoopPoints == {"none", "test", "wait", "walk", "ended"}

Running == mainPc \notin Ended

TypeOK ==
    /\ mainPc \in MainPoints
    /\ devices \subseteq Devices \cup {KnxDevice}
    /\ tickList \in Seq(Subscribers) /\ clientList \in Seq(Subscribers)
    /\ tickStarted \in BOOLEAN /\ clientStarted \in BOOLEAN
    /\ tickPc \in LoopPoints /\ clientPc \in LoopPoints
    /\ tickIt \in Nat /\ tickEnd \in Nat
    /\ clientIt \in Nat /\ clientEnd \in Nat
    /\ tickPc = "walk" => tickIt <= tickEnd + 1
    /\ clientPc = "walk" => clientIt <= clientEnd + 1
    /\ heard \in {NoEvent, "KnxdSocketConnected", "KnxdSocketError"}
    /\ notifying \subseteq {"KnxdSocketConnected", "KnxdSocketError", "ReceivedTelegram"}
    /\ owed \in BOOLEAN
    /\ hung \subseteq Threads

Source == INSTANCE KnxEventSource

Init ==
    /\ mainPc = "setup"
    /\ devices = {}
    /\ tickList = <<>> /\ clientList = <<>>
    /\ tickStarted = FALSE /\ clientStarted = FALSE
    /\ tickPc = "none" /\ clientPc = "none"
    /\ tickIt = 0 /\ tickEnd = 0
    /\ clientIt = 0 /\ clientEnd = 0
    /\ Source!Init
    /\ owed = FALSE
    /\ hung = {}

-----------------------------------------------------------------------------
(* TObserver                                                               *)

Has(list, s) == \E i \in 1 .. Len(list) : list[i] = s

\* Subscribe.
With(list, s) == IF Has(list, s) THEN list ELSE Append(list, s)

\* Unsubscribe: what follows the erased element moves up.
Without(list, s) ==
    IF ~Has(list, s) THEN list
    ELSE LET it == CHOOSE i \in 1 .. Len(list) : list[i] = s
         IN  [j \in 1 .. Len(list) - 1 |-> IF j < it THEN list[j] ELSE list[j + 1]]

ControllerFirst(list) == With(With(list, "controller"), "legacy")  \* fault: the order
LegacyFirst(list)     == With(With(list, "legacy"), "controller")

-----------------------------------------------------------------------------
(* main()                                                                  *)

Goto(point) == mainPc' = point

\* The legacy device is made, and subscribed, if the configuration enables it.
SetUp ==
    /\ mainPc = "setup"
    /\ \/ /\ devices' = {KnxDevice}
          /\ clientList' = LegacyFirst(clientList)
       \/ /\ UNCHANGED devices
          /\ clientList' = With(clientList, "controller")
    /\ tickList' = With(tickList, "controller")
    /\ Goto("configure")
    /\ UNCHANGED <<timer, client, events, owed, hung>>

\* ConfigureObjectController, one device at a time.
LinkDevice(d) ==
    /\ mainPc = "configure"
    /\ d \notin devices
    /\ devices' = devices \cup {d}
    /\ UNCHANGED <<mainPc, tickList, timer, clientList, client, events, owed, hung>>

\* A datapoint that cannot be created throws: main() returns an error.
ConfigureThrows ==
    /\ mainPc = "configure"
    /\ devices \cap Devices # {}
    /\ Goto("failed")
    /\ UNCHANGED <<devices, tickList, timer, clientList, client, events, owed, hung>>

\* fault: the thread is started before the devices are made
StartClientEarly ==
    /\ mainPc = "configure"
    /\ clientStarted' = TRUE
    /\ clientPc' = "test"
    /\ IF Devices \subseteq devices THEN Goto("startTimer") ELSE UNCHANGED mainPc
    /\ UNCHANGED <<devices, tickList, timer, clientList, clientIt, clientEnd, events, owed, hung>>

StartClient ==
    /\ mainPc = "configure"
    /\ Devices \subseteq devices
    /\ clientStarted' = TRUE
    /\ clientPc' = "test"
    /\ Goto("startTimer")
    /\ UNCHANGED <<devices, tickList, timer, clientList, clientIt, clientEnd, events, owed, hung>>

StartTimer ==
    /\ mainPc = "startTimer"
    /\ tickStarted' = TRUE
    /\ tickPc' = "test"
    /\ Goto("serve")
    /\ UNCHANGED <<devices, tickList, tickIt, tickEnd, clientList, client, events, owed, hung>>

Signal ==
    /\ mainPc = "serve"
    /\ Goto("stopTimer")
    /\ UNCHANGED <<devices, tickList, timer, clientList, client, events, owed, hung>>

-----------------------------------------------------------------------------
(* The signal handler                                                      *)

\* fault: IsStarted is left TRUE
StopTimerInVain ==
    /\ mainPc = "stopTimer"
    /\ Goto("joinTimer")
    /\ UNCHANGED <<devices, tickList, timer, clientList, client, events, owed, hung>>

StopTimer ==
    /\ mainPc = "stopTimer"
    /\ tickStarted' = FALSE
    /\ Goto("joinTimer")
    /\ UNCHANGED <<devices, tickList, tickPc, tickIt, tickEnd, clientList, client, events,
                   owed, hung>>

\* fault: Stop does not wait for the thread
JoinNobody ==
    /\ mainPc = "joinTimer"
    /\ Goto("leaveTimer")
    /\ UNCHANGED <<devices, tickList, timer, clientList, client, events, owed, hung>>

JoinTimer ==
    /\ mainPc = "joinTimer"
    /\ tickPc = "ended"
    /\ Goto("leaveTimer")
    /\ UNCHANGED <<devices, tickList, timer, clientList, client, events, owed, hung>>

UnsubscribeFromTimer ==
    /\ mainPc = "leaveTimer"
    /\ tickList' = Without(tickList, "controller")
    /\ Goto("leaveClient")
    /\ UNCHANGED <<devices, timer, clientList, client, events, owed, hung>>

UnsubscribeController ==
    /\ mainPc = "leaveClient"
    /\ clientList' = Without(clientList, "controller")
    /\ Goto("clear")
    /\ UNCHANGED <<devices, tickList, timer, client, events, owed, hung>>

\* TGroupObjectMqttBuilder::Clear, waiting for the broker after each device.
ClearDevice ==
    /\ mainPc = "clear"
    /\ "handler" \notin hung
    /\ \/ /\ \E d \in Devices \cap devices : devices' = devices \ {d}
          /\ UNCHANGED mainPc
       \/ /\ Devices \cap devices = {}
          /\ Goto(IF KnxDevice \in devices THEN "leaveLegacy" ELSE "stopClient")
          /\ UNCHANGED devices
    /\ UNCHANGED <<tickList, timer, clientList, client, events, owed, hung>>

UnsubscribeLegacy ==
    /\ mainPc = "leaveLegacy"
    /\ clientList' = Without(clientList, "legacy")
    /\ Goto("deinit")
    /\ UNCHANGED <<devices, tickList, timer, client, events, owed, hung>>

Deinit ==
    /\ mainPc = "deinit"
    /\ "handler" \notin hung
    /\ devices' = devices \ {KnxDevice}
    /\ Goto("stopClient")
    /\ UNCHANGED <<tickList, timer, clientList, client, events, owed, hung>>

StopClient ==
    /\ mainPc = "stopClient"
    /\ clientStarted' = FALSE
    /\ Goto("joinClient")
    /\ UNCHANGED <<devices, tickList, timer, clientList, clientPc, clientIt, clientEnd,
                   events, owed, hung>>

JoinClient ==
    /\ mainPc = "joinClient"
    /\ clientPc = "ended"
    /\ Goto("stopped")
    /\ UNCHANGED <<devices, tickList, timer, clientList, client, events, owed, hung>>

\* After six seconds Stop destroys the thread it could not join.
JoinTimeout ==
    /\ mainPc = "joinClient"
    /\ "client" \in hung
    /\ Goto("terminated")
    /\ UNCHANGED <<devices, tickList, timer, clientList, client, events, owed, hung>>

\* SetOnTimeout: a handler that takes 60 seconds is given up.
Watchdog ==
    /\ mainPc \in HandlerPoints
    /\ hung # {}
    /\ Goto("killed")
    /\ UNCHANGED <<devices, tickList, timer, clientList, client, events, owed, hung>>

Handler ==
    \/ StopTimer \/ JoinTimer \/ UnsubscribeFromTimer \/ UnsubscribeController
    \/ ClearDevice \/ UnsubscribeLegacy \/ Deinit \/ StopClient \/ JoinClient

Main ==
    \/ SetUp \/ (\E d \in Devices : LinkDevice(d)) \/ ConfigureThrows
    \/ StartClient \/ StartTimer \/ Signal
    \/ Handler \/ JoinTimeout \/ Watchdog

-----------------------------------------------------------------------------
(* TTickTimer::Processing                                                  *)

TickTest ==
    /\ tickPc = "test"
    /\ tickPc' = IF tickStarted THEN "wait" ELSE "ended"
    /\ UNCHANGED <<tickStarted, tickIt, tickEnd>>

TimeIsUp ==
    /\ tickPc = "wait"
    /\ tickPc' = "walk"
    /\ tickIt' = 1
    /\ tickEnd' = Len(tickList)
    /\ UNCHANGED tickStarted

\* fault: the iterator is compared with the wrong end
TickWalkOneMore ==
    /\ tickPc = "walk"
    /\ "tick" \notin hung
    /\ IF tickIt > tickEnd + 1
       THEN tickPc' = "test" /\ UNCHANGED tickIt
       ELSE tickIt' = tickIt + 1 /\ UNCHANGED tickPc
    /\ UNCHANGED <<tickStarted, tickEnd>>

TickWalk ==
    /\ tickPc = "walk"
    /\ "tick" \notin hung
    /\ IF tickIt > tickEnd
       THEN tickPc' = "test" /\ UNCHANGED tickIt
       ELSE tickIt' = tickIt + 1 /\ UNCHANGED tickPc
    /\ UNCHANGED <<tickStarted, tickEnd>>

TickThread ==
    /\ Running
    /\ TickTest \/ TimeIsUp \/ TickWalk
    /\ UNCHANGED <<main, tickList, clientList, client, events, owed, hung>>

-----------------------------------------------------------------------------
(* The client thread                                                       *)

\* Both of its loops test IsStarted, and both end before the thread does.
ClientTest ==
    /\ clientPc = "test"
    /\ clientPc' = IF clientStarted THEN "wait" ELSE "ended"
    /\ UNCHANGED <<mainPc, clientIt, clientEnd, events, owed>>

\* select timed out, or knxd did not answer
ClientIdle ==
    /\ clientPc = "wait"
    /\ clientPc' = "test"
    /\ UNCHANGED <<mainPc, clientIt, clientEnd, events, owed>>

NotifyAll ==
    /\ clientPc = "wait"
    /\ \/ (Source!Connected \/ Source!Lost) /\ UNCHANGED owed
       \/ Source!Telegram /\ owed' = Has(clientList, "legacy")
    /\ clientPc' = "walk"
    /\ clientIt' = 1
    /\ clientEnd' = Len(clientList)
    /\ UNCHANGED mainPc

AtSubscriber ==
    /\ clientPc = "walk"
    /\ "client" \notin hung
    /\ clientIt <= clientEnd

InList == clientIt <= Len(clientList)

\* The legacy device publishes the telegram and lets no exception out.
NotifyLegacy ==
    /\ AtSubscriber /\ InList
    /\ clientList[clientIt] = "legacy"
    /\ owed' = FALSE
    /\ clientIt' = clientIt + 1
    /\ UNCHANGED <<mainPc, clientPc, clientEnd, events>>

\* The controller walks its objects, see GroupObjectController.
NotifyController ==
    /\ AtSubscriber /\ InList
    /\ clientList[clientIt] = "controller"
    /\ clientIt' = clientIt + 1
    /\ UNCHANGED <<mainPc, clientPc, clientEnd, events, owed>>

\* ... and an object may throw: the walk ends, the thread's catch goes on.
ControllerThrows ==
    /\ AtSubscriber /\ InList
    /\ clientList[clientIt] = "controller"
    /\ Source!Return
    /\ clientPc' = "test"
    /\ UNCHANGED <<mainPc, clientIt, clientEnd, owed>>

\* The iterator points at an element the handler has erased: undefined.  Its
\* memory may still lead to the subscriber, or to nothing.
NotifyErased ==
    /\ AtSubscriber /\ ~InList
    /\ \/ clientIt' = clientIt + 1 /\ UNCHANGED mainPc
       \/ Goto("terminated") /\ UNCHANGED clientIt
    /\ UNCHANGED <<clientPc, clientEnd, events, owed>>

WalkEnds ==
    /\ clientPc = "walk"
    /\ clientIt > clientEnd
    /\ Source!Return
    /\ clientPc' = "test"
    /\ UNCHANGED <<mainPc, clientIt, clientEnd, owed>>

ClientThread ==
    /\ Running
    /\ \/ ClientTest \/ ClientIdle \/ NotifyAll \/ WalkEnds
       \/ NotifyLegacy \/ NotifyController \/ ControllerThrows \/ NotifyErased
    /\ UNCHANGED <<devices, tickList, timer, clientList, clientStarted, hung>>

-----------------------------------------------------------------------------
\* A subscriber's call into the broker or knxd, or the handler's, never returns.
Hang(thread) ==
    /\ Running
    /\ thread \notin hung
    /\ \/ thread = "tick" /\ tickPc = "walk"
       \/ thread = "client" /\ clientPc = "walk"
       \/ thread = "handler" /\ mainPc \in {"clear", "deinit"}
    /\ hung' = hung \cup {thread}
    /\ UNCHANGED <<main, tickList, timer, clientList, client, events, owed>>

Next ==
    \/ Main \/ TickThread \/ ClientThread
    \/ \E thread \in Threads : Hang(thread)

Spec == Init /\ [][Next]_vars

\* Threads are scheduled; wblib's watchdog runs on a thread of its own.
Fairness ==
    /\ WF_vars(Handler)
    /\ WF_vars(Watchdog)
    /\ WF_vars(TickThread)
    /\ WF_vars(ClientThread)

FairSpec == Spec /\ Fairness

-----------------------------------------------------------------------------
(* Properties                                                              *)

\* The tick thread never reaches past the end of its list, although Subscribe
\* and Unsubscribe take no lock: the list changes before the thread starts and
\* after it was joined.
TickWalkSafe ==
    tickPc = "walk" /\ tickIt <= tickEnd => tickIt <= Len(tickList)

\* main() returns, in an error or after a signal, without a running thread
\* (destroying it would terminate the program), and after a signal without a
\* device or a subscriber left behind.
CleanReturn ==
    /\ mainPc \in {"failed", "stopped"} => {tickPc, clientPc} \subseteq {"none", "ended"}
    /\ mainPc = "stopped" => devices = {} /\ tickList = <<>> /\ clientList = <<>>

\* README: all messages from KNX are delivered to the topic of the legacy
\* device.  As long as it is subscribed, no walk over the subscribers ends
\* without it, even when a group object throws.
TelegramsReachLegacy ==
    owed => clientPc = "walk" \/ ~Has(clientList, "legacy") \/ ~Running

\* A signal ends the program, whatever hangs.
SignalEndsProgram == mainPc \in HandlerPoints ~> ~Running

\* TObserver: NotifyAllSubscribers calls subscribers, and Unsubscribe removes
\* one.  The client thread never reaches past the end of its list.
ClientWalkSafe ==
    Running /\ clientPc = "walk" /\ clientIt <= clientEnd => clientIt <= Len(clientList)
=============================================================================
