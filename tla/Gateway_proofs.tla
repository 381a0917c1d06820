--------------------------- MODULE Gateway_proofs ---------------------------
(***************************************************************************)
(* TLAPS proofs about the life of the program, for any set of devices.     *)
(***************************************************************************)
EXTENDS Gateway, SequenceTheorems, TLAPS

-----------------------------------------------------------------------------
(* TObserver's lists                                                       *)

\* Subscribe and Unsubscribe keep the type of a list.
LEMMA ListType ==
    ASSUME NEW list \in Seq(Subscribers), NEW s \in Subscribers
    PROVE  With(list, s) \in Seq(Subscribers) /\ Without(list, s) \in Seq(Subscribers)
<1>1. With(list, s) \in Seq(Subscribers)
  BY DEF With
<1>2. CASE ~Has(list, s)
  BY <1>1, <1>2 DEF Without
<1>3. CASE Has(list, s)
  <2> DEFINE it == CHOOSE i \in 1 .. Len(list) : list[i] = s
  <2>1. it \in 1 .. Len(list)
    BY <1>3 DEF Has
  <2> HIDE DEF it
  <2>2. Len(list) - 1 \in Nat
    BY <2>1
  <2>3. \A j \in 1 .. Len(list) - 1 :
            (IF j < it THEN list[j] ELSE list[j + 1]) \in Subscribers
    BY <2>1, ElementOfSeq
  <2>4. [j \in 1 .. Len(list) - 1 |-> IF j < it THEN list[j] ELSE list[j + 1]]
            \in Seq(Subscribers)
    BY <2>2, <2>3, SeqDef
  <2> QED
    BY <1>1, <1>3, <2>4 DEF Without, it
<1> QED
  BY <1>2, <1>3

\* What the lists of this program become.
LEMMA ListValues ==
    /\ With(<<>>, "controller") = <<"controller">>
    /\ LegacyFirst(<<>>) = <<"legacy", "controller">>
    /\ Without(<<"controller">>, "controller") = <<>>
    /\ Without(<<"legacy", "controller">>, "controller") = <<"legacy">>
    /\ Without(<<"legacy">>, "legacy") = <<>>
<1>1. \A s : With(<<>>, s) = <<s>>
  BY DEF With, Has
<1>2. With(<<"legacy">>, "controller") = <<"legacy", "controller">>
  <2>1. ~Has(<<"legacy">>, "controller")
    BY DEF Has
  <2>2. Append(<<"legacy">>, "controller") = <<"legacy", "controller">>
    <3> DEFINE list == Append(<<"legacy">>, "controller")
    <3>1. /\ <<"legacy">> \in Seq(Subscribers) /\ "controller" \in Subscribers
          /\ <<"legacy", "controller">> \in Seq(Subscribers)
      BY DEF Subscribers
    <3>2. Len(<<"legacy">>) = 1 /\ Len(<<"legacy", "controller">>) = 2
      OBVIOUS
    <3>3. /\ list \in Seq(Subscribers) /\ Len(list) = 2
          /\ list[1] = "legacy" /\ list[2] = "controller"
      BY <3>1, <3>2, AppendProperties
    <3> HIDE DEF list
    <3>4. list = <<"legacy", "controller">>
      BY <3>1, <3>2, <3>3, SeqEqual
    <3> QED
      BY <3>4 DEF list
  <2> QED
    BY <2>1, <2>2 DEF With
<1>3. ASSUME NEW s PROVE Without(<<s>>, s) = <<>>
  <2>1. Has(<<s>>, s) /\ Len(<<s>>) = 1
    BY DEF Has
  <2> QED
    BY <2>1 DEF Without
<1>4. Without(<<"legacy", "controller">>, "controller") = <<"legacy">>
  <2> DEFINE list == <<"legacy", "controller">>
             it == CHOOSE i \in 1 .. Len(list) : list[i] = "controller"
  <2>1. Has(list, "controller") /\ Len(list) = 2
    BY DEF Has
  <2>2. it = 2
    BY <2>1
  <2>3. Without(list, "controller") =
            [j \in 1 .. 1 |-> IF j < 2 THEN list[j] ELSE list[j + 1]]
    BY <2>1, <2>2 DEF Without
  <2> QED
    BY <2>3
<1> QED
  BY <1>1, <1>2, <1>3, <1>4 DEF LegacyFirst

-----------------------------------------------------------------------------
(* Type correctness                                                        *)

\* The steps of main() and of the handler keep the types.
LEMMA MainType ==
    ASSUME TypeOK, Main
    PROVE  TypeOK'
<1> USE DEF TypeOK, main, timer, client, events, MainPoints, HandlerPoints, Ended,
            LoopPoints, Goto
<1>1. CASE SetUp
  <2>1. tickList' \in Seq(Subscribers)
    BY <1>1, ListType DEF SetUp, Subscribers
  <2>2. LegacyFirst(clientList) \in Seq(Subscribers)
    BY ListType DEF LegacyFirst, Subscribers
  <2>3. clientList' \in Seq(Subscribers)
    BY <1>1, <2>2, ListType DEF SetUp, Subscribers
  <2> QED
    BY <1>1, <2>1, <2>3 DEF SetUp
<1>2. CASE UnsubscribeFromTimer
  BY <1>2, ListType DEF UnsubscribeFromTimer, Subscribers
<1>3. CASE UnsubscribeController
  BY <1>3, ListType DEF UnsubscribeController, Subscribers
<1>4. CASE UnsubscribeLegacy
  BY <1>4, ListType DEF UnsubscribeLegacy, Subscribers
<1>5. CASE \E d \in Devices : LinkDevice(d)
  BY <1>5 DEF LinkDevice
<1>6. CASE ConfigureThrows \/ StartClient \/ StartTimer \/ Signal
  <2>1. CASE ConfigureThrows
    BY <2>1, ZenonT(30) DEF ConfigureThrows
  <2>2. CASE StartClient
    BY <2>2, ZenonT(30) DEF StartClient
  <2>3. CASE StartTimer
    BY <2>3, ZenonT(30) DEF StartTimer
  <2>4. CASE Signal
    BY <2>4, ZenonT(30) DEF Signal
  <2> QED
    BY <1>6, <2>1, <2>2, <2>3, <2>4
<1>7. CASE StopTimer \/ JoinTimer \/ StopClient \/ JoinClient
  <2>1. CASE StopTimer
    BY <2>1, ZenonT(30) DEF StopTimer
  <2>2. CASE JoinTimer
    BY <2>2, ZenonT(30) DEF JoinTimer
  <2>3. CASE StopClient
    BY <2>3, ZenonT(30) DEF StopClient
  <2>4. CASE JoinClient
    BY <2>4, ZenonT(30) DEF JoinClient
  <2> QED
    BY <1>7, <2>1, <2>2, <2>3, <2>4
<1>8. CASE ClearDevice
  BY <1>8 DEF ClearDevice
<1>9. CASE Deinit
  BY <1>9 DEF Deinit
<1>10. CASE JoinTimeout \/ Watchdog
  <2>1. CASE JoinTimeout
    BY <2>1, ZenonT(30) DEF JoinTimeout
  <2>2. CASE Watchdog
    BY <2>2, ZenonT(30) DEF Watchdog
  <2> QED
    BY <1>10, <2>1, <2>2
<1> QED
  BY <1>1, <1>2, <1>3, <1>4, <1>5, <1>6, <1>7, <1>8, <1>9,
     <1>10 DEF Main, Handler

\* So do those of the two threads.
LEMMA ThreadType ==
    ASSUME TypeOK, TickThread \/ ClientThread
    PROVE  TypeOK'
<1> USE DEF TypeOK, main, timer, client, events, MainPoints, Ended, LoopPoints, Goto
<1>1. CASE TickThread
  BY <1>1 DEF TickThread, TickTest, TimeIsUp, TickWalk
<1>2. CASE ClientThread
  <2>1. UNCHANGED <<devices, tickList, timer, clientList, clientStarted, hung>>
    BY <1>2 DEF ClientThread
  <2>2. CASE ClientTest \/ ClientIdle
    BY <2>1, <2>2, ZenonT(30) DEF ClientTest, ClientIdle
  <2>3. CASE NotifyAll
    <3>1. heard' \in {NoEvent, "KnxdSocketConnected", "KnxdSocketError"}
          /\ notifying' \subseteq {"KnxdSocketConnected", "KnxdSocketError", "ReceivedTelegram"}
      BY <2>3 DEF NotifyAll, Source!Connected, Source!Lost, Source!Telegram
    <3>2. owed' \in BOOLEAN
      BY <2>3 DEF NotifyAll, Has
    <3> QED
      BY <2>1, <2>3, <3>1, <3>2 DEF NotifyAll
  <2>4. CASE NotifyLegacy
    <3>1. owed' \in BOOLEAN
      BY <2>4 DEF NotifyLegacy
    <3>2. clientIt' \in Nat /\ clientIt' <= clientEnd + 1
      BY <2>4 DEF NotifyLegacy, AtSubscriber
    <3>3. UNCHANGED <<mainPc, clientPc, clientEnd, events>>
      BY <2>4 DEF NotifyLegacy
    <3> QED
      BY <2>1, <3>1, <3>2, <3>3
  <2>5. CASE NotifyController
    BY <2>1, <2>5 DEF NotifyController, AtSubscriber
  <2>6. CASE NotifyErased
    BY <2>1, <2>6 DEF NotifyErased, AtSubscriber
  <2>7. CASE ControllerThrows \/ WalkEnds
    BY <2>1, <2>7 DEF ControllerThrows, WalkEnds, Source!Return
  <2> QED
    BY <1>2, <2>2, <2>3, <2>4, <2>5, <2>6, <2>7 DEF ClientThread
<1> QED
  BY <1>1, <1>2

\* Every variable keeps its type; no walk over a list goes on past its own end.
THEOREM TypeCorrect == Spec => []TypeOK
<1>1. ASSUME Init PROVE TypeOK
  <2>1. tickList \in Seq(Subscribers) /\ clientList \in Seq(Subscribers)
    BY <1>1, EmptySeq DEF Init
  <2>2. heard = NoEvent /\ notifying = {}
    BY <1>1 DEF Init, Source!Init
  <2> QED
    BY <1>1, <2>1, <2>2 DEF Init, TypeOK, MainPoints, LoopPoints
<1>2. TypeOK /\ [Next]_vars => TypeOK'
  <2> SUFFICES ASSUME TypeOK, [Next]_vars PROVE TypeOK'
    OBVIOUS
  <2>1. CASE \E thread \in Threads : Hang(thread)
    BY <2>1 DEF Hang, TypeOK, main, timer, client, events
  <2>2. CASE UNCHANGED vars
    BY <2>2 DEF TypeOK, vars, main, timer, client, events
  <2> QED
    BY <2>1, <2>2, MainType, ThreadType DEF Next
<1> QED
  BY <1>1, <1>2, PTL DEF Spec
-----------------------------------------------------------------------------
(* Threads and lists                                                       *)

\* Before a thread is started it does not run, and after Stop it has ended.
ThreadsInv ==
    /\ mainPc \in {"setup", "configure", "failed"} => tickPc = "none" /\ clientPc = "none"
    /\ mainPc = "startTimer" => tickPc = "none"
    /\ mainPc \in HandlerPoints \ {"stopTimer", "joinTimer"} => tickPc = "ended"
    /\ mainPc = "stopped" => tickPc = "ended" /\ clientPc = "ended"

\* The timer's list, which changes only while its thread does not run.
TickListInv ==
    /\ mainPc = "setup" => tickList = <<>>
    /\ mainPc \in {"configure", "startTimer", "serve", "stopTimer", "joinTimer", "leaveTimer"}
           => tickList = <<"controller">>
    /\ mainPc \in (HandlerPoints \ {"stopTimer", "joinTimer", "leaveTimer"}) \cup {"stopped"}
           => tickList = <<>>
    /\ tickPc = "walk" => tickEnd = Len(tickList)

\* The client's list: the legacy device, if there is one, is its first element.
ClientListInv ==
    /\ mainPc = "setup" => clientList = <<>>
    /\ mainPc \in {"configure", "startTimer", "serve", "stopTimer", "joinTimer", "leaveTimer",
                   "leaveClient"}
           => clientList = IF KnxDevice \in devices THEN <<"legacy", "controller">>
                           ELSE <<"controller">>
    /\ mainPc = "clear"
           => clientList = IF KnxDevice \in devices THEN <<"legacy">> ELSE <<>>
    /\ mainPc = "leaveLegacy" => clientList = <<"legacy">>
    /\ mainPc \in {"deinit", "stopClient", "joinClient", "stopped"} => clientList = <<>>

\* The devices that are left.
DevicesInv ==
    /\ mainPc = "setup" => devices = {}
    /\ mainPc \in {"leaveLegacy", "deinit"} => devices \subseteq {KnxDevice}
    /\ mainPc \in {"stopClient", "joinClient", "stopped"} => devices = {}

Life == ThreadsInv /\ TickListInv /\ ClientListInv /\ DevicesInv

\* main() and the handler change the lists and the devices in the order that Life
\* describes, and start and join the threads.
LEMMA MainLife ==
    ASSUME TypeOK, Life, Main
    PROVE  Life'
<1> USE DEF Life, ThreadsInv, TickListInv, ClientListInv, DevicesInv, HandlerPoints,
            main, timer, client, Goto
<1>1. CASE SetUp
  BY <1>1, ListValues, GatewayAssumption DEF SetUp
<1>2. ASSUME NEW d \in Devices, LinkDevice(d) PROVE Life'
  BY <1>2, GatewayAssumption DEF LinkDevice
<1>3. CASE ConfigureThrows
  BY <1>3 DEF ConfigureThrows
<1>4. CASE StartClient
  BY <1>4 DEF StartClient
<1>5. CASE StartTimer
  BY <1>5 DEF StartTimer
<1>6. CASE Signal
  BY <1>6 DEF Signal
<1>7. CASE StopTimer
  BY <1>7 DEF StopTimer
<1>8. CASE JoinTimer
  BY <1>8 DEF JoinTimer
<1>9. CASE UnsubscribeFromTimer
  BY <1>9, ListValues DEF UnsubscribeFromTimer
<1>10. CASE UnsubscribeController
  BY <1>10, ListValues DEF UnsubscribeController
<1>11. CASE ClearDevice
  <2>1. CASE \E d \in Devices \cap devices : devices' = devices \ {d} /\ UNCHANGED mainPc
    BY <1>11, <2>1, GatewayAssumption DEF ClearDevice
  <2>2. CASE Devices \cap devices = {} /\ UNCHANGED devices
    BY <1>11, <2>2 DEF ClearDevice, TypeOK
  <2> QED
    BY <1>11, <2>1, <2>2 DEF ClearDevice
<1>12. CASE UnsubscribeLegacy
  BY <1>12, ListValues DEF UnsubscribeLegacy
<1>13. CASE Deinit
  BY <1>13 DEF Deinit
<1>14. CASE StopClient
  BY <1>14 DEF StopClient
<1>15. CASE JoinClient
  BY <1>15 DEF JoinClient
<1>16. CASE JoinTimeout
  BY <1>16 DEF JoinTimeout
<1>17. CASE Watchdog
  BY <1>17 DEF Watchdog
<1> QED
  BY <1>1, <1>2, <1>3, <1>4, <1>5, <1>6, <1>7, <1>8, <1>9, <1>10, <1>11, <1>12, <1>13,
     <1>14, <1>15, <1>16, <1>17 DEF Main, Handler

\* A thread that runs leaves the lists alone; once it has ended it stays so.
LEMMA ThreadLife ==
    ASSUME TypeOK, Life, TickThread \/ ClientThread
    PROVE  Life'
<1> USE DEF Life, ThreadsInv, TickListInv, ClientListInv, DevicesInv, main, timer, client
<1>1. CASE TickThread
  BY <1>1 DEF TickThread, TickTest, TimeIsUp, TickWalk
<1>2. CASE ClientThread
  <2>1. UNCHANGED <<devices, tickList, timer, clientList>>
    BY <1>2 DEF ClientThread
  <2>2. clientPc \notin {"none", "ended"}
    BY <1>2 DEF ClientThread, ClientTest, ClientIdle, NotifyAll, NotifyLegacy,
       NotifyController, NotifyErased, ControllerThrows, WalkEnds, AtSubscriber
  <2>3. UNCHANGED mainPc \/ mainPc' = "terminated"
    BY <1>2 DEF ClientThread, ClientTest, ClientIdle, NotifyAll, NotifyLegacy,
       NotifyController, NotifyErased, ControllerThrows, WalkEnds, Goto
  <2> QED
    BY <2>1, <2>2, <2>3 DEF HandlerPoints
<1> QED
  BY <1>1, <1>2

\* Life is inductive.
LEMMA LifeKept == Spec => []Life
<1>1. Init => Life
  BY DEF Init, Life, ThreadsInv, TickListInv, ClientListInv, DevicesInv, HandlerPoints
<1>2. ASSUME TypeOK, Life, [Next]_vars PROVE Life'
  <2>1. CASE \E thread \in Threads : Hang(thread)
    BY <1>2, <2>1 DEF Hang, Life, ThreadsInv, TickListInv, ClientListInv, DevicesInv,
       main, timer, client
  <2>2. CASE UNCHANGED vars
    BY <1>2, <2>2 DEF vars, Life, ThreadsInv, TickListInv, ClientListInv, DevicesInv,
       main, timer, client
  <2> QED
    BY <1>2, <2>1, <2>2, MainLife, ThreadLife DEF Next
<1> QED
  BY <1>1, <1>2, TypeCorrect, PTL DEF Spec

\* The tick thread never reaches past the end of its list, although neither
\* Subscribe nor Unsubscribe takes a lock.
THEOREM TickWalkIsSafe == Spec => []TickWalkSafe
<1>1. TypeOK /\ Life => TickWalkSafe
  BY DEF TypeOK, Life, TickListInv, TickWalkSafe
<1> QED
  BY <1>1, TypeCorrect, LifeKept, PTL

\* main() returns without a running thread, and after a signal without a device
\* or a subscriber left behind.
THEOREM ReturnIsClean == Spec => []CleanReturn
<1>1. Life => CleanReturn
  BY DEF Life, ThreadsInv, TickListInv, ClientListInv, DevicesInv, CleanReturn
<1> QED
  BY <1>1, LifeKept, PTL

-----------------------------------------------------------------------------
(* The legacy device                                                       *)

\* While a telegram is owed to the legacy device, the walk is at its first element.
OwedInv ==
    /\ mainPc = "setup" => ~owed
    /\ owed /\ Running /\ Has(clientList, "legacy") =>
           clientPc = "walk" /\ clientIt = 1 /\ clientEnd >= 1

\* Where the legacy device is subscribed, it is the first.
LEMMA LegacyIsFirst ==
    ASSUME TypeOK, Life, Running, Has(clientList, "legacy")
    PROVE  clientList[1] = "legacy" /\ Len(clientList) >= 1
<1>1. mainPc # "stopped" /\ mainPc \in MainPoints /\ mainPc \notin Ended
  BY DEF TypeOK, Running, Ended
<1>2. clientList \in {<<>>, <<"controller">>, <<"legacy">>, <<"legacy", "controller">>}
  BY <1>1 DEF MainPoints, HandlerPoints, Life, ClientListInv
<1>3. ~Has(<<>>, "legacy") /\ ~Has(<<"controller">>, "legacy")
  BY DEF Has
<1> QED
  BY <1>2, <1>3

\* The steps of main() and the handler leave the walk alone, and subscribe the
\* legacy device only before there is one.
LEMMA OwedMain ==
    ASSUME TypeOK, Life, OwedInv, Main
    PROVE  OwedInv'
<1> USE DEF main, timer, client, events, Goto
<1>1. Running /\ mainPc' # "setup" /\ UNCHANGED owed
  BY DEF Main, Handler, SetUp, LinkDevice, ConfigureThrows, StartClient, StartTimer, Signal,
     StopTimer, JoinTimer, UnsubscribeFromTimer, UnsubscribeController, ClearDevice,
     UnsubscribeLegacy, Deinit, StopClient, JoinClient, JoinTimeout, Watchdog, Running, Ended,
     HandlerPoints
<1>2. CASE SetUp
  BY <1>1, <1>2 DEF SetUp, OwedInv
<1>3. CASE StartClient
  BY <1>1, <1>3 DEF StartClient, OwedInv, Life, ThreadsInv
<1>4. CASE UnsubscribeController
  <2>1. ~Has(<<"controller">>, "legacy") /\ ~Has(<<>>, "legacy")
    BY DEF Has
  <2>2. clientList \in {<<"legacy", "controller">>, <<"controller">>}
    BY <1>4 DEF UnsubscribeController, Life, ClientListInv
  <2>3. Has(<<"legacy", "controller">>, "legacy")
    BY DEF Has
  <2>4. Has(clientList', "legacy") => Has(clientList, "legacy")
    BY <1>4, <2>1, <2>2, <2>3, ListValues DEF UnsubscribeController
  <2> QED
    BY <1>1, <1>4, <2>4 DEF UnsubscribeController, OwedInv
<1>5. CASE UnsubscribeLegacy
  <2>1. clientList' = <<>>
    BY <1>5, ListValues DEF UnsubscribeLegacy, Life, ClientListInv
  <2>2. ~Has(<<>>, "legacy")
    BY DEF Has
  <2> QED
    BY <1>1, <2>1, <2>2 DEF OwedInv
<1>6. ASSUME UNCHANGED <<clientList, clientPc, clientIt, clientEnd>>
      PROVE  OwedInv'
  BY <1>1, <1>6 DEF OwedInv, Has
<1> QED
  BY <1>2, <1>3, <1>4, <1>5, <1>6
     DEF Main, Handler, LinkDevice, ConfigureThrows, StartTimer, Signal, StopTimer, JoinTimer,
         UnsubscribeFromTimer, ClearDevice, Deinit, StopClient, JoinClient, JoinTimeout, Watchdog

\* The client thread ends no walk before the legacy device was called.
LEMMA OwedClient ==
    ASSUME TypeOK, Life, OwedInv, ClientThread
    PROVE  OwedInv'
<1> USE DEF main, client
<1>1. UNCHANGED clientList /\ Running
  BY DEF ClientThread
<1>2. SUFFICES ASSUME owed', Has(clientList, "legacy"), Running'
               PROVE  clientPc' = "walk" /\ clientIt' = 1 /\ clientEnd' >= 1
  <2>1. mainPc # "setup"
    BY DEF ClientThread, ClientTest, ClientIdle, NotifyAll, NotifyLegacy, NotifyController,
       NotifyErased, ControllerThrows, WalkEnds, AtSubscriber, Life, ThreadsInv
  <2>2. mainPc' = mainPc \/ mainPc' = "terminated"
    BY DEF ClientThread, ClientTest, ClientIdle, NotifyAll, NotifyLegacy, NotifyController,
       NotifyErased, ControllerThrows, WalkEnds, Goto
  <2> QED
    BY <1>1, <2>1, <2>2 DEF OwedInv, Has
<1>3. clientList[1] = "legacy" /\ Len(clientList) >= 1
  BY <1>1, <1>2, LegacyIsFirst
<1>4. CASE NotifyAll
  BY <1>3, <1>4 DEF NotifyAll
<1>5. CASE ~NotifyAll
  <2>1. owed
    BY <1>2, <1>5 DEF ClientThread, ClientTest, ClientIdle, NotifyLegacy, NotifyController,
       NotifyErased, ControllerThrows, WalkEnds
  <2>2. clientPc = "walk" /\ clientIt = 1 /\ clientEnd >= 1
    BY <1>1, <1>2, <2>1 DEF OwedInv
  <2>3. ~ClientTest /\ ~ClientIdle /\ ~WalkEnds
    BY <2>2 DEF ClientTest, ClientIdle, WalkEnds, TypeOK
  <2>4. ~NotifyErased
    <3>1. InList
      BY <1>3, <2>2 DEF InList
    <3> QED
      BY <3>1 DEF NotifyErased
  <2>5. ~NotifyController /\ ~ControllerThrows
    BY <1>3, <2>2 DEF NotifyController, ControllerThrows
  <2>6. ~NotifyLegacy
    BY <1>2 DEF NotifyLegacy
  <2> QED
    BY <1>5, <2>3, <2>4, <2>5, <2>6 DEF ClientThread
<1> QED
  BY <1>4, <1>5

\* README: all messages are delivered to the topic of the legacy device, even when a
\* group object throws: no walk ends without it.
THEOREM LegacyIsServed == Spec => []TelegramsReachLegacy
<1>1. Init => OwedInv
  BY DEF Init, OwedInv
<1>2. ASSUME TypeOK, Life, OwedInv, [Next]_vars PROVE OwedInv'
  <2>1. CASE TickThread \/ (\E thread \in Threads : Hang(thread)) \/ UNCHANGED vars
    <3>1. UNCHANGED <<mainPc, clientList, client, owed>>
      BY <2>1 DEF TickThread, Hang, vars, main
    <3> QED
      BY <1>2, <3>1 DEF OwedInv, Running, Has, client
  <2> QED
    BY <1>2, <2>1, OwedMain, OwedClient DEF Next
<1>3. OwedInv => TelegramsReachLegacy
  BY DEF OwedInv, TelegramsReachLegacy
<1> QED
  BY <1>1, <1>2, <1>3, TypeCorrect, LifeKept, PTL DEF Spec
=============================================================================
