---------------------- MODULE KnxClientService_proofs ----------------------
(***************************************************************************)
(* TLAPS proofs about TKnxClientService, for any number of threads that    *)
(* start, stop and use it.                                                 *)
(***************************************************************************)
EXTENDS KnxClientService, TLAPS

-----------------------------------------------------------------------------
(* Type correctness                                                        *)

\* Closing a connection, or none, keeps the type of the sockets.
LEMMA SocketType ==
    ASSUME socket \in [Connections -> {"closed", "open", "broken"}],
           NEW k \in Connections \cup {None}
    PROVE  /\ CloseOld(k) \in [Connections -> {"closed", "open", "broken"}]
           /\ k \in Connections => Close(k) \in [Connections -> {"closed", "open", "broken"}]
BY DEF CloseOld, Close

\* The parts of TypeOK that the steps of a client thread change.
LEMMA ClientType ==
    ASSUME TypeOK, NEW t \in Threads, ClientThread(t)
    PROVE  TypeOK'
<1> USE DEF TypeOK, atomics, connection, activation, clients, sending, environment,
            Points, Notifications, Goto, Fail
<1>0. t \in Parties /\ None \notin Connections
  BY ClientAssumption DEF Parties
<1>1. CASE TestStarted(t)
  BY <1>1 DEF TestStarted
<1>2. CASE OpenSocket(t)
  BY <1>2, ZenonT(30) DEF OpenSocket
<1>3. CASE OpenGroupSocket(t)
  BY <1>3, SocketType, ZenonT(30) DEF OpenGroupSocket, Close
<1>4. CASE LockToPublish(t)
  BY <1>0, <1>4 DEF LockToPublish, TakeToChange, Take
<1>5. CASE Publish(t)
  BY <1>5, SocketType DEF Publish
<1>6. CASE Announce(t)
  BY <1>6 DEF Announce, Tell
<1>7. CASE NotifyReturns(t)
  <2>1. event' = [event EXCEPT ![t] = None]
        /\ UNCHANGED <<IsStarted, connection, activation, opened, heard, sending, environment>>
    BY <1>7 DEF NotifyReturns
  <2>2. CASE (Goto(t, "notify", "pollfd") \/ Goto(t, "notify", "receive")) /\ UNCHANGED IsConnected
    BY <2>1, <2>2
  <2>3. CASE Fail(t, "notify")
    BY <2>1, <2>3
  <2> QED
    BY <1>7, <2>2, <2>3, Zenon DEF NotifyReturns
<1>8. CASE NotifyThrows(t)
  BY <1>8 DEF NotifyThrows
<1>9. CASE PollFd(t)
  BY <1>9 DEF PollFd
<1>10. CASE TestReceive(t)
  BY <1>10 DEF TestReceive
<1>11. CASE Select(t)
  BY <1>11, ZenonT(30) DEF Select
<1>12. CASE GetGroup(t)
  BY <1>12 DEF GetGroup, Tell
<1>13. CASE Disconnect(t)
  BY <1>13 DEF Disconnect
<1>14. CASE LockToReset(t)
  BY <1>0, <1>14 DEF LockToReset, TakeToChange, Take
<1>15. CASE Reset(t)
  BY <1>15, SocketType DEF Reset
<1> QED
  BY <1>1, <1>2, <1>3, <1>4, <1>5, <1>6, <1>7, <1>8, <1>9, <1>10, <1>11, <1>12, <1>13,
     <1>14, <1>15 DEF ClientThread

\* Every variable keeps its type.
THEOREM TypeCorrect == Spec => []TypeOK
<1>1. Init => TypeOK
  <2> SUFFICES ASSUME Init PROVE TypeOK
    OBVIOUS
  <2>1. /\ pc \in [Threads -> Points]
        /\ opened \in [Threads -> Connections \cup {None}]
        /\ event \in [Threads -> Notifications \cup {None}]
    BY DEF Init, Points
  <2>2. /\ sendPc \in [Parties -> {"idle", "started", "lock", "send"}]
        /\ using \in [Parties -> Connections \cup {None}]
        /\ callPc \in [Callers -> {"idle", "create", "join"}]
        /\ socket \in [Connections -> {"closed", "open", "broken"}]
    BY DEF Init
  <2> QED
    BY <2>1, <2>2 DEF Init, TypeOK
<1>2. TypeOK /\ [Next]_vars => TypeOK'
  <2> SUFFICES ASSUME TypeOK, [Next]_vars
               PROVE  TypeOK'
    OBVIOUS
  <2> USE DEF atomics, connection, activation, clients, sending, environment
  <2>1. ASSUME NEW t \in Threads, ClientThread(t)
        PROVE  TypeOK'
    BY <2>1, ClientType
  <2>2. ASSUME NEW p \in Parties, Send(p)
        PROVE  TypeOK'
    BY <2>2 DEF TypeOK, Send, SendTestStarted, SendTestConnected, SendLock, SendReturns, Take
  <2>3. ASSUME NEW c \in Callers, Call(c)
        PROVE  TypeOK'
    BY <2>3, ZenonT(30) DEF TypeOK, Call, Start, MakeThread, Stop, Join, JoinTimeout, Goto, Points
  <2>4. CASE KnxdStarts
    BY <2>4 DEF TypeOK, KnxdStarts
  <2>5. CASE KnxdStops
    BY <2>5 DEF TypeOK, KnxdStops
  <2>6. CASE UNCHANGED vars
    BY <2>6 DEF TypeOK, vars
  <2> QED
    BY <2>1, <2>2, <2>3, <2>4, <2>5, <2>6 DEF Next
<1> QED
  BY <1>1, <1>2, PTL DEF Spec

-----------------------------------------------------------------------------
(* Start and Stop                                                          *)

\* What a step of a client thread leaves alone: it acts only when it is alive,
\* starts no other thread, and ends only by itself.
LEMMA ClientFrame ==
    ASSUME TypeOK, NEW t \in Threads, ClientThread(t)
    PROVE  /\ UNCHANGED <<activation, sending, IsStarted>>
           /\ pc[t] # "none"
           /\ \E point \in Points : pc' = [pc EXCEPT ![t] = point]
BY DEF TypeOK, Points, ClientThread, TestStarted, OpenSocket, OpenGroupSocket, LockToPublish,
       Publish, Announce, NotifyReturns, NotifyThrows, PollFd, TestReceive, Select, GetGroup,
       Disconnect, LockToReset, Reset, Goto, Fail, atomics

LEMMA SendFrame ==
    ASSUME NEW p \in Parties, Send(p)
    PROVE  UNCHANGED <<atomics, KnxdConnection, activation, clients, environment>>
BY DEF Send, SendTestStarted, SendTestConnected, SendLock, SendReturns, connection

LEMMA CallFrame ==
    ASSUME NEW c \in Callers, Call(c)
    PROVE  UNCHANGED <<IsConnected, connection, opened, event, heard, sending, environment>>
BY DEF Call, Start, MakeThread, Stop, Join, JoinTimeout, atomics, clients

LEMMA ServiceInvariant == Spec => []ServiceInv
<1>1. Init => ServiceInv
  BY ClientAssumption DEF Init, ServiceInv, OneClientThread, Alive
<1>2. TypeOK /\ ServiceInv /\ [Next]_vars => ServiceInv'
  <2> SUFFICES ASSUME TypeOK, ServiceInv, [Next]_vars
               PROVE  ServiceInv'
    OBVIOUS
  <2>0. /\ pc \in [Threads -> Points] /\ callPc \in [Callers -> {"idle", "create", "join"}]
        /\ None \notin Threads /\ None \notin Callers
        /\ Worker \in Threads \cup {None}
        /\ IsStarted \in BOOLEAN
    BY ClientAssumption DEF TypeOK
  <2>1. ASSUME NEW t \in Threads, ClientThread(t)
        PROVE  ServiceInv'
    <3>1. UNCHANGED <<activation, IsStarted>> /\ Alive' \subseteq Alive
      BY <2>0, <2>1, ClientFrame DEF Alive
    <3> QED
      BY <3>1 DEF ServiceInv, OneClientThread, activation
  <2>2. ASSUME UNCHANGED <<activation, IsStarted, pc>>
        PROVE  ServiceInv'
    BY <2>2 DEF ServiceInv, OneClientThread, Alive, activation
  <2>3. ASSUME NEW c \in Callers, Start(c)
        PROVE  ServiceInv'
    BY <2>0, <2>3 DEF Start, ServiceInv, OneClientThread, Alive, clients
  <2>4. ASSUME NEW c \in Callers, MakeThread(c)
        PROVE  ServiceInv'
    <3>1. PICK t \in Threads : pc' = [pc EXCEPT ![t] = "loop"] /\ Worker' = t
      BY <2>4 DEF MakeThread, Goto
    <3>2. \A u \in Threads : pc[u] = "none"
      BY <2>0, <2>4 DEF MakeThread, ServiceInv, OneClientThread, Alive
    <3>3. OneClientThread'
      BY <2>0, <3>1, <3>2 DEF OneClientThread, Alive
    <3> QED
      BY <2>0, <2>4, <3>1, <3>3 DEF MakeThread, ServiceInv, atomics
  <2>5. ASSUME NEW c \in Callers, Stop(c)
        PROVE  ServiceInv'
    BY <2>0, <2>5 DEF Stop, ServiceInv, OneClientThread, Alive, clients
  <2>6. ASSUME NEW c \in Callers, Join(c)
        PROVE  ServiceInv'
    BY <2>0, <2>6 DEF Join, Joined, ServiceInv, OneClientThread, Alive, clients, atomics
  <2>7. ASSUME NEW c \in Callers, JoinTimeout(c)
        PROVE  ServiceInv'
    BY <2>0, <2>7 DEF JoinTimeout, ServiceInv, OneClientThread, Alive, clients, atomics
  <2>8. ASSUME NEW p \in Parties, Send(p)
        PROVE  ServiceInv'
    BY <2>2, <2>8, SendFrame DEF atomics, clients
  <2> QED
    BY <2>1, <2>2, <2>3, <2>4, <2>5, <2>6, <2>7, <2>8
       DEF Next, Call, KnxdStarts, KnxdStops, vars, atomics, clients
<1> QED
  BY <1>1, <1>2, TypeCorrect, PTL DEF Spec

\* OneClientThread, for any number of callers: Start and Stop never leave two
\* client threads running, nor one that no Stop would wait for.
THEOREM OneThread == Spec => []OneClientThread
<1>1. ServiceInv => OneClientThread
  BY DEF ServiceInv
<1> QED
  BY <1>1, ServiceInvariant, PTL

-----------------------------------------------------------------------------
(* ConnectionMutex                                                         *)

LEMMA MutexInvariant == Spec => []MutexInv
<1>1. Init => MutexInv
  BY DEF Init, MutexInv, Parties
<1>2. TypeOK /\ MutexInv /\ [Next]_vars => MutexInv'
  <2> SUFFICES ASSUME TypeOK, MutexInv, [Next]_vars
               PROVE  MutexInv'
    OBVIOUS
  <2>0. /\ pc \in [Threads -> Points]
        /\ sendPc \in [Parties -> {"idle", "started", "lock", "send"}]
        /\ using \in [Parties -> Connections \cup {None}]
        /\ Threads \subseteq Parties /\ None \notin Parties
    BY ClientAssumption DEF TypeOK, Parties
  <2>1. ASSUME NEW t \in Threads, ClientThread(t)
        PROVE  MutexInv'
    <3>0. UNCHANGED <<sendPc, using>>
      BY <2>1, ClientFrame DEF sending
    <3>1. CASE LockToPublish(t) \/ LockToReset(t)
      BY <2>0, <3>0, <3>1 DEF LockToPublish, LockToReset, TakeToChange, Take, Goto, MutexInv
    <3>2. CASE Publish(t) \/ Reset(t)
      <4>1. \A p \in Parties : sendPc[p] # "send" /\ using[p] = None
        BY <2>0, <3>2 DEF Publish, Reset, Goto, MutexInv
      <4>2. /\ pc' = [pc EXCEPT ![t] = "announce"] \/ pc' = [pc EXCEPT ![t] = "loop"]
            /\ \A u \in Threads \ {t} : pc[u] \notin {"publish", "reset"}
            /\ sendPc[t] = "idle"
        BY <2>0, <3>2 DEF Publish, Reset, Goto, MutexInv
      <4> QED
        BY <2>0, <3>0, <4>1, <4>2 DEF MutexInv
    <3>3. CASE NotifyReturns(t) \/ NotifyThrows(t)
      BY <2>0, <3>0, <3>3 DEF NotifyReturns, NotifyThrows, Goto, Fail, connection, MutexInv
    <3>4. ASSUME UNCHANGED <<KnxdConnection, ConnectionMutex>>, pc[t] # "notify",
                 \E point \in Points \ {"publish", "reset"} : pc' = [pc EXCEPT ![t] = point]
          PROVE  MutexInv'
      BY <2>0, <3>0, <3>4 DEF MutexInv
    <3>5. CASE \/ TestStarted(t) \/ OpenSocket(t) \/ OpenGroupSocket(t) \/ Announce(t)
               \/ PollFd(t) \/ TestReceive(t) \/ Select(t) \/ GetGroup(t) \/ Disconnect(t)
      BY <3>4, <3>5 DEF TestStarted, OpenSocket, OpenGroupSocket, Announce, PollFd,
             TestReceive, Select, GetGroup, Disconnect, Goto, Fail, Points, connection
    <3> QED
      BY <2>1, <3>1, <3>2, <3>3, <3>5 DEF ClientThread
  <2>2. ASSUME NEW p \in Parties, Send(p)
        PROVE  MutexInv'
    <3>0. UNCHANGED <<KnxdConnection, pc>>
      BY <2>2, SendFrame DEF clients
    <3>1. CASE SendTestStarted(p) \/ SendTestConnected(p)
      BY <2>0, <3>0, <3>1 DEF SendTestStarted, SendTestConnected, connection, MutexInv
    <3>2. CASE SendLock(p)
      BY <2>0, <3>0, <3>2 DEF SendLock, Take, MutexInv
    <3>3. CASE SendReturns(p)
      BY <2>0, <3>0, <3>3 DEF SendReturns, MutexInv
    <3> QED
      BY <2>2, <3>1, <3>2, <3>3 DEF Send
  <2>3. ASSUME UNCHANGED <<connection, sending>>,
               \A t \in Threads : pc'[t] = pc[t] \/ (pc[t] = "none" /\ pc'[t] = "loop")
        PROVE  MutexInv'
    BY <2>0, <2>3 DEF MutexInv, connection, sending
  <2>4. ASSUME NEW c \in Callers, Call(c)
        PROVE  MutexInv'
    <3>1. \A t \in Threads : pc'[t] = pc[t] \/ (pc[t] = "none" /\ pc'[t] = "loop")
      BY <2>0, <2>4 DEF Call, Start, MakeThread, Stop, Join, JoinTimeout, Goto, clients
    <3> QED
      BY <2>3, <2>4, <3>1, CallFrame
  <2>5. CASE KnxdStarts \/ KnxdStops \/ UNCHANGED vars
    BY <2>3, <2>5 DEF KnxdStarts, KnxdStops, vars, clients
  <2> QED
    BY <2>1, <2>2, <2>4, <2>5 DEF Next
<1> QED
  BY <1>1, <1>2, TypeCorrect, PTL DEF Spec

-----------------------------------------------------------------------------
(* Who owns a connection                                                   *)

\* While one client thread is at work no other has a program point.
LEMMA Alone ==
    ASSUME TypeOK, OneClientThread, NEW t \in Threads, pc[t] # "none"
    PROVE  \A u \in Threads \ {t} : pc[u] = "none"
BY DEF OneClientThread, Alive

LEMMA OwnerInvariant == Spec => []OwnerInv
<1>1. Init => OwnerInv
  BY ClientAssumption DEF Init, OwnerInv, ConnectionsOwned, ConnectedIsPublished
<1>2. TypeOK /\ OneClientThread /\ OwnerInv /\ [Next]_vars => OwnerInv'
  <2> SUFFICES ASSUME TypeOK, OneClientThread, OwnerInv, [Next]_vars
               PROVE  OwnerInv'
    OBVIOUS
  <2> DEFINE typed == /\ pc \in [Threads -> Points]
                      /\ opened \in [Threads -> Connections \cup {None}]
                      /\ socket \in [Connections -> {"closed", "open", "broken"}]
                      /\ KnxdConnection \in Connections \cup {None}
                      /\ None \notin Connections
                      /\ IsConnected \in BOOLEAN
  <2>0. typed
    BY ClientAssumption DEF TypeOK
  <2> HIDE DEF typed
  <2>1. ASSUME NEW t \in Threads, ClientThread(t)
        PROVE  OwnerInv'
    <3>0. \A u \in Threads \ {t} : pc[u] = "none" /\ opened[u] = None
      BY <2>1, Alone, ClientFrame DEF OwnerInv
    <3> USE DEF typed, Goto, Fail, atomics, connection, environment
    <3>1. CASE TestStarted(t)
      BY <2>0, <3>0, <3>1 DEF TestStarted, OwnerInv, ConnectionsOwned, ConnectedIsPublished
    <3>2. CASE OpenSocket(t)
      BY <2>0, <3>0, <3>2 DEF OpenSocket, OwnerInv, ConnectionsOwned, ConnectedIsPublished
    <3>3. CASE OpenGroupSocket(t)
      BY <2>0, <3>0, <3>3 DEF OpenGroupSocket, Close, OwnerInv, ConnectionsOwned,
                              ConnectedIsPublished
    <3>4. CASE LockToPublish(t)
      BY <2>0, <3>0, <3>4 DEF LockToPublish, OwnerInv, ConnectionsOwned, ConnectedIsPublished
    <3>5. CASE Publish(t)
      BY <2>0, <3>0, <3>5 DEF Publish, CloseOld, Close, OwnerInv, ConnectionsOwned,
                              ConnectedIsPublished
    <3>6. CASE Announce(t)
      BY <2>0, <3>0, <3>6 DEF Announce, OwnerInv, ConnectionsOwned, ConnectedIsPublished
    <3>7. CASE NotifyReturns(t)
      BY <2>0, <3>0, <3>7 DEF NotifyReturns, OwnerInv, ConnectionsOwned, ConnectedIsPublished
    <3>8. CASE NotifyThrows(t)
      BY <2>0, <3>0, <3>8 DEF NotifyThrows, OwnerInv, ConnectionsOwned, ConnectedIsPublished
    <3>9. CASE PollFd(t)
      BY <2>0, <3>0, <3>9 DEF PollFd, OwnerInv, ConnectionsOwned, ConnectedIsPublished
    <3>10. CASE TestReceive(t)
      BY <2>0, <3>0, <3>10 DEF TestReceive, OwnerInv, ConnectionsOwned, ConnectedIsPublished
    <3>11. CASE Select(t)
      BY <2>0, <3>0, <3>11 DEF Select, OwnerInv, ConnectionsOwned, ConnectedIsPublished
    <3>12. CASE GetGroup(t)
      BY <2>0, <3>0, <3>12 DEF GetGroup, OwnerInv, ConnectionsOwned, ConnectedIsPublished
    <3>13. CASE Disconnect(t)
      BY <2>0, <3>0, <3>13 DEF Disconnect, OwnerInv, ConnectionsOwned, ConnectedIsPublished
    <3>14. CASE LockToReset(t)
      BY <2>0, <3>0, <3>14 DEF LockToReset, OwnerInv, ConnectionsOwned, ConnectedIsPublished
    <3>15. CASE Reset(t)
      BY <2>0, <3>0, <3>15 DEF Reset, CloseOld, Close, OwnerInv, ConnectionsOwned,
                               ConnectedIsPublished
    <3> QED
      BY <2>1, <3>1, <3>2, <3>3, <3>4, <3>5, <3>6, <3>7, <3>8, <3>9, <3>10, <3>11, <3>12,
         <3>13, <3>14, <3>15 DEF ClientThread
  <2>2. ASSUME UNCHANGED <<IsConnected, KnxdConnection, opened>>,
               \A t \in Threads : pc'[t] = pc[t] \/ (pc[t] = "none" /\ pc'[t] = "loop"),
               \A k \in Connections : socket'[k] = "closed" <=> socket[k] = "closed"
        PROVE  OwnerInv'
    BY <2>0, <2>2 DEF typed, OwnerInv, ConnectionsOwned, ConnectedIsPublished
  <2>3. ASSUME NEW p \in Parties, Send(p)
        PROVE  OwnerInv'
    BY <2>2, <2>3, SendFrame DEF atomics, clients, environment
  <2>4. ASSUME NEW c \in Callers, Call(c)
        PROVE  OwnerInv'
    <3>1. \A t \in Threads : pc'[t] = pc[t] \/ (pc[t] = "none" /\ pc'[t] = "loop")
      BY <2>0, <2>4 DEF typed, Call, Start, MakeThread, Stop, Join, JoinTimeout, Goto, clients
    <3> QED
      BY <2>2, <2>4, <3>1, CallFrame DEF connection, environment
  <2>5. CASE KnxdStops
    BY <2>0, <2>2, <2>5 DEF typed, KnxdStops, atomics, connection, clients
  <2>6. CASE KnxdStarts \/ UNCHANGED vars
    BY <2>2, <2>6 DEF KnxdStarts, vars, atomics, connection, clients, environment
  <2> QED
    BY <2>1, <2>3, <2>4, <2>5, <2>6 DEF Next
<1> QED
  BY <1>1, <1>2, TypeCorrect, OneThread, PTL DEF Spec

\* ConnectionsOwned, for any number of threads and connections: reconnecting
\* leaks no connection and closes none twice.
THEOREM NoLeak == Spec => []ConnectionsOwned
<1>1. OwnerInv => ConnectionsOwned
  BY DEF OwnerInv
<1> QED
  BY <1>1, OwnerInvariant, PTL

\* ReceiverHasConnection: the receive loop may read the pointer without the
\* mutex, in every interleaving of any number of threads.
THEOREM ReceiverSafe == Spec => []ReceiverHasConnection
<1>1. TypeOK /\ OwnerInv => ReceiverHasConnection
  BY DEF TypeOK, OwnerInv, ConnectionsOwned, ReceiverHasConnection
<1> QED
  BY <1>1, TypeCorrect, OwnerInvariant, PTL

\* ConnectedIsPublished, for any number of threads.
THEOREM ConnectedPublished == Spec => []ConnectedIsPublished
<1>1. OwnerInv => ConnectedIsPublished
  BY DEF OwnerInv
<1> QED
  BY <1>1, OwnerInvariant, PTL

\* SendKeepsConnection, for any number of senders: a connection in use by Send
\* is neither replaced nor closed.
THEOREM SendSafe == Spec => []SendKeepsConnection
<1>1. TypeOK /\ MutexInv /\ OwnerInv => SendKeepsConnection
  BY DEF TypeOK, MutexInv, OwnerInv, ConnectionsOwned, SendKeepsConnection
<1> QED
  BY <1>1, TypeCorrect, MutexInvariant, OwnerInvariant, PTL

-----------------------------------------------------------------------------
(* What the subscribers are told                                           *)

LEMMA EventInvariant == Spec => []EventInv
<1>1. Init => EventInv
  BY ClientAssumption, ZenonT(30) DEF Init, EventInv, Notifications
<1>2. TypeOK /\ OneClientThread /\ EventInv /\ [Next]_vars => EventInv'
  <2> SUFFICES ASSUME TypeOK, OneClientThread, EventInv, [Next]_vars
               PROVE  EventInv'
    OBVIOUS
  <2> DEFINE typed == /\ pc \in [Threads -> Points]
                      /\ event \in [Threads -> Notifications \cup {None}]
                      /\ None \notin Notifications
  <2>0. typed
    BY ClientAssumption DEF TypeOK
  <2> HIDE DEF typed
  <2>1. ASSUME NEW t \in Threads, ClientThread(t)
        PROVE  EventInv'
    <3>0. \A u \in Threads \ {t} : pc[u] = "none" /\ event[u] = None
      BY <2>1, Alone, ClientFrame DEF EventInv
    <3> USE DEF typed, Goto, Fail, Tell, Notifications
    <3>1. CASE Announce(t)
      BY <2>0, <3>0, <3>1 DEF Announce, EventInv
    <3>2. CASE NotifyReturns(t) \/ NotifyThrows(t)
      BY <2>0, <3>0, <3>2 DEF NotifyReturns, NotifyThrows, EventInv
    <3>3. CASE GetGroup(t)
      BY <2>0, <3>0, <3>3 DEF GetGroup, EventInv
    <3>4. CASE \/ TestStarted(t) \/ OpenSocket(t) \/ OpenGroupSocket(t) \/ LockToPublish(t)
               \/ Publish(t) \/ PollFd(t) \/ TestReceive(t) \/ Select(t) \/ Disconnect(t)
               \/ LockToReset(t) \/ Reset(t)
      BY <2>0, <3>0, <3>4 DEF TestStarted, OpenSocket, OpenGroupSocket, LockToPublish,
             Publish, PollFd, TestReceive, Select, Disconnect, LockToReset, Reset, EventInv
    <3> QED
      BY <2>1, <3>1, <3>2, <3>3, <3>4 DEF ClientThread
  <2>2. ASSUME UNCHANGED <<event, heard>>,
               \A t \in Threads : pc'[t] = pc[t] \/ (pc[t] = "none" /\ pc'[t] = "loop")
        PROVE  EventInv'
    BY <2>0, <2>2 DEF typed, EventInv
  <2>3. ASSUME NEW p \in Parties, Send(p)
        PROVE  EventInv'
    BY <2>2, <2>3, SendFrame DEF clients
  <2>4. ASSUME NEW c \in Callers, Call(c)
        PROVE  EventInv'
    <3>1. \A t \in Threads : pc'[t] = pc[t] \/ (pc[t] = "none" /\ pc'[t] = "loop")
      BY <2>0, <2>4 DEF typed, Call, Start, MakeThread, Stop, Join, JoinTimeout, Goto, clients
    <3> QED
      BY <2>2, <2>4, <3>1, CallFrame
  <2>5. CASE KnxdStarts \/ KnxdStops \/ UNCHANGED vars
    BY <2>2, <2>5 DEF KnxdStarts, KnxdStops, vars, clients
  <2> QED
    BY <2>1, <2>3, <2>4, <2>5 DEF Next
<1> QED
  BY <1>1, <1>2, TypeCorrect, OneThread, PTL DEF Spec

\* EventsInOrder, for any number of threads: notifications never overlap, and
\* no telegram or socket error is notified without a connection before it.
THEOREM EventsOrdered == Spec => EventsInOrder
<1> DEFINE told == {event[t] : t \in Threads} \ {None}
<1>1. Init => Events!Init
  BY DEF Init, Events!Init
<1>2. TypeOK /\ OneClientThread /\ EventInv /\ [Next]_vars
         => [Events!Next]_<<heard, told>>
  <2> SUFFICES ASSUME TypeOK, OneClientThread, EventInv, [Next]_vars
               PROVE  [Events!Next]_<<heard, told>>
    OBVIOUS
  <2>0. event \in [Threads -> Notifications \cup {None}] /\ None \notin Notifications
    BY ClientAssumption DEF TypeOK
  <2>1. ASSUME NEW t \in Threads, ClientThread(t)
        PROVE  [Events!Next]_<<heard, told>>
    <3>0. \A u \in Threads \ {t} : event[u] = None
      BY <2>1, Alone, ClientFrame DEF EventInv
    <3>1. told = {event[t]} \ {None}
      BY <3>0
    <3>2. ASSUME NEW what \in Notifications \cup {None}, event' = [event EXCEPT ![t] = what]
          PROVE  told' = {what} \ {None}
      BY <2>0, <3>0, <3>2
    <3>3. pc[t] # "notify" => told = {}
      BY <3>1 DEF EventInv
    <3> HIDE DEF told
    <3>4. CASE Announce(t)
      <4>1. told = {} /\ told' = {"KnxdSocketConnected"} /\ heard' = "KnxdSocketConnected"
        BY <2>0, <3>2, <3>3, <3>4 DEF Announce, Tell, Goto, Notifications
      <4> QED
        BY <4>1 DEF Events!Next, Events!Connected, told
    <3>5. CASE GetGroup(t)
      <4>1. told = {} /\ heard = "KnxdSocketConnected"
        BY <3>3, <3>5 DEF GetGroup, EventInv
      <4>2. CASE Tell(t, "ReceivedTelegram")
        <5> told' = {"ReceivedTelegram"} /\ heard' = heard
          BY <2>0, <3>2, <4>2 DEF Tell, Notifications
        <5> QED
          BY <4>1 DEF Events!Next, Events!Telegram, told
      <4>3. CASE Tell(t, "KnxdSocketError")
        <5> told' = {"KnxdSocketError"} /\ heard' = "KnxdSocketError"
          BY <2>0, <3>2, <4>3 DEF Tell, Notifications
        <5> QED
          BY <4>1 DEF Events!Next, Events!Lost, told
      <4>4. CASE UNCHANGED <<event, heard>>
        BY <4>4 DEF told
      <4> QED
        BY <3>5, <4>2, <4>3, <4>4 DEF GetGroup
    <3>6. CASE NotifyReturns(t) \/ NotifyThrows(t)
      <4>1. told # {} /\ told' = {} /\ heard' = heard
        BY <2>0, <3>1, <3>2, <3>6 DEF NotifyReturns, NotifyThrows, Goto, Fail, EventInv
      <4> QED
        BY <4>1 DEF Events!Next, Events!Return, told
    <3>7. CASE \/ TestStarted(t) \/ OpenSocket(t) \/ OpenGroupSocket(t) \/ LockToPublish(t)
               \/ Publish(t) \/ PollFd(t) \/ TestReceive(t) \/ Select(t) \/ Disconnect(t)
               \/ LockToReset(t) \/ Reset(t)
      <4> UNCHANGED <<event, heard>>
        BY <3>7 DEF TestStarted, OpenSocket, OpenGroupSocket, LockToPublish,
             Publish, PollFd, TestReceive, Select, Disconnect, LockToReset, Reset
      <4> QED
        BY DEF told
    <3> QED
      BY <2>1, <3>4, <3>5, <3>6, <3>7 DEF ClientThread
  <2>2. CASE UNCHANGED <<event, heard>>
    BY <2>2
  <2> QED
    BY <2>1, <2>2, SendFrame, CallFrame DEF Next, KnxdStarts, KnxdStops, vars, clients
<1> QED
  BY <1>1, <1>2, TypeCorrect, OneThread, EventInvariant, PTL
     DEF Spec, EventsInOrder, Events!Spec
=============================================================================
