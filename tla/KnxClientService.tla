-------------------------- MODULE KnxClientService --------------------------
(***************************************************************************)
(* TKnxClientService: the thread that connects to knxd, receives telegrams *)
(* and notifies the subscribers; Send, called by any thread, its own       *)
(* subscribers included; Start and Stop.  A step is what happens between   *)
(* two accesses to what other threads share: the atomics IsStarted and     *)
(* IsConnected, ConnectionMutex and the KnxdConnection it guards against   *)
(* Send (the client thread reads the pointer without it), ActiveMutex.     *)
(*                                                                         *)
(* knxd is the environment: it may stop at any time, which breaks every    *)
(* open connection, and start again.                                       *)
(***************************************************************************)
EXTENDS Naturals

CONSTANTS Threads,       \* identities of client threads; a finished one is reused
          Senders,       \* the other threads that call Send
          Callers,       \* the threads that call Start and Stop
          Connections,   \* EIBConnection objects; a closed one is reused
          None,          \* nobody, no thread, no connection, no event
          MayHang        \* a call into knxd or a subscriber may outlast Stop

Notifications == {"KnxdSocketConnected", "KnxdSocketError", "ReceivedTelegram"}

ASSUME ClientAssumption ==
    /\ None \notin Notifications
    /\ None \notin Threads \cup Senders \cup Callers \cup Connections
    /\ Threads \cap Senders = {}
    /\ MayHang \in BOOLEAN

VARIABLES
    IsStarted, IsConnected,
    KnxdConnection,     \* the published connection
    ConnectionMutex,    \* who holds it
    Worker,             \* the thread the service owns
    ActiveMutex,        \* who holds it
    pc,                 \* client threads: program point
    opened,             \* client threads: the local connection not yet published
    event,              \* client threads: the event being notified
    sendPc,             \* program point of a call of Send
    using,              \* the connection EIBSendGroup was called with
    callPc,             \* program point of a call of Start or Stop
    terminated,         \* std::terminate was called
    socket,             \* environment: the state of each connection
    knxdUp,             \* environment: knxd accepts connections
    heard               \* history: the last connection event notified

atomics     == <<IsStarted, IsConnected>>
connection  == <<KnxdConnection, ConnectionMutex>>
activation  == <<Worker, ActiveMutex, callPc, terminated>>
clients     == <<pc, opened, event, heard>>
sending     == <<sendPc, using>>
environment == <<socket, knxdUp>>
vars == <<atomics, connection, activation, clients, sending, environment>>

\* The program points of a client thread: not running; the test of IsStarted;
\* EIBSocketURL; EIBOpen_GroupSocket; publishing the connection, first waiting
\* for the mutex; IsConnected; a notification; EIB_Poll_FD; the receive loop's
\* test, select and EIBGetGroup_Src; and closing the connection.
Points == {"none", "loop", "open", "group", "lock", "publish", "announce", "notify",
           "pollfd", "receive", "select", "get", "disconnect", "relock", "reset"}

Parties == Threads \cup Senders

TypeOK ==
    /\ IsStarted \in BOOLEAN /\ IsConnected \in BOOLEAN
    /\ KnxdConnection \in Connections \cup {None}
    /\ ConnectionMutex \in Parties \cup {None}
    /\ Worker \in Threads \cup {None}
    /\ ActiveMutex \in Callers \cup {None}
    /\ pc \in [Threads -> Points]
    /\ opened \in [Threads -> Connections \cup {None}]
    /\ event \in [Threads -> Notifications \cup {None}]
    /\ sendPc \in [Parties -> {"idle", "started", "lock", "send"}]
    /\ using \in [Parties -> Connections \cup {None}]
    /\ callPc \in [Callers -> {"idle", "create", "join"}]
    /\ terminated \in BOOLEAN
    /\ socket \in [Connections -> {"closed", "open", "broken"}]
    /\ knxdUp \in BOOLEAN
    /\ heard \in {"KnxdSocketConnected", "KnxdSocketError", None}

Init ==
    /\ IsStarted = FALSE /\ IsConnected = FALSE
    /\ KnxdConnection = None /\ ConnectionMutex = None
    /\ Worker = None /\ ActiveMutex = None
    /\ pc = [t \in Threads |-> "none"]
    /\ opened = [t \in Threads |-> None]
    /\ event = [t \in Threads |-> None]
    /\ sendPc = [p \in Parties |-> "idle"]
    /\ using = [p \in Parties |-> None]
    /\ callPc = [c \in Callers |-> "idle"]
    /\ terminated = FALSE
    /\ socket = [k \in Connections |-> "closed"]
    /\ knxdUp \in BOOLEAN
    /\ heard = None

-----------------------------------------------------------------------------
(* The client thread: connecting                                           *)

Goto(t, from, to) == pc[t] = from /\ pc' = [pc EXCEPT ![t] = to]

\* fault: the exception ends the thread
FailForEver(t, from) ==
    /\ Goto(t, from, "none")
    /\ IsConnected' = FALSE

\* HandleCriticalError: the exception leads to the test of IsStarted.
Fail(t, from) ==
    /\ Goto(t, from, "loop")
    /\ IsConnected' = FALSE

Close(k) == [socket EXCEPT ![k] = "closed"]

TestStarted(t) ==
    /\ Goto(t, "loop", IF IsStarted THEN "open" ELSE "none")
    /\ UNCHANGED <<atomics, connection, activation, opened, event, heard, sending, environment>>

\* TKnxConnection's constructor.
OpenSocket(t) ==
    \/ /\ knxdUp
       /\ Goto(t, "open", "group")
       /\ \E k \in Connections :
              /\ socket[k] = "closed"
              /\ socket' = [socket EXCEPT ![k] = "open"]
              /\ opened' = [opened EXCEPT ![t] = k]
       /\ UNCHANGED <<atomics, connection, activation, event, heard, sending, knxdUp>>
    \/ /\ ~knxdUp
       /\ Fail(t, "open")
       /\ UNCHANGED <<IsStarted, connection, activation, opened, event, heard,
                      sending, environment>>

\* On a failure the local connection is closed by its destructor.
OpenGroupSocket(t) ==
    \/ /\ Goto(t, "group", "lock")
       /\ socket[opened[t]] = "open"
       /\ UNCHANGED <<atomics, connection, activation, opened, event, heard,
                      sending, environment>>
    \/ /\ Fail(t, "group")
       /\ socket[opened[t]] = "broken"
       /\ socket' = Close(opened[t])
       /\ opened' = [opened EXCEPT ![t] = None]
       /\ UNCHANGED <<IsStarted, connection, activation, event, heard, sending, knxdUp>>

\* std::lock_guard on ConnectionMutex.
Take(p) == ConnectionMutex = None /\ ConnectionMutex' = p
TakeNothing(p) == UNCHANGED ConnectionMutex      \* fault: no lock is taken
TakeToChange(t) == Take(t)

LockToPublish(t) ==
    /\ Goto(t, "lock", "publish")
    /\ TakeToChange(t)
    /\ UNCHANGED <<atomics, KnxdConnection, activation, opened, event, heard,
                   sending, environment>>

CloseNothing(k) == socket     \* fault: unique_ptr::release for reset
CloseOld(k) == IF k = None THEN socket ELSE Close(k)

\* KnxdConnection = std::move(connection): the old connection, kept since the
\* error that ended it, is closed.  Then the mutex is released.
Publish(t) ==
    /\ Goto(t, "publish", "announce")
    /\ KnxdConnection' = opened[t]
    /\ socket' = CloseOld(KnxdConnection)
    /\ opened' = [opened EXCEPT ![t] = None]
    /\ ConnectionMutex' = None
    /\ UNCHANGED <<atomics, activation, event, heard, sending, knxdUp>>

\* fault: telegrams count as connection events
TellAll(t, what) ==
    /\ event' = [event EXCEPT ![t] = what]
    /\ heard' = what

\* NotifyAllSubscribers begins.
Tell(t, what) ==
    /\ event' = [event EXCEPT ![t] = what]
    /\ heard' = IF what = "ReceivedTelegram" THEN heard ELSE what

\* IsConnected is set before the subscribers are told.
Announce(t) ==
    /\ Goto(t, "announce", "notify")
    /\ IsConnected' = TRUE
    /\ Tell(t, "KnxdSocketConnected")
    /\ UNCHANGED <<IsStarted, connection, activation, opened, sending, environment>>

\* The subscribers return; meanwhile they may have called Send, on this thread.
NotifyReturns(t) ==
    /\ sendPc[t] = "idle"
    /\ \/ /\ event[t] = "KnxdSocketConnected"
          /\ Goto(t, "notify", "pollfd")
          /\ UNCHANGED IsConnected
       \/ /\ event[t] = "ReceivedTelegram"
          /\ Goto(t, "notify", "receive")
          /\ UNCHANGED IsConnected
       \/ /\ event[t] = "KnxdSocketError"
          /\ Fail(t, "notify")
    /\ event' = [event EXCEPT ![t] = None]
    /\ UNCHANGED <<IsStarted, connection, activation, opened, heard, sending, environment>>

\* A subscriber throws a std::runtime_error.  It ends the connection without
\* HandleCriticalError, except for a telegram, whose handler catches it.
NotifyThrows(t) ==
    /\ sendPc[t] = "idle"
    /\ event[t] # "ReceivedTelegram"
    /\ Goto(t, "notify", "loop")
    /\ event' = [event EXCEPT ![t] = None]
    /\ UNCHANGED <<atomics, connection, activation, opened, heard, sending, environment>>

-----------------------------------------------------------------------------
(* The client thread: receiving and disconnecting                          *)

PollFd(t) ==
    \/ /\ Goto(t, "pollfd", "receive")
       /\ UNCHANGED <<atomics, connection, activation, opened, event, heard,
                      sending, environment>>
    \/ /\ Fail(t, "pollfd")
       /\ UNCHANGED <<IsStarted, connection, activation, opened, event, heard,
                      sending, environment>>

\* fault: the receive loop runs until an error ends it
TestReceiveForEver(t) ==
    /\ Goto(t, "receive", "select")
    /\ UNCHANGED <<atomics, connection, activation, opened, event, heard,
                   sending, environment>>

TestReceive(t) ==
    /\ Goto(t, "receive", IF IsStarted THEN "select" ELSE "disconnect")
    /\ UNCHANGED <<atomics, connection, activation, opened, event, heard,
                   sending, environment>>

\* A broken connection is readable; select itself may fail at any time.
Select(t) ==
    \/ /\ Goto(t, "select", "receive")
       /\ socket[KnxdConnection] = "open"
       /\ UNCHANGED <<atomics, connection, activation, opened, event, heard,
                      sending, environment>>
    \/ /\ Goto(t, "select", "get")
       /\ UNCHANGED <<atomics, connection, activation, opened, event, heard,
                      sending, environment>>
    \/ /\ Fail(t, "select")
       /\ UNCHANGED <<IsStarted, connection, activation, opened, event, heard,
                      sending, environment>>

\* fault: a failed read is logged and the loop goes on
GetGroupGoesOn(t) ==
    /\ pc[t] = "get"
    /\ \/ /\ socket[KnxdConnection] = "open"
          /\ Goto(t, "get", "notify") /\ Tell(t, "ReceivedTelegram")
       \/ Goto(t, "get", "receive") /\ UNCHANGED <<event, heard>>
    /\ UNCHANGED <<atomics, connection, activation, opened, sending, environment>>

\* A telegram whose TPDU does not parse is only logged.
GetGroup(t) ==
    /\ pc[t] = "get"
    /\ \/ /\ socket[KnxdConnection] = "open"
          /\ \/ Goto(t, "get", "notify") /\ Tell(t, "ReceivedTelegram")
             \/ Goto(t, "get", "receive") /\ UNCHANGED <<event, heard>>
       \/ /\ socket[KnxdConnection] = "broken"
          /\ Goto(t, "get", "notify")
          /\ Tell(t, "KnxdSocketError")
    /\ UNCHANGED <<atomics, connection, activation, opened, sending, environment>>

DisconnectSilently(t) ==      \* fault: IsConnected stays set
    /\ Goto(t, "disconnect", "relock")
    /\ UNCHANGED <<atomics, connection, activation, opened, event, heard, sending, environment>>

Disconnect(t) ==
    /\ Goto(t, "disconnect", "relock")
    /\ IsConnected' = FALSE
    /\ UNCHANGED <<IsStarted, connection, activation, opened, event, heard,
                   sending, environment>>

LockToReset(t) ==
    /\ Goto(t, "relock", "reset")
    /\ TakeToChange(t)
    /\ UNCHANGED <<atomics, KnxdConnection, activation, opened, event, heard,
                   sending, environment>>

\* fault: the mutex is not released
ResetKeepsLock(t) ==
    /\ Goto(t, "reset", "loop")
    /\ KnxdConnection' = None
    /\ socket' = CloseOld(KnxdConnection)
    /\ UNCHANGED <<ConnectionMutex, atomics, activation, opened, event, heard, sending, knxdUp>>

Reset(t) ==
    /\ Goto(t, "reset", "loop")
    /\ KnxdConnection' = None
    /\ socket' = CloseOld(KnxdConnection)
    /\ ConnectionMutex' = None
    /\ UNCHANGED <<atomics, activation, opened, event, heard, sending, knxdUp>>

ClientThread(t) ==
    \/ TestStarted(t) \/ OpenSocket(t) \/ OpenGroupSocket(t) \/ LockToPublish(t)
    \/ Publish(t) \/ Announce(t) \/ NotifyReturns(t) \/ NotifyThrows(t) \/ PollFd(t)
    \/ TestReceive(t) \/ Select(t) \/ GetGroup(t) \/ Disconnect(t) \/ LockToReset(t)
    \/ Reset(t)

-----------------------------------------------------------------------------
(* Send                                                                    *)

\* The client thread calls Send from a notification only.  A call that finds
\* the service stopped, or disconnected, returns.
SendTestStarted(p) ==
    /\ sendPc[p] = "idle"
    /\ p \in Threads => pc[p] = "notify"
    /\ IsStarted
    /\ sendPc' = [sendPc EXCEPT ![p] = "started"]
    /\ UNCHANGED <<atomics, connection, activation, clients, using, environment>>

SendTestConnected(p) ==
    /\ sendPc[p] = "started"
    /\ sendPc' = [sendPc EXCEPT ![p] = IF IsConnected THEN "lock" ELSE "idle"]
    /\ UNCHANGED <<atomics, connection, activation, clients, using, environment>>

\* With the mutex held the pointer is read; null is a failed send.
SendLock(p) ==
    /\ sendPc[p] = "lock"
    /\ Take(p)
    /\ sendPc' = [sendPc EXCEPT ![p] = "send"]
    /\ using' = [using EXCEPT ![p] = KnxdConnection]
    /\ UNCHANGED <<atomics, KnxdConnection, activation, clients, environment>>

SendReturns(p) ==
    /\ sendPc[p] = "send"
    /\ ConnectionMutex' = None
    /\ sendPc' = [sendPc EXCEPT ![p] = "idle"]
    /\ using' = [using EXCEPT ![p] = None]
    /\ UNCHANGED <<atomics, KnxdConnection, activation, clients, environment>>

Send(p) == SendTestStarted(p) \/ SendTestConnected(p) \/ SendLock(p) \/ SendReturns(p)

-----------------------------------------------------------------------------
(* Start and Stop.  A call that finds the service in the state asked for   *)
(* logs an error and changes nothing.                                      *)

Start(c) ==
    /\ callPc[c] = "idle"
    /\ ActiveMutex = None
    /\ ~IsStarted
    /\ IsStarted' = TRUE
    /\ ActiveMutex' = c
    /\ callPc' = [callPc EXCEPT ![c] = "create"]
    /\ UNCHANGED <<IsConnected, connection, Worker, terminated, clients, sending, environment>>

MakeThread(c) ==
    /\ callPc[c] = "create"
    /\ \E t \in Threads :
           /\ Goto(t, "none", "loop")
           /\ Worker' = t
    /\ ActiveMutex' = None
    /\ callPc' = [callPc EXCEPT ![c] = "idle"]
    /\ UNCHANGED <<atomics, connection, terminated, opened, event, heard, sending, environment>>

Stop(c) ==
    /\ callPc[c] = "idle"
    /\ ActiveMutex = None
    /\ IsStarted
    /\ IsStarted' = FALSE
    /\ ActiveMutex' = c
    /\ callPc' = [callPc EXCEPT ![c] = "join"]
    /\ UNCHANGED <<IsConnected, connection, Worker, terminated, clients, sending, environment>>

JoinedAtOnce(t) == TRUE          \* fault: the thread is not waited for
Joined(t) == pc[t] = "none"

Join(c) ==
    /\ callPc[c] = "join"
    /\ Joined(Worker)
    /\ Worker' = None
    /\ ActiveMutex' = None
    /\ callPc' = [callPc EXCEPT ![c] = "idle"]
    /\ UNCHANGED <<atomics, connection, terminated, clients, sending, environment>>

\* wait_for times out while the thread is in a call without a time limit of its
\* own: Worker.reset() destroys a std::thread that is not joined yet.
JoinTimeout(c) ==
    /\ MayHang
    /\ callPc[c] = "join"
    /\ pc[Worker] \in {"open", "group", "notify", "get"}
    /\ terminated' = TRUE
    /\ UNCHANGED <<atomics, connection, Worker, ActiveMutex, callPc, clients,
                   sending, environment>>

Call(c) == Start(c) \/ MakeThread(c) \/ Stop(c) \/ Join(c) \/ JoinTimeout(c)

-----------------------------------------------------------------------------
(* knxd                                                                    *)

KnxdStarts ==
    /\ ~knxdUp
    /\ knxdUp' = TRUE
    /\ UNCHANGED <<atomics, connection, activation, clients, sending, socket>>

KnxdStops ==
    /\ knxdUp
    /\ knxdUp' = FALSE
    /\ socket' = [k \in Connections |-> IF socket[k] = "open" THEN "broken" ELSE socket[k]]
    /\ UNCHANGED <<atomics, connection, activation, clients, sending>>

-----------------------------------------------------------------------------
Next ==
    /\ ~terminated
    /\ \/ \E t \in Threads : ClientThread(t)
       \/ \E p \in Parties : Send(p)
       \/ \E c \in Callers : Call(c)
       \/ KnxdStarts \/ KnxdStops

Spec == Init /\ [][Next]_vars

\* The operating system schedules every thread and, since nobody keeps the
\* mutex, lets none wait for it for ever; a notification is a finite loop and
\* EIBSendGroup returns.  Nothing is assumed of who calls what, of knxd, of
\* what is received, or of which of its outcomes select has.
Fairness ==
    /\ \A t \in Threads :
           /\ WF_vars(~terminated /\ (ClientThread(t) \/ SendTestConnected(t) \/ SendReturns(t)))
           /\ SF_vars(~terminated /\ (LockToPublish(t) \/ LockToReset(t)))
           /\ SF_vars(~terminated /\ SendLock(t))
           /\ SF_vars(~terminated /\ (NotifyReturns(t) \/ NotifyThrows(t)))
    /\ \A p \in Senders :
           /\ WF_vars(~terminated /\ (SendTestConnected(p) \/ SendReturns(p)))
           /\ SF_vars(~terminated /\ SendLock(p))
    /\ \A c \in Callers : WF_vars(~terminated /\ (MakeThread(c) \/ Join(c)))

FairSpec == Spec /\ Fairness

-----------------------------------------------------------------------------
(* Properties                                                              *)

Alive == {t \in Threads : pc[t] # "none"}

\* However Start and Stop are called, one client thread runs at most, and it is
\* the one the service owns and the next Stop waits for.
OneClientThread == Alive \subseteq {Worker}

\* Why it holds: ActiveMutex covers a call of Start until the thread is there,
\* and a call of Stop until it is gone.
ServiceInv ==
    /\ \A c \in Callers :
           /\ callPc[c] # "idle" <=> ActiveMutex = c
           /\ callPc[c] = "create" => IsStarted /\ Worker = None
           /\ callPc[c] = "join" => ~IsStarted /\ Worker # None
    /\ ActiveMutex = None => (IsStarted <=> Worker # None)
    /\ OneClientThread

\* A Send in progress, on any thread, keeps the connection it read: the client
\* thread neither closes nor replaces it meanwhile.
SendKeepsConnection ==
    \A p \in Parties :
        using[p] # None => using[p] = KnxdConnection /\ socket[using[p]] # "closed"

\* Why it holds: who changes or uses the pointer holds the mutex, and a client
\* thread is never in Send and changing the pointer at once.
MutexInv ==
    /\ \A p \in Parties :
           /\ sendPc[p] = "send" => ConnectionMutex = p
           /\ using[p] # None => sendPc[p] = "send" /\ using[p] = KnxdConnection
    /\ \A t \in Threads :
           /\ pc[t] \in {"publish", "reset"} => ConnectionMutex = t
           /\ sendPc[t] # "idle" => pc[t] = "notify"

\* The receive loop reads the pointer without the mutex: it is never null
\* there, and no Send or Stop has closed what it points to.
ReceiverHasConnection ==
    \A t \in Threads :
        pc[t] \in {"announce", "notify", "pollfd", "receive", "select", "get"} =>
            KnxdConnection # None /\ socket[KnxdConnection] # "closed"

\* Every connection that was opened and not closed has one owner: reconnecting
\* leaks none, whatever fails on the way, and none is closed twice.
ConnectionsOwned ==
    \A k \in Connections :
        /\ socket[k] # "closed" <=> k = KnxdConnection \/ \E t \in Threads : opened[t] = k
        /\ \A t \in Threads : opened[t] = k => k # KnxdConnection

\* IsConnected promises Send a published connection; it is cleared before the
\* connection goes.
ConnectedIsPublished == IsConnected => KnxdConnection # None

\* Why these hold: the program point of the one thread tells what it owns.
OwnerInv ==
    /\ ConnectionsOwned
    /\ ConnectedIsPublished
    /\ \A t \in Threads :
           /\ opened[t] # None <=> pc[t] \in {"group", "lock", "publish"}
           /\ pc[t] \in {"announce", "notify", "pollfd", "receive", "select", "get"}
                  => KnxdConnection # None
           /\ pc[t] \in {"relock", "reset"} => ~IsConnected

\* What the subscribers see is what KnxEventSource promises them.
Events == INSTANCE KnxEventSource
              WITH NoEvent <- None,
                   notifying <- {event[t] : t \in Threads} \ {None}
EventsInOrder == Events!Spec

\* Why it holds: between two connection events the thread that was told of the
\* connection is the only one there is.
EventInv ==
    \A t \in Threads :
        /\ event[t] # None <=> pc[t] = "notify"
        /\ pc[t] \in {"pollfd", "receive", "select", "get"} => heard = "KnxdSocketConnected"
        /\ event[t] \in {"KnxdSocketConnected", "ReceivedTelegram"}
               => heard = "KnxdSocketConnected"

\* std::terminate is not among the outcomes of Stop.  main() means to leave a
\* slow shutdown to its watchdog, which exits with an error after 60 s.
StopNeverTerminates == ~terminated

\* What follows holds of a program that std::terminate has not ended.

\* A call of Stop that has started to wait returns.
StopReturns == \A c \in Callers : callPc[c] = "join" ~> callPc[c] = "idle" \/ terminated

\* A call of Send that waits for the mutex gets its turn and returns.
SendEnds == \A p \in Parties : sendPc[p] = "lock" ~> sendPc[p] = "idle" \/ terminated

\* A started service connects again and again as long as knxd is up for good.
Reconnects == <>[](IsStarted /\ knxdUp /\ ~terminated) => []<>IsConnected

\* A service that stays started does not keep a broken connection for ever: it
\* is replaced, or Send is told that there is none.
BreakIsNoticed ==
    \A k \in Connections :
        KnxdConnection = k /\ socket[k] = "broken"
            ~> KnxdConnection # k \/ socket[k] # "broken" \/ ~IsConnected \/ ~IsStarted \/ terminated
=============================================================================
