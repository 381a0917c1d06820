----------------------- MODULE GroupObjectController -----------------------
(***************************************************************************)
(* TKnxGroupObjectController: the map from group addresses to group        *)
(* objects, filled by AddGroupObject before the services start, and the    *)
(* two Notify handlers that walk it afterwards on two threads with no lock *)
(* between them: the tick timer thread polls the objects and supervises    *)
(* the answers, the knxd client thread delivers answers and events.        *)
(*                                                                         *)
(* Each object stands for its list item too: Configurator creates a fresh  *)
(* object for every AddGroupObject call.  A map entry is visited in steps, *)
(* one for each access to what the other thread may touch in between.      *)
(***************************************************************************)
EXTENDS Integers

CONSTANTS Addresses,     \* EIB group addresses, ordered as std::map orders them
          Objects,       \* the group objects of the configuration
          NullObjects,   \* those the builder cannot create, given as null
          NoObject,      \* an address with no map entry
          NoAddress,     \* no feedback address
          TickInterval,  \* milliseconds between two ticks
          Settings       \* the TGroupObjectSettings of each object

ASSUME ControllerAssumption ==
    /\ Addresses \subseteq Nat
    /\ NoObject \notin Objects
    /\ NullObjects \subseteq Objects
    /\ NoAddress \notin Addresses
    /\ TickInterval \in Nat \ {0}
    /\ Settings \in [Objects -> [GroupAddress : Addresses,
                                 FeedbackGroupAddress : Addresses \cup {NoAddress},
                                 ReadRequestPollInterval : Nat,
                                 ReadResponseTimeout : Nat]]

VARIABLES
    GroupObjectList,    \* the std::map
    result,             \* what AddGroupObject returned for each object
    running,            \* the services are started, the map is final
    Counter,            \* visits left before the next poll
    TimeoutCounter,     \* visits left before the timeout is reported
    StartTimeoutTimer,  \* the one field both threads write
    error,              \* the object's error as last set by KnxNotifyEvent
    tickPc, tickIt,     \* tick thread: program point and map iterator
    workPc, workIt,     \* knxd client thread: the same for the event loop
    workEvent,          \* the last connection event it notified
    poll,               \* history: the fate of the last poll, see PollContract
    elapsed             \* history: ticks begun since the last poll

registry == <<GroupObjectList, result, running>>
timers   == <<Counter, TimeoutCounter, StartTimeoutTimer>>
tick     == <<tickPc, tickIt>>
worker   == <<workPc, workIt, workEvent>>
history  == <<poll, elapsed>>
vars     == <<registry, timers, error, tick, worker, history>>

Apcis == {"GroupValueRead", "GroupValueWrite", "GroupValueResponse"}

TickPoints == {"sleep", "timeout", "expire", "report", "poll", "send", "arm"}

PollInterval(o) == Settings[o].ReadRequestPollInterval \div TickInterval
Timeout(o)      == Settings[o].ReadResponseTimeout \div TickInterval

Entries      == {a \in Addresses : GroupObjectList[a] # NoObject}
EntriesOf(o) == {a \in Addresses : GroupObjectList[a] = o}

\* Iteration in address order: a is where the loop over S begins, and what
\* ++iterator does to a loop at the entry `it`.
IsLeast(a, S) == a \in S /\ \A b \in S : a <= b
AfterNothing(it) == {}          \* fault: the loop ends after one entry
After(it)     == {a \in Entries : a > it}

TypeOK ==
    /\ GroupObjectList \in [Addresses -> Objects \cup {NoObject}]
    /\ result \in [Objects -> {"none", "true", "false"}]
    /\ running \in BOOLEAN
    /\ Counter \in [Objects -> Nat]
    /\ TimeoutCounter \in [Objects -> Nat]
    /\ StartTimeoutTimer \in [Objects -> BOOLEAN]
    /\ error \in [Objects -> {"", "timeout", "socket"}]
    /\ tickPc \in TickPoints
    /\ tickIt \in Addresses \cup {NoAddress}
    /\ tickPc # "sleep" => running /\ tickIt \in Entries
    /\ workPc \in {"idle", "event"}
    /\ workIt \in Addresses \cup {NoAddress}
    /\ workPc # "idle" => running /\ workIt \in Entries
    /\ workEvent \in {"None", "KnxdSocketConnected", "KnxdSocketError"}
    /\ workEvent # "None" => running
    /\ poll \in [Objects -> {"none", "waiting", "early", "answered", "reported"}]
    /\ elapsed \in [Objects -> Nat]

Init ==
    /\ GroupObjectList = [a \in Addresses |-> NoObject]
    /\ result = [o \in Objects |-> "none"]
    /\ running = FALSE
    /\ Counter = [o \in Objects |-> 0]
    /\ TimeoutCounter = [o \in Objects |-> 0]
    /\ StartTimeoutTimer = [o \in Objects |-> FALSE]
    /\ error = [o \in Objects |-> ""]
    /\ tickPc = "sleep" /\ tickIt = NoAddress
    /\ workPc = "idle" /\ workIt = NoAddress
    /\ workEvent = "None"
    /\ poll = [o \in Objects |-> "none"]
    /\ elapsed = [o \in Objects |-> 0]

-----------------------------------------------------------------------------
(* The registry, before the services start                                 *)

Refused(o) == o \in NullObjects \/ Settings[o].GroupAddress \in Entries

\* The feedback address is entered unless another item holds it; then the
\* call returns false with the object registered under its main address.
AddGroupObject(o) ==
    LET main     == Settings[o].GroupAddress
        feedback == Settings[o].FeedbackGroupAddress
        taken    == /\ feedback \in Entries
                    /\ feedback # main
    IN  /\ ~running
        /\ result[o] = "none"
        /\ ~Refused(o)
        /\ GroupObjectList' = [a \in Addresses |->
               IF a = main \/ (a = feedback /\ ~taken) THEN o
               ELSE GroupObjectList[a]]
        /\ result' = [result EXCEPT ![o] = IF taken THEN "false" ELSE "true"]
        /\ Counter' = [Counter EXCEPT ![o] = PollInterval(o)]
        /\ UNCHANGED <<running, TimeoutCounter, StartTimeoutTimer, error,
                       tick, worker, history>>

\* Null, or the main address is taken: the object is not registered.
RefuseGroupObject(o) ==
    /\ ~running
    /\ result[o] = "none"
    /\ Refused(o)
    /\ result' = [result EXCEPT ![o] = "false"]
    /\ UNCHANGED <<GroupObjectList, running, timers, error, tick, worker, history>>

\* Erases the entry and the one at the item's feedback address, whoever holds
\* that one.  The program never calls it; its tests do.
RemoveGroupObject(address) ==
    /\ ~running
    /\ address \in Entries
    /\ GroupObjectList' = [a \in Addresses |->
           IF a \in {address, Settings[GroupObjectList[address]].FeedbackGroupAddress}
           THEN NoObject ELSE GroupObjectList[a]]
    /\ UNCHANGED <<result, running, timers, error, tick, worker, history>>

\* main() starts the two services once the map is filled.
StartServices ==
    /\ ~running
    /\ running' = TRUE
    /\ UNCHANGED <<GroupObjectList, result, timers, error, tick, worker, history>>

-----------------------------------------------------------------------------
(* The tick timer thread: Notify(TTickTimerEvent)                          *)

Visited == GroupObjectList[tickIt]

\* fault: the iterator stays where it is
NextVisitStays ==
    /\ tickPc' = "timeout"
    /\ UNCHANGED tickIt

\* ++itemPair: the next entry, or the end of the loop and of the tick.
NextVisit ==
    \/ /\ After(tickIt) = {}
       /\ tickPc' = "sleep"
       /\ UNCHANGED tickIt
    \/ /\ tickPc' = "timeout"
       /\ \E a \in Addresses : IsLeast(a, After(tickIt)) /\ tickIt' = a

TimeIsUp ==
    /\ running
    /\ tickPc = "sleep"
    /\ tickPc' = "timeout"
    /\ \E a \in Addresses : IsLeast(a, Entries) /\ tickIt' = a
    /\ elapsed' = [o \in Objects |->
           IF EntriesOf(o) # {} /\ PollInterval(o) > 0 THEN elapsed[o] + 1 ELSE elapsed[o]]
    /\ UNCHANGED <<registry, timers, error, worker, poll>>

Supervising(o) == Timeout(o) > 0 /\ StartTimeoutTimer[o]

AlwaysTimeLeft(o) == TRUE        \* fault: the counter is not compared with 0
TimeLeft(o) == TimeoutCounter[o] > 0

CheckTimeout ==
    /\ tickPc = "timeout"
    /\ \/ /\ ~Supervising(Visited)
          /\ tickPc' = "poll"
          /\ UNCHANGED TimeoutCounter
       \/ /\ Supervising(Visited)
          /\ TimeLeft(Visited)
          /\ TimeoutCounter' = [TimeoutCounter EXCEPT ![Visited] = @ - 1]
          /\ tickPc' = "poll"
       \/ /\ Supervising(Visited)
          /\ ~TimeLeft(Visited)
          /\ tickPc' = "expire"
          /\ UNCHANGED TimeoutCounter
    /\ UNCHANGED <<registry, Counter, StartTimeoutTimer, error, tickIt, worker, history>>

Expire ==
    /\ tickPc = "expire"
    /\ StartTimeoutTimer' = [StartTimeoutTimer EXCEPT ![Visited] = FALSE]
    /\ tickPc' = "report"
    /\ UNCHANGED <<registry, Counter, TimeoutCounter, error, tickIt, worker, history>>

\* KnxNotifyEvent(PollReadTimeoutError).
ReportTimeout ==
    /\ tickPc = "report"
    /\ error' = [error EXCEPT ![Visited] = "timeout"]
    /\ poll' = [poll EXCEPT ![Visited] = "reported"]
    /\ tickPc' = "poll"
    /\ UNCHANGED <<registry, timers, tickIt, worker, elapsed>>

ReloadShort(o) == PollInterval(o) - 1    \* fault: one tick short
Reload(o)      == PollInterval(o)

CheckPoll ==
    /\ tickPc = "poll"
    /\ \/ /\ PollInterval(Visited) = 0
          /\ NextVisit
          /\ UNCHANGED Counter
       \/ /\ PollInterval(Visited) > 0
          /\ Counter[Visited] > 0
          /\ Counter' = [Counter EXCEPT ![Visited] = @ - 1]
          /\ NextVisit
       \/ /\ PollInterval(Visited) > 0
          /\ Counter[Visited] = 0
          /\ Counter' = [Counter EXCEPT ![Visited] = Reload(Visited)]
          /\ tickPc' = "send"
          /\ UNCHANGED tickIt
    /\ UNCHANGED <<registry, TimeoutCounter, StartTimeoutTimer, error, worker, history>>

\* Send({address, GroupValueRead, {0}}): from here on an answer may arrive.
SendPoll ==
    /\ tickPc = "send"
    /\ poll' = [poll EXCEPT ![Visited] = "waiting"]
    /\ elapsed' = [elapsed EXCEPT ![Visited] = 0]
    /\ tickPc' = "arm"
    /\ UNCHANGED <<registry, timers, error, tickIt, worker>>

PatienceLong(o) == Timeout(o) + 1        \* fault: one tick too many
Patience(o)     == Timeout(o)

ArmTimer ==
    /\ tickPc = "arm"
    /\ StartTimeoutTimer' = [StartTimeoutTimer EXCEPT ![Visited] = TRUE]
    /\ TimeoutCounter' = [TimeoutCounter EXCEPT ![Visited] = Patience(Visited)]
    /\ NextVisit
    /\ UNCHANGED <<registry, Counter, error, worker, history>>

TickThread ==
    \/ TimeIsUp \/ CheckTimeout \/ Expire \/ ReportTimeout
    \/ CheckPoll \/ SendPoll \/ ArmTimer

-----------------------------------------------------------------------------
(* The knxd client thread: Notify(TKnxEvent, TTelegram)                    *)

\* A connection event.  On KnxdSocketConnected every entry is first sent a
\* read request (Configurator always sets ReadRequestAfterStart), which
\* changes nothing here; then the objects are notified one by one.  The
\* telegram passed along is not group addressed.
ConnectionEvent(event) ==
    /\ running
    /\ workPc = "idle"
    /\ event = "KnxdSocketError" => workEvent = "KnxdSocketConnected"
    /\ workEvent' = event
    /\ workPc' = "event"
    /\ \E a \in Addresses : IsLeast(a, Entries) /\ workIt' = a
    /\ UNCHANGED <<registry, timers, error, tick, history>>

ErrorOf(event) == IF event = "KnxdSocketError" THEN "socket" ELSE ""

NotifyEntry ==
    /\ workPc = "event"
    /\ error' = [error EXCEPT ![GroupObjectList[workIt]] = ErrorOf(workEvent)]
    /\ \/ /\ After(workIt) = {}
          /\ workPc' = "idle"
          /\ UNCHANGED workIt
       \/ /\ \E a \in Addresses : IsLeast(a, After(workIt)) /\ workIt' = a
          /\ UNCHANGED workPc
    /\ UNCHANGED <<registry, timers, tick, workEvent, history>>

\* How a response changes the fate of the object's last poll.
Answered(o) ==
    IF poll[o] \notin {"waiting", "early"} THEN poll[o]
    ELSE IF tickPc = "arm" /\ Visited = o THEN "early" ELSE "answered"

\* fault: the request, which the program hears too, stops the timer
RequestStopsTimer(apci) == apci = "GroupValueRead"
StopsTimer(apci)        == apci = "GroupValueResponse"

\* A telegram to a registered address.  Objects ignore the event
\* ReceivedTelegram; KnxNotify leaves the controller's state alone.
ReceiveTelegram(address, apci) ==
    /\ workPc = "idle"
    /\ workEvent = "KnxdSocketConnected"
    /\ address \in Entries
    /\ LET o == GroupObjectList[address]
       IN  /\ StartTimeoutTimer' =
                  [StartTimeoutTimer EXCEPT ![o] = @ /\ ~StopsTimer(apci)]
           /\ poll' = [poll EXCEPT ![o] =
                  IF apci = "GroupValueResponse" THEN Answered(o) ELSE @]
    /\ UNCHANGED <<registry, Counter, TimeoutCounter, error, tick, worker, elapsed>>

WorkerThread ==
    \/ \E event \in {"KnxdSocketConnected", "KnxdSocketError"} : ConnectionEvent(event)
    \/ NotifyEntry
    \/ \E address \in Addresses, apci \in Apcis : ReceiveTelegram(address, apci)

-----------------------------------------------------------------------------
Configure ==
    \/ \E o \in Objects : AddGroupObject(o) \/ RefuseGroupObject(o)
    \/ \E address \in Addresses : RemoveGroupObject(address)
    \/ StartServices

Next == Configure \/ TickThread \/ WorkerThread

Spec == Init /\ [][Next]_vars

\* The operating system schedules both threads; main() always reaches the
\* start of the services.  Telegrams and connection events come or do not.
Fairness ==
    /\ WF_vars(StartServices)
    /\ WF_vars(TickThread)
    /\ WF_vars(NotifyEntry)

FairSpec == Spec /\ Fairness

-----------------------------------------------------------------------------
(* Properties                                                              *)

\* The configurations the header asks for: a timeout that is set, and fits in
\* the polling period once both are counted in ticks.
Supervised == {o \in Objects : Timeout(o) > 0 /\ Timeout(o) <= PollInterval(o)}

\* No poll is forgotten: when the tick thread sends an object its next read
\* request, the last one was answered or its timeout reported, even when the
\* two fall on the same tick (the timeout is checked first).
PollConcluded ==
    tickPc = "send" /\ Visited \in Supervised => poll[Visited] # "waiting"

\* The timeout of a poll starts to expire only while that poll has no answer
\* handled after the timer was armed, and never twice for one poll.
ExpiryIsEarned ==
    [][tickPc' = "expire" /\ tickPc # "expire"
           => poll[Visited] \in {"waiting", "early"}]_vars

\* An object with one map entry is polled every PollInterval + 1 ticks and its
\* timeout is reported Timeout + 1 ticks after the poll, no earlier and no
\* later, whatever the knxd thread does meanwhile: the tick in which the timer
\* was armed does not count.
TicksAsConfigured ==
    tickPc \in {"send", "report"} /\ EntriesOf(Visited) = {tickIt} =>
        /\ tickPc = "send" => elapsed[Visited] = PollInterval(Visited) + 1
        /\ tickPc = "report" => elapsed[Visited] = Timeout(Visited) + 1

\* Why it holds: for an object whose only entry is a, each counter and the
\* ticks since the poll add up to the configured count, plus one while the
\* current tick has counted but not yet come to that part of the visit to a.
Ahead(a, points) ==
    tickPc # "sleep" /\ (a > tickIt \/ (a = tickIt /\ tickPc \in points))

TicksInvOf(o, a) ==
    /\ ~(tickPc = "send" /\ a = tickIt) =>
           Counter[o] + elapsed[o] = PollInterval(o)
               + IF Ahead(a, {"timeout", "expire", "report", "poll"}) THEN 1 ELSE 0
    /\ tickPc = "send" /\ a = tickIt =>
           Counter[o] = PollInterval(o) /\ elapsed[o] = PollInterval(o) + 1
    /\ tickPc = "arm" /\ a = tickIt => elapsed[o] = 0
    /\ Supervising(o) /\ ~(tickPc \in {"send", "arm"} /\ a = tickIt)
           => TimeoutCounter[o] + elapsed[o] = Timeout(o)
                  + IF Ahead(a, {"timeout", "expire"}) THEN 1 ELSE 0
    /\ tickPc = "expire" /\ a = tickIt => TimeoutCounter[o] = 0
    /\ tickPc \in {"expire", "report"} /\ a = tickIt => elapsed[o] = Timeout(o) + 1

TicksInv ==
    /\ ~running => \A o \in Objects :
           /\ elapsed[o] = 0
           /\ EntriesOf(o) # {} => Counter[o] = PollInterval(o)
    /\ \A o \in Objects :
           /\ PollInterval(o) = 0 =>
                  poll[o] = "none" /\ ~(tickPc = "send" /\ Visited = o)
           /\ \A a \in Addresses :
                  EntriesOf(o) = {a} /\ PollInterval(o) > 0 => TicksInvOf(o, a)

\* Once a connection event has been notified to all, every registered object
\* shows it: some error after KnxdSocketError, no socket error after
\* KnxdSocketConnected, although the tick thread publishes errors too.
Shows(o) ==
    /\ workEvent = "KnxdSocketError" => error[o] # ""
    /\ workEvent = "KnxdSocketConnected" => error[o] # "socket"

ErrorsFollowConnection ==
    workPc = "idle" => \A a \in Entries : Shows(GroupObjectList[a])

\* Why it holds: the loop has served every entry before its iterator.
ErrorsInv ==
    \A a \in Entries : workPc = "idle" \/ a < workIt => Shows(GroupObjectList[a])

\* README, readPollInterval and readPollTimeout: the period of the polls and
\* the longest wait for an answer, in milliseconds.  Neither may pass sooner.
\* An object with a feedback address has two map entries and is visited twice
\* in every tick, so both of its counters run at double speed.
ConfiguredTimes ==
    /\ tickPc = "send" =>
           elapsed[Visited] * TickInterval >= Settings[Visited].ReadRequestPollInterval
    /\ tickPc = "report" =>
           elapsed[Visited] * TickInterval >= Settings[Visited].ReadResponseTimeout

\* README, readPollTimeout: the error says that no answer came in time.  An
\* answer handled after the request was sent and before the timer is armed is
\* an answer in time, yet arming the timer forgets it.
NoErrorForAnswered ==
    [][tickPc = "report" /\ tickPc' # "report" => poll[Visited] # "early"]_vars

\* Why PollConcluded and ExpiryIsEarned hold: as long as a supervised poll
\* waits, its timer runs, and the timeout counter has come down as many visits
\* as the poll counter; so the timeout runs out no later than the period.
At(o, points) == tickPc \in points /\ Visited = o

CountersAgree(o) ==
    Timeout(o) - TimeoutCounter[o] =
        PollInterval(o) - Counter[o] + IF At(o, {"poll"}) THEN 1 ELSE 0

PollInvOf(o) ==
    /\ ~running => poll[o] = "none"
    /\ StartTimeoutTimer[o] => poll[o] \in {"waiting", "early"}
    /\ At(o, {"arm"}) => poll[o] \in {"waiting", "early"}
    /\ At(o, {"send", "arm"}) => Counter[o] = PollInterval(o)
    /\ At(o, {"expire", "report"}) => poll[o] \in {"waiting", "early", "answered"}
    /\ At(o, {"report"}) => ~StartTimeoutTimer[o]
    /\ o \in Supervised /\ poll[o] = "waiting" =>
           \/ At(o, {"expire", "report", "arm"})
           \/ StartTimeoutTimer[o] /\ ~At(o, {"send"}) /\ CountersAgree(o)

PollInv == \A o \in Objects : PollInvOf(o)

\* The controller keeps the promise of PollContract.
Contract == INSTANCE PollContract
PollContractHolds == Contract!FairSpec

\* Every registered object with a polling period is polled for ever.
PolledForEver ==
    \A o \in Objects :
        [](running /\ EntriesOf(o) # {} /\ PollInterval(o) > 0
               => <>(tickPc = "send" /\ Visited = o))
=============================================================================
