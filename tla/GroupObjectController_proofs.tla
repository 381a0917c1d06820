-------------------- MODULE GroupObjectController_proofs --------------------
(***************************************************************************)
(* TLAPS proofs about TKnxGroupObjectController, for every set of group    *)
(* addresses and objects, every settings and every tick.                   *)
(***************************************************************************)
EXTENDS GroupObjectController, TLAPS

\* The settings count a natural number of ticks: the two integer divisions in
\* AddGroupObject.
LEMMA TicksAreNatural ==
    \A o \in Objects : PollInterval(o) \in Nat /\ Timeout(o) \in Nat
<1> SUFFICES ASSUME NEW o \in Objects
             PROVE  PollInterval(o) \in Nat /\ Timeout(o) \in Nat
  OBVIOUS
<1>1. /\ Settings[o].ReadRequestPollInterval \in Nat
      /\ Settings[o].ReadResponseTimeout \in Nat
      /\ TickInterval \in Nat \ {0}
  BY ControllerAssumption
<1>2. \A n \in Nat, d \in Nat \ {0} : n \div d \in Nat
  OBVIOUS
<1> QED
  BY <1>1, <1>2 DEF PollInterval, Timeout

-----------------------------------------------------------------------------
(* Type correctness                                                        *)

\* A thread inside its loop stands on an entry that holds an object.
LEMMA VisitedType ==
    ASSUME TypeOK
    PROVE  /\ tickPc # "sleep" => Visited \in Objects
           /\ workPc # "idle" => GroupObjectList[workIt] \in Objects
BY DEF TypeOK, Visited, Entries

\* Where NextVisit leads: to a map entry, or back to sleep.
LEMMA NextVisitType ==
    ASSUME TypeOK, tickPc # "sleep", NextVisit, GroupObjectList' = GroupObjectList
    PROVE  /\ tickPc' \in {"sleep", "timeout"}
           /\ tickIt' \in Entries
           /\ Entries' = Entries
BY DEF TypeOK, NextVisit, IsLeast, After, Entries

\* Every variable keeps its type; a thread that is inside its loop stands on
\* an entry of the map, and only after the services were started.
THEOREM TypeCorrect == Spec => []TypeOK
<1>1. ASSUME Init PROVE TypeOK
  <2>1. /\ GroupObjectList \in [Addresses -> Objects \cup {NoObject}]
        /\ result \in [Objects -> {"none", "true", "false"}]
        /\ Counter \in [Objects -> Nat]
        /\ TimeoutCounter \in [Objects -> Nat]
        /\ elapsed \in [Objects -> Nat]
    BY <1>1 DEF Init
  <2>2. /\ StartTimeoutTimer \in [Objects -> BOOLEAN]
        /\ error \in [Objects -> {"", "timeout", "socket"}]
        /\ poll \in [Objects -> {"none", "waiting", "early", "answered", "reported"}]
    BY <1>1 DEF Init
  <2> QED
    BY <1>1, <2>1, <2>2 DEF Init, TypeOK, TickPoints
<1>2. TypeOK /\ [Next]_vars => TypeOK'
  <2> SUFFICES ASSUME TypeOK, [Next]_vars
               PROVE  TypeOK'
    OBVIOUS
  <2> USE DEF TypeOK, TickPoints, registry, timers, tick, worker, history
  <2>1. ASSUME NEW o \in Objects, AddGroupObject(o)
        PROVE  TypeOK'
    BY TicksAreNatural, <2>1 DEF AddGroupObject
  <2>2. ASSUME NEW o \in Objects, RefuseGroupObject(o)
        PROVE  TypeOK'
    BY <2>2 DEF RefuseGroupObject
  <2>3. ASSUME NEW a \in Addresses, RemoveGroupObject(a)
        PROVE  TypeOK'
    BY <2>3 DEF RemoveGroupObject
  <2>4. CASE StartServices
    BY <2>4 DEF StartServices, Entries
  <2>5. CASE TimeIsUp
    <3>1. elapsed' \in [Objects -> Nat]
      <4> DEFINE counts(o) == EntriesOf(o) # {} /\ PollInterval(o) > 0
      <4>1. elapsed' = [o \in Objects |-> IF counts(o) THEN elapsed[o] + 1 ELSE elapsed[o]]
        BY <2>5 DEF TimeIsUp
      <4>2. elapsed \in [Objects -> Nat]
        BY DEF TypeOK
      <4> HIDE DEF counts, TypeOK
      <4> QED
        BY <4>1, <4>2
    <3>2. tickPc' = "timeout" /\ tickIt' \in Addresses /\ (tickIt \in Entries)'
      BY <2>5 DEF TimeIsUp, IsLeast, Entries
    <3> QED
      BY <2>5, <3>1, <3>2 DEF TimeIsUp, Entries
  <2>6. CASE CheckTimeout
    <3>1. TimeoutCounter' \in [Objects -> Nat]
      <4>1. Visited \in Objects
        BY <2>6, VisitedType DEF CheckTimeout
      <4>0. TimeoutCounter \in [Objects -> Nat]
        BY DEF TypeOK
      <4> HIDE DEF TypeOK
      <4>2. CASE TimeLeft(Visited)
        BY <2>6, <4>0, <4>1, <4>2 DEF CheckTimeout, TimeLeft
      <4>3. CASE ~TimeLeft(Visited)
        BY <2>6, <4>0, <4>1, <4>3 DEF CheckTimeout
      <4> QED
        BY <4>2, <4>3
    <3>2. tickPc' \in {"poll", "expire"} /\ (tickIt \in Entries)'
      BY <2>6 DEF CheckTimeout, Entries
    <3> QED
      BY <2>6, <3>1, <3>2 DEF CheckTimeout, Entries
  <2>7. CASE Expire
    BY <2>7 DEF Expire, Visited, Entries
  <2>8. CASE ReportTimeout
    BY <2>8 DEF ReportTimeout, Visited, Entries
  <2>9. CASE CheckPoll
    <3>1. Counter' \in [Objects -> Nat]
      <4>1. Visited \in Objects /\ PollInterval(Visited) \in Nat
        BY <2>9, VisitedType, TicksAreNatural DEF CheckPoll
      <4>2. Counter \in [Objects -> Nat]
        BY DEF TypeOK
      <4> HIDE DEF TypeOK
      <4> QED
        BY <2>9, <4>1, <4>2 DEF CheckPoll, Reload
    <3>2. tickPc' \in TickPoints /\ (tickIt \in Entries)'
      BY <2>9, NextVisitType DEF CheckPoll, Entries
    <3> QED
      BY <2>9, <3>1, <3>2 DEF CheckPoll, Entries
  <2>10. CASE SendPoll
    BY <2>10 DEF SendPoll, Visited, Entries
  <2>11. CASE ArmTimer
    BY TicksAreNatural, <2>11, NextVisitType DEF ArmTimer, Patience, Visited, Entries
  <2>12. ASSUME NEW event \in {"KnxdSocketConnected", "KnxdSocketError"},
                ConnectionEvent(event)
         PROVE  TypeOK'
    BY <2>12 DEF ConnectionEvent, IsLeast, Entries
  <2>13. CASE NotifyEntry
    BY <2>13 DEF NotifyEntry, IsLeast, After, ErrorOf, Entries
  <2>14. ASSUME NEW a \in Addresses, NEW apci \in Apcis, ReceiveTelegram(a, apci)
         PROVE  TypeOK'
    <3> DEFINE o == GroupObjectList[a]
    <3>1. o \in Objects
      <4>1. a \in Entries
        BY <2>14 DEF ReceiveTelegram
      <4>2. GroupObjectList \in [Addresses -> Objects \cup {NoObject}]
        BY DEF TypeOK
      <4> HIDE DEF TypeOK
      <4> QED
        BY <4>1, <4>2 DEF Entries
    <3>2. poll \in [Objects -> {"none", "waiting", "early", "answered", "reported"}]
      BY DEF TypeOK
    <3>3. StartTimeoutTimer \in [Objects -> BOOLEAN]
      BY DEF TypeOK
    <3>4. /\ poll' = [poll EXCEPT ![o] =
                IF apci = "GroupValueResponse" THEN Answered(o) ELSE @]
          /\ StartTimeoutTimer' = [StartTimeoutTimer EXCEPT ![o] = @ /\ ~StopsTimer(apci)]
      BY <2>14 DEF ReceiveTelegram
    <3>5. poll' \in [Objects -> {"none", "waiting", "early", "answered", "reported"}]
      <4> HIDE DEF o, TypeOK
      <4> QED
        BY <3>1, <3>2, <3>4 DEF Answered
    <3>6. StartTimeoutTimer' \in [Objects -> BOOLEAN]
      <4> HIDE DEF o, TypeOK
      <4> QED
        BY <3>1, <3>3, <3>4
    <3> QED
      BY <2>14, <3>5, <3>6 DEF ReceiveTelegram, Entries
  <2>15. CASE UNCHANGED vars
    BY <2>15 DEF vars, Entries
  <2> QED
    BY <2>1, <2>2, <2>3, <2>4, <2>5, <2>6, <2>7, <2>8, <2>9, <2>10, <2>11, <2>12,
       <2>13, <2>14, <2>15 DEF Next, Configure, TickThread, WorkerThread
<1> QED
  BY <1>1, <1>2, PTL DEF Spec

-----------------------------------------------------------------------------
(* Polls and their timeouts                                                *)

\* One step preserves the bookkeeping of one object's poll.
LEMMA PollInvStep ==
    ASSUME TypeOK, TypeOK', [Next]_vars, NEW o \in Objects, PollInvOf(o)
    PROVE  PollInvOf(o)'
<1> PollInterval(o) \in Nat /\ Timeout(o) \in Nat
  BY TicksAreNatural
<1> DEFINE typed == /\ running \in BOOLEAN
                    /\ Counter \in [Objects -> Nat]
                    /\ TimeoutCounter \in [Objects -> Nat]
                    /\ StartTimeoutTimer \in [Objects -> BOOLEAN]
                    /\ poll \in [Objects -> {"none", "waiting", "early", "answered", "reported"}]
                    /\ tickPc # "sleep" => running
<1>0. typed /\ typed'
  BY DEF TypeOK
<1> HIDE DEF typed
<1> USE DEF registry, timers, tick, worker, history
<1>1. ASSUME NEW p \in Objects, AddGroupObject(p)
      PROVE  PollInvOf(o)'
  BY <1>0, <1>1 DEF AddGroupObject, typed, PollInvOf, At, Visited, CountersAgree
<1>2. ASSUME NEW p \in Objects, RefuseGroupObject(p)
      PROVE  PollInvOf(o)'
  BY <1>0, <1>2 DEF RefuseGroupObject, typed, PollInvOf, At, Visited, CountersAgree
<1>3. ASSUME NEW a \in Addresses, RemoveGroupObject(a)
      PROVE  PollInvOf(o)'
  BY <1>0, <1>3 DEF RemoveGroupObject, typed, PollInvOf, At, Visited, CountersAgree
<1>4. CASE StartServices
  BY <1>0, <1>4 DEF StartServices, typed, PollInvOf, At, Visited, CountersAgree
<1>5. CASE TimeIsUp
  BY <1>0, <1>5 DEF TimeIsUp, typed, PollInvOf, At, Visited, CountersAgree
<1>6. CASE CheckTimeout
  BY <1>0, <1>6 DEF CheckTimeout, Supervising, TimeLeft, Supervised,
                    typed, PollInvOf, At, Visited, CountersAgree
<1>7. CASE Expire
  BY <1>0, <1>7 DEF Expire, typed, PollInvOf, At, Visited, CountersAgree
<1>8. CASE ReportTimeout
  <2>1. CASE o = Visited
    <3>1. poll'[o] = "reported" /\ tickPc' = "poll" /\ UNCHANGED <<running, StartTimeoutTimer>>
      BY <1>0, <1>8, <2>1 DEF ReportTimeout, typed
    <3>2. ~StartTimeoutTimer[o]
      BY <1>8, <2>1 DEF ReportTimeout, PollInvOf, At
    <3> QED
      BY <1>0, <3>1, <3>2 DEF PollInvOf, At, typed
  <2>2. CASE o # Visited
    BY <1>0, <1>8, <2>2 DEF ReportTimeout, typed, PollInvOf, At, Visited, CountersAgree
  <2> QED
    BY <2>1, <2>2
<1>9. CASE CheckPoll
  BY <1>0, <1>9 DEF CheckPoll, NextVisit, Reload, Supervised,
                    typed, PollInvOf, At, Visited, CountersAgree
<1>10. CASE SendPoll
  BY <1>0, <1>10 DEF SendPoll, typed, PollInvOf, At, Visited, CountersAgree
<1>11. CASE ArmTimer
  <2>1. CASE o = Visited
    <3>1. /\ tickPc' \in {"sleep", "timeout"}
          /\ TimeoutCounter'[o] = Timeout(o)
          /\ StartTimeoutTimer'[o]
          /\ UNCHANGED <<running, poll, Counter>>
      BY <1>0, <1>11, <2>1 DEF ArmTimer, NextVisit, Patience, typed
    <3>2. poll[o] \in {"waiting", "early"} /\ Counter[o] = PollInterval(o)
      BY <1>11, <2>1 DEF ArmTimer, PollInvOf, At
    <3> QED
      BY <1>0, <3>1, <3>2 DEF PollInvOf, At, CountersAgree, typed
  <2>2. CASE o # Visited
    BY <1>0, <1>11, <2>2 DEF ArmTimer, NextVisit, typed, PollInvOf, At, Visited, CountersAgree
  <2> QED
    BY <2>1, <2>2
<1>12. ASSUME NEW event \in {"KnxdSocketConnected", "KnxdSocketError"},
              ConnectionEvent(event)
       PROVE  PollInvOf(o)'
  BY <1>0, <1>12 DEF ConnectionEvent, typed, PollInvOf, At, Visited, CountersAgree
<1>13. CASE NotifyEntry
  BY <1>0, <1>13 DEF NotifyEntry, typed, PollInvOf, At, Visited, CountersAgree
<1>14. ASSUME NEW a \in Addresses, NEW apci \in Apcis, ReceiveTelegram(a, apci)
       PROVE  PollInvOf(o)'
  <2>1. CASE o = GroupObjectList[a] /\ apci = "GroupValueResponse"
    <3>1. ~ StartTimeoutTimer'[o] /\ poll'[o] = Answered(o)
      BY <1>0, <1>14, <2>1 DEF ReceiveTelegram, StopsTimer, typed
    <3>2. UNCHANGED <<registry, Counter, TimeoutCounter, tick>>
      BY <1>14 DEF ReceiveTelegram
    <3> QED
      BY <1>0, <3>1, <3>2 DEF Answered, typed, PollInvOf, At, Visited, CountersAgree
  <2>2. CASE ~ (o = GroupObjectList[a] /\ apci = "GroupValueResponse")
    <3>1. StartTimeoutTimer'[o] = StartTimeoutTimer[o] /\ poll'[o] = poll[o]
      BY <1>0, <1>14, <2>2 DEF ReceiveTelegram, StopsTimer, typed
    <3>2. UNCHANGED <<registry, Counter, TimeoutCounter, tick>>
      BY <1>14 DEF ReceiveTelegram
    <3> QED
      BY <1>0, <3>1, <3>2 DEF typed, PollInvOf, At, Visited, CountersAgree
  <2> QED
    BY <2>1, <2>2
<1>15. CASE UNCHANGED vars
  BY <1>0, <1>15 DEF vars, typed, PollInvOf, At, Visited, CountersAgree
<1> QED
  BY <1>1, <1>2, <1>3, <1>4, <1>5, <1>6, <1>7, <1>8, <1>9, <1>10, <1>11, <1>12,
     <1>13, <1>14, <1>15 DEF Next, Configure, TickThread, WorkerThread

LEMMA PollInvariant == Spec => []PollInv
<1>1. Init => PollInv
  BY DEF Init, PollInv, PollInvOf, At, Visited
<1>2. TypeOK /\ TypeOK' /\ PollInv /\ [Next]_vars => PollInv'
  BY PollInvStep DEF PollInv
<1> QED
  BY <1>1, <1>2, TypeCorrect, PTL DEF Spec

\* PollConcluded, for every configuration: no poll of a supervised object is
\* forgotten.
THEOREM PollsConcluded == Spec => []PollConcluded
<1>1. TypeOK /\ PollInv => PollConcluded
  BY VisitedType DEF PollConcluded, PollInv, PollInvOf, At
<1> QED
  BY <1>1, TypeCorrect, PollInvariant, PTL

\* ExpiryIsEarned, for every configuration: a timeout starts to expire only for
\* a poll with no answer since the timer was armed, once for each poll.
THEOREM ExpiryEarned == Spec => ExpiryIsEarned
<1>1. TypeOK /\ PollInv /\ [Next]_vars
         => [tickPc' = "expire" /\ tickPc # "expire"
                => poll[Visited] \in {"waiting", "early"}]_vars
  <2> SUFFICES ASSUME TypeOK, PollInv, Next, tickPc' = "expire", tickPc # "expire"
               PROVE  poll[Visited] \in {"waiting", "early"}
    OBVIOUS
  <2>1. CheckTimeout
    BY DEF Next, Configure, TickThread, WorkerThread, AddGroupObject, RefuseGroupObject,
           RemoveGroupObject, StartServices, TimeIsUp, Expire, ReportTimeout, CheckPoll,
           NextVisit, SendPoll, ArmTimer, ConnectionEvent, NotifyEntry, ReceiveTelegram, tick
  <2>2. Visited \in Objects /\ StartTimeoutTimer[Visited]
    BY <2>1, VisitedType DEF CheckTimeout, Supervising
  <2> QED
    BY <2>2 DEF PollInv, PollInvOf
<1> QED
  BY <1>1, TypeCorrect, PollInvariant, PTL DEF ExpiryIsEarned, Spec

-----------------------------------------------------------------------------
(* The ticks between two polls                                             *)

\* One step after the start preserves the sums for an object with one entry.
LEMMA TicksStep ==
    ASSUME TypeOK, TypeOK', PollInv, NEW o \in Objects, NEW a \in Addresses,
           running, EntriesOf(o) = {a}, PollInterval(o) > 0, TicksInvOf(o, a),
           TickThread \/ WorkerThread
    PROVE  TicksInvOf(o, a)'
<1> PollInterval(o) \in Nat /\ Timeout(o) \in Nat
  BY TicksAreNatural
<1> DEFINE typed == /\ Counter \in [Objects -> Nat]
                    /\ TimeoutCounter \in [Objects -> Nat]
                    /\ StartTimeoutTimer \in [Objects -> BOOLEAN]
                    /\ elapsed \in [Objects -> Nat]
                    /\ tickPc \in TickPoints
                    /\ tickPc # "sleep" => tickIt \in Nat
                    /\ a \in Nat
<1>0. typed /\ typed'
  <2>1. Entries \subseteq Nat /\ Entries' \subseteq Nat /\ a \in Nat
    BY ControllerAssumption DEF Entries
  <2> QED
    BY <2>1 DEF TypeOK
<1>i. a \in Entries
  BY ControllerAssumption DEF Entries, EntriesOf
<1>x. tickPc # "sleep" => (a = tickIt <=> Visited = o)
  <2>1. \A b \in Addresses : GroupObjectList[b] = o <=> b = a
    BY DEF EntriesOf
  <2>2. tickPc # "sleep" => tickIt \in Addresses
    BY DEF TypeOK, Entries
  <2> QED
    BY <2>1, <2>2 DEF Visited
<1> HIDE DEF typed
<1> USE DEF registry, timers, tick, worker, history
<1>1. CASE TimeIsUp
  <2>1. elapsed'[o] = elapsed[o] + 1 /\ tickPc' = "timeout" /\ a >= tickIt'
    BY <1>0, <1>i, <1>1 DEF TimeIsUp, IsLeast, typed
  <2> QED
    BY <1>0, <1>i, <1>1, <2>1 DEF TimeIsUp, typed, TicksInvOf, Ahead, Supervising
<1>2. CASE CheckTimeout
  <2>1. UNCHANGED <<tickIt, Counter, StartTimeoutTimer, elapsed>>
    BY <1>2 DEF CheckTimeout
  <2>2. CASE a # tickIt
    <3>1. UNCHANGED TimeoutCounter[o] /\ tickPc' \in {"poll", "expire"}
      BY <1>0, <1>i, <1>x, <1>2, <2>2 DEF CheckTimeout, typed
    <3> QED
      BY <1>0, <1>i, <1>2, <2>1, <2>2, <3>1 DEF CheckTimeout, typed, TicksInvOf, Ahead, Supervising
  <2>3. CASE a = tickIt
    <3>1. CASE ~Supervising(o)
      BY <1>0, <1>i, <1>x, <1>2, <2>1, <2>3, <3>1 DEF CheckTimeout, typed, TicksInvOf, Ahead, Supervising
    <3>2. CASE Supervising(o) /\ TimeLeft(o)
      BY <1>0, <1>i, <1>x, <1>2, <2>1, <2>3, <3>2
         DEF CheckTimeout, TimeLeft, typed, TicksInvOf, Ahead, Supervising
    <3>3. CASE Supervising(o) /\ ~TimeLeft(o)
      BY <1>0, <1>i, <1>x, <1>2, <2>1, <2>3, <3>3
         DEF CheckTimeout, TimeLeft, typed, TicksInvOf, Ahead, Supervising
    <3> QED
      BY <3>1, <3>2, <3>3
  <2> QED
    BY <2>2, <2>3
<1>3. CASE Expire
  BY <1>0, <1>i, <1>x, <1>3 DEF Expire, typed, TicksInvOf, Ahead, Supervising
<1>4. CASE ReportTimeout
  BY <1>0, <1>i, <1>x, <1>4 DEF ReportTimeout, typed, TicksInvOf, Ahead, Supervising
<1>5. ASSUME NextVisit, tickPc # "sleep"
      PROVE  /\ tickPc' \in {"sleep", "timeout"}
             /\ tickPc' = "timeout" => tickIt' \in Nat
             /\ (tickPc' = "timeout" /\ a >= tickIt') <=> a > tickIt
  <2>1. a \in After(tickIt) <=> a > tickIt
    BY <1>i DEF After
  <2>2. CASE After(tickIt) = {} /\ tickPc' = "sleep"
    BY <2>1, <2>2
  <2>3. CASE tickPc' = "timeout" /\ IsLeast(tickIt', After(tickIt))
    <3>1. tickIt' \in Nat /\ tickIt' > tickIt /\ tickIt \in Nat /\ a \in Nat
      BY <1>0, <1>i, <1>5, <2>3, ControllerAssumption DEF IsLeast, After, Entries, typed
    <3>2. a > tickIt => a >= tickIt'
      BY <2>1, <2>3, <3>1 DEF IsLeast
    <3> QED
      BY <2>3, <3>1, <3>2
  <2> QED
    BY <1>5, <2>2, <2>3 DEF NextVisit
<1>6. CASE CheckPoll
  <2>1. /\ UNCHANGED <<TimeoutCounter, StartTimeoutTimer, elapsed>>
        /\ tickPc = "poll"
    BY <1>6 DEF CheckPoll
  <2>2. CASE NextVisit
    <3>1. Counter'[o] = IF a = tickIt THEN Counter[o] - 1 ELSE Counter[o]
      BY <1>0, <1>i, <1>x, <1>5, <1>6, <2>2 DEF CheckPoll, typed
    <3> QED
      BY <1>0, <1>i, <1>5, <2>1, <2>2, <3>1 DEF typed, TicksInvOf, Ahead, Supervising
  <2>3. CASE tickPc' = "send" /\ UNCHANGED tickIt /\ Counter[Visited] = 0
    <3>1. Counter'[o] = IF a = tickIt THEN PollInterval(o) ELSE Counter[o]
      BY <1>0, <1>i, <1>x, <1>6, <2>3 DEF CheckPoll, NextVisit, Reload, typed
    <3> QED
      BY <1>0, <1>i, <1>x, <2>1, <2>3, <3>1 DEF typed, TicksInvOf, Ahead, Supervising
  <2> QED
    BY <1>6, <2>2, <2>3 DEF CheckPoll
<1>7. CASE SendPoll
  BY <1>0, <1>i, <1>x, <1>7 DEF SendPoll, typed, TicksInvOf, Ahead, Supervising
<1>8. CASE ArmTimer
  <2>1. /\ tickPc = "arm" /\ UNCHANGED <<Counter, elapsed>>
        /\ NextVisit
    BY <1>8 DEF ArmTimer
  <2>2. CASE a = tickIt
    <3>1. TimeoutCounter'[o] = Timeout(o)
      BY <1>0, <1>i, <1>x, <1>8, <2>1, <2>2 DEF ArmTimer, Patience, typed
    <3> QED
      BY <1>0, <1>i, <1>5, <2>1, <2>2, <3>1 DEF typed, TicksInvOf, Ahead, Supervising
  <2>3. CASE a # tickIt
    <3>1. UNCHANGED <<TimeoutCounter[o], StartTimeoutTimer[o]>>
      BY <1>0, <1>i, <1>x, <1>8, <2>1, <2>3 DEF ArmTimer, typed
    <3> QED
      BY <1>0, <1>i, <1>5, <2>1, <2>3, <3>1 DEF typed, TicksInvOf, Ahead, Supervising
  <2> QED
    BY <2>2, <2>3
<1>9. CASE WorkerThread
  <2>1. /\ UNCHANGED <<tick, Counter, TimeoutCounter, elapsed>>
        /\ StartTimeoutTimer'[o] => StartTimeoutTimer[o]
    BY <1>0, <1>i, <1>9 DEF WorkerThread, ConnectionEvent, NotifyEntry, ReceiveTelegram, typed
  <2> QED
    BY <1>0, <1>i, <2>1 DEF typed, TicksInvOf, Ahead, Supervising
<1> QED
  BY <1>1, <1>2, <1>3, <1>4, <1>6, <1>7, <1>8, <1>9 DEF TickThread

\* Before the start no tick has counted and every counter is full.
LEMMA TicksConfigured ==
    ASSUME TypeOK, TypeOK', PollInv, PollInv', TicksInv, Configure
    PROVE  TicksInv'
<1>1. ~running /\ tickPc' = "sleep"
  BY DEF Configure, AddGroupObject, RefuseGroupObject, RemoveGroupObject, StartServices,
         TypeOK, tick
<1>2. \A o \in Objects :
          /\ elapsed'[o] = 0
          /\ EntriesOf(o)' # {} => Counter'[o] = PollInterval(o)
          /\ poll'[o] = "none"
          /\ ~StartTimeoutTimer'[o]
  <2> SUFFICES ASSUME NEW o \in Objects
               PROVE  /\ elapsed'[o] = 0
                      /\ EntriesOf(o)' # {} => Counter'[o] = PollInterval(o)
                      /\ poll'[o] = "none"
                      /\ ~StartTimeoutTimer'[o]
    OBVIOUS
  <2> elapsed[o] = 0 /\ (EntriesOf(o) # {} => Counter[o] = PollInterval(o))
    BY <1>1 DEF TicksInv
  <2>0. poll[o] = "none" /\ ~StartTimeoutTimer[o]
    BY <1>1 DEF PollInv, PollInvOf
  <2> USE DEF registry, timers, history
  <2>1. ASSUME NEW p \in Objects, AddGroupObject(p)
        PROVE  EntriesOf(o)' # {} => Counter'[o] = PollInterval(o)
    <3>1. Counter' = [Counter EXCEPT ![p] = PollInterval(p)] /\ Counter \in [Objects -> Nat]
      BY <2>1 DEF AddGroupObject, TypeOK
    <3>2. o # p => EntriesOf(o)' \subseteq EntriesOf(o)
      BY <2>1 DEF AddGroupObject, EntriesOf
    <3> QED
      BY <3>1, <3>2
  <2>2. ASSUME NEW a \in Addresses, RemoveGroupObject(a)
        PROVE  EntriesOf(o)' # {} => Counter'[o] = PollInterval(o)
    <3>1. EntriesOf(o)' \subseteq EntriesOf(o) /\ UNCHANGED Counter
      BY <2>2, ControllerAssumption DEF RemoveGroupObject, EntriesOf
    <3> QED
      BY <3>1
  <2>3. ASSUME UNCHANGED <<GroupObjectList, Counter>>
        PROVE  EntriesOf(o)' # {} => Counter'[o] = PollInterval(o)
    BY <2>3 DEF EntriesOf
  <2>4. UNCHANGED <<elapsed, poll, StartTimeoutTimer>>
    BY DEF Configure, AddGroupObject, RefuseGroupObject, RemoveGroupObject, StartServices
  <2> QED
    BY <2>0, <2>1, <2>2, <2>3, <2>4
       DEF Configure, RefuseGroupObject, StartServices
<1>3. \A o \in Objects : PollInterval(o) \in Nat
  BY TicksAreNatural
<1> QED
  BY <1>1, <1>2, <1>3 DEF TicksInv, TicksInvOf, Ahead, Supervising

\* An object without a polling period is never polled.
LEMMA NeverPolledStep ==
    ASSUME TypeOK, PollInv, NEW o \in Objects, PollInterval(o) = 0,
           poll[o] = "none", ~(tickPc = "send" /\ Visited = o),
           TickThread \/ WorkerThread
    PROVE  poll'[o] = "none" /\ ~(tickPc' = "send" /\ Visited' = o)
<1> USE DEF registry, timers, tick, worker, history
<1>0. poll \in [Objects -> {"none", "waiting", "early", "answered", "reported"}]
  BY DEF TypeOK
<1>1. CASE CheckPoll
  BY <1>1 DEF CheckPoll, NextVisit, Visited
<1>2. CASE SendPoll
  BY <1>0, <1>2 DEF SendPoll
<1>3. CASE ReportTimeout
  <2>1. Visited # o
    BY <1>3 DEF ReportTimeout, PollInv, PollInvOf, At
  <2> QED
    BY <1>0, <1>3, <2>1 DEF ReportTimeout
<1>4. ASSUME NEW a \in Addresses, NEW apci \in Apcis, ReceiveTelegram(a, apci)
      PROVE  poll'[o] = "none" /\ ~(tickPc' = "send" /\ Visited' = o)
  BY <1>0, <1>4 DEF ReceiveTelegram, Answered, Visited
<1>5. CASE TimeIsUp \/ CheckTimeout \/ Expire \/ ArmTimer \/ NotifyEntry
  BY <1>5 DEF TimeIsUp, CheckTimeout, Expire, ArmTimer, NextVisit, NotifyEntry, Visited
<1>6. ASSUME NEW event \in {"KnxdSocketConnected", "KnxdSocketError"}, ConnectionEvent(event)
      PROVE  poll'[o] = "none" /\ ~(tickPc' = "send" /\ Visited' = o)
  BY <1>6 DEF ConnectionEvent, Visited
<1> QED
  BY <1>1, <1>2, <1>3, <1>4, <1>5, <1>6 DEF TickThread, WorkerThread

LEMMA TicksInvariant == Spec => []TicksInv
<1>1. Init => TicksInv
  <2> SUFFICES ASSUME Init
               PROVE  TicksInv
    OBVIOUS
  <2>1. \A o \in Objects : EntriesOf(o) = {} /\ elapsed[o] = 0 /\ poll[o] = "none"
    BY ControllerAssumption DEF Init, EntriesOf
  <2>2. tickPc # "send"
    BY DEF Init
  <2> QED
    BY <2>1, <2>2 DEF TicksInv
<1>2. TypeOK /\ TypeOK' /\ PollInv /\ PollInv' /\ TicksInv /\ [Next]_vars => TicksInv'
  <2> SUFFICES ASSUME TypeOK, TypeOK', PollInv, PollInv', TicksInv, [Next]_vars
               PROVE  TicksInv'
    OBVIOUS
  <2>1. CASE Configure
    BY <2>1, TicksConfigured
  <2>2. CASE TickThread \/ WorkerThread
    <3>1. running /\ UNCHANGED <<registry>>
      BY <2>2 DEF TickThread, WorkerThread, TimeIsUp, CheckTimeout, Expire, ReportTimeout,
                  CheckPoll, SendPoll, ArmTimer, ConnectionEvent, NotifyEntry,
                  ReceiveTelegram, TypeOK
    <3>2. \A o \in Objects : EntriesOf(o)' = EntriesOf(o)
      BY <3>1 DEF registry, EntriesOf
    <3>3. ASSUME NEW o \in Objects, PollInterval(o) = 0
          PROVE  poll'[o] = "none" /\ ~(tickPc' = "send" /\ Visited' = o)
      BY <2>2, <3>3, NeverPolledStep DEF TicksInv
    <3>4. ASSUME NEW o \in Objects, NEW a \in Addresses, EntriesOf(o)' = {a},
                 PollInterval(o) > 0
          PROVE  TicksInvOf(o, a)'
      BY <2>2, <3>1, <3>2, <3>4, TicksStep DEF TicksInv
    <3> QED
      BY <3>1, <3>3, <3>4 DEF TicksInv, registry
  <2>3. CASE UNCHANGED vars
    <3>1. UNCHANGED <<running, tickPc, tickIt, Counter, poll, elapsed>>
      BY <2>3 DEF vars, registry, timers, tick, history
    <3>2. \A o \in Objects : EntriesOf(o)' = EntriesOf(o)
      BY <2>3 DEF vars, registry, EntriesOf
    <3>3. Visited' = Visited
      BY <2>3 DEF vars, registry, tick, Visited
    <3>4. \A o \in Objects, a \in Addresses : TicksInvOf(o, a)' = TicksInvOf(o, a)
      BY <2>3 DEF vars, timers, tick, history, TicksInvOf, Ahead, Supervising
    <3> QED
      BY <3>1, <3>2, <3>3, <3>4 DEF TicksInv
  <2> QED
    BY <2>1, <2>2, <2>3 DEF Next
<1> QED
  BY <1>1, <1>2, TypeCorrect, PollInvariant, PTL DEF Spec

\* TicksAsConfigured, for every configuration: the polls of an object with one
\* map entry, and the reports of its timeouts, come exactly on their ticks.
THEOREM TicksExact == Spec => []TicksAsConfigured
<1>1. TypeOK /\ PollInv /\ TicksInv => TicksAsConfigured
  <2> SUFFICES ASSUME TypeOK, PollInv, TicksInv,
                      tickPc \in {"send", "report"}, EntriesOf(Visited) = {tickIt}
               PROVE  /\ tickPc = "send" => elapsed[Visited] = PollInterval(Visited) + 1
                      /\ tickPc = "report" => elapsed[Visited] = Timeout(Visited) + 1
    BY DEF TicksAsConfigured
  <2>1. Visited \in Objects /\ tickIt \in Addresses
    BY VisitedType DEF TypeOK, Entries
  <2>2. PollInterval(Visited) > 0
    <3>1. PollInterval(Visited) \in Nat
      BY <2>1, TicksAreNatural
    <3>2. tickPc = "report" => poll[Visited] # "none"
      BY <2>1 DEF PollInv, PollInvOf, At
    <3> QED
      BY <2>1, <3>1, <3>2 DEF TicksInv
  <2>3. TicksInvOf(Visited, tickIt)
    BY <2>1, <2>2 DEF TicksInv
  <2> QED
    BY <2>3 DEF TicksInvOf
<1> QED
  BY <1>1, TypeCorrect, PollInvariant, TicksInvariant, PTL

-----------------------------------------------------------------------------
(* The contract                                                            *)

\* Every step of the controller is a step of PollContract or leaves poll alone.
THEOREM ContractKept == Spec => Contract!Spec
<1>1. Init => Contract!Init
  BY DEF Init, Contract!Init
<1>2. TypeOK /\ PollInv /\ [Next]_vars => [Contract!Next]_poll
  <2> SUFFICES ASSUME TypeOK, PollInv, Next
               PROVE  [Contract!Next]_poll
    BY DEF vars, history
  <2>1. CASE ReportTimeout
    <3>1. Visited \in Objects /\ poll[Visited] \in {"waiting", "early", "answered"}
      BY <2>1, VisitedType DEF ReportTimeout, PollInv, PollInvOf, At
    <3>2. Contract!Report(Visited)
      BY <2>1, <3>1 DEF ReportTimeout, Contract!Report
    <3> QED
      BY <3>1, <3>2 DEF Contract!Next
  <2>2. CASE SendPoll
    <3>1. /\ Visited \in Objects
          /\ Visited \in Supervised => poll[Visited] # "waiting"
      BY <2>2, VisitedType DEF SendPoll, PollInv, PollInvOf, At
    <3>2. Contract!Ask(Visited)
      BY <2>2, <3>1 DEF SendPoll, Contract!Ask
    <3> QED
      BY <3>1, <3>2 DEF Contract!Next
  <2>3. ASSUME NEW a \in Addresses, NEW apci \in Apcis, ReceiveTelegram(a, apci)
        PROVE  [Contract!Next]_poll
    <3> DEFINE o == GroupObjectList[a]
    <3>1. o \in Objects /\ poll \in [Objects -> {"none", "waiting", "early", "answered", "reported"}]
      BY <2>3 DEF TypeOK, ReceiveTelegram, Entries
    <3>2. poll' = [poll EXCEPT ![o] = IF apci = "GroupValueResponse" THEN Answered(o) ELSE @]
      BY <2>3 DEF ReceiveTelegram
    <3> HIDE DEF o
    <3>3. poll' = poll \/ Contract!AnswerEarly(o) \/ Contract!Answer(o)
      BY <3>1, <3>2 DEF Answered, Contract!AnswerEarly, Contract!Answer
    <3> QED
      BY <3>1, <3>3 DEF Contract!Next
  <2>4. CASE ~(\/ ReportTimeout \/ SendPoll
               \/ \E a \in Addresses, apci \in Apcis : ReceiveTelegram(a, apci))
    <3> poll' = poll
      BY <2>4 DEF Next, Configure, TickThread, WorkerThread, AddGroupObject,
             RefuseGroupObject, RemoveGroupObject, StartServices, TimeIsUp, CheckTimeout,
             Expire, CheckPoll, ArmTimer, ConnectionEvent, NotifyEntry, history
    <3> QED
      OBVIOUS
  <2> QED
    BY <2>1, <2>2, <2>3, <2>4
<1> QED
  BY <1>1, <1>2, TypeCorrect, PollInvariant, PTL DEF Spec, Contract!Spec

-----------------------------------------------------------------------------
(* Errors                                                                  *)

\* A step that leaves the map, the connection event and the worker's loop alone
\* and at most reports a timeout.
LEMMA ErrorsUndisturbed ==
    ASSUME TypeOK, ErrorsInv,
           UNCHANGED <<GroupObjectList, worker>>,
           \/ UNCHANGED error
           \/ \E o \in Objects : error' = [error EXCEPT ![o] = "timeout"]
    PROVE  ErrorsInv'
BY ZenonT(30) DEF TypeOK, ErrorsInv, Shows, Entries, worker

LEMMA ErrorsInvariant == Spec => []ErrorsInv
<1>1. Init => ErrorsInv
  BY ZenonT(30) DEF Init, ErrorsInv, Entries
<1>2. TypeOK /\ ErrorsInv /\ [Next]_vars => ErrorsInv'
  <2> SUFFICES ASSUME TypeOK, ErrorsInv, [Next]_vars
               PROVE  ErrorsInv'
    OBVIOUS
  <2> USE DEF registry, timers, history
  <2>1. CASE Configure
    <3>1. ~running /\ UNCHANGED <<worker>>
      BY <2>1 DEF Configure, AddGroupObject, RefuseGroupObject, RemoveGroupObject,
                  StartServices
    <3>2. workEvent = "None"
      BY <3>1 DEF TypeOK
    <3> QED
      BY <3>1, <3>2 DEF ErrorsInv, Shows, worker
  <2>2. CASE TickThread
    BY <2>2, ErrorsUndisturbed, VisitedType
       DEF TickThread, TimeIsUp, CheckTimeout, Expire, ReportTimeout, CheckPoll,
           SendPoll, ArmTimer
  <2>3. ASSUME NEW event \in {"KnxdSocketConnected", "KnxdSocketError"},
               ConnectionEvent(event)
        PROVE  ErrorsInv'
    <3>1. workPc' = "event" /\ IsLeast(workIt', Entries) /\ Entries' = Entries
      BY <2>3 DEF ConnectionEvent, Entries
    <3>2. Entries \subseteq Nat
      BY ControllerAssumption DEF Entries
    <3>3. \A a \in Entries : ~(a < workIt')
      BY <3>1, <3>2 DEF IsLeast
    <3> QED
      BY <3>1, <3>3 DEF ErrorsInv
  <2>4. CASE NotifyEntry
    <3>1. GroupObjectList[workIt] \in Objects
      BY <2>4, VisitedType DEF NotifyEntry
    <3>2. Entries' = Entries /\ workIt \in Entries /\ Entries \subseteq Nat
      BY <2>4, ControllerAssumption DEF NotifyEntry, TypeOK, Entries
    <3> SUFFICES ASSUME NEW a \in Entries, workPc' = "idle" \/ a < workIt'
                 PROVE  Shows(GroupObjectList[a])'
      <4>1. UNCHANGED <<running, workEvent, GroupObjectList>> /\ running
        BY <2>4 DEF NotifyEntry, TypeOK
      <4> QED
        BY <3>2, <4>1 DEF ErrorsInv, Shows
    <3>3. a <= workIt
      <4>1. a \in Nat /\ workIt \in Nat /\ (a > workIt => a \in After(workIt))
        BY <3>2 DEF After
      <4>2. CASE After(workIt) = {}
        BY <4>1, <4>2
      <4>3. CASE IsLeast(workIt', After(workIt)) /\ workPc' # "idle"
        <5>1. workIt' \in Nat /\ \A b \in After(workIt) : workIt' <= b
          BY <3>2, <4>3 DEF IsLeast, After
        <5> QED
          BY <4>1, <4>3, <5>1
      <4> QED
        BY <2>4, <4>2, <4>3 DEF NotifyEntry
    <3>4. /\ error' = [error EXCEPT ![GroupObjectList[workIt]] = ErrorOf(workEvent)]
          /\ UNCHANGED <<GroupObjectList, workEvent>>
      BY <2>4 DEF NotifyEntry
    <3>5. error \in [Objects -> {"", "timeout", "socket"}] /\ GroupObjectList[a] \in Objects
      BY DEF TypeOK, Entries
    <3>6. CASE GroupObjectList[a] = GroupObjectList[workIt]
      BY <3>4, <3>5, <3>6 DEF Shows, ErrorOf
    <3>7. CASE GroupObjectList[a] # GroupObjectList[workIt]
      <4>1. a < workIt
        BY <3>2, <3>3, <3>7
      <4>2. Shows(GroupObjectList[a])
        BY <4>1 DEF ErrorsInv
      <4> QED
        BY <3>4, <3>5, <3>7, <4>2 DEF Shows
    <3> QED
      BY <3>6, <3>7
  <2>5. ASSUME NEW a \in Addresses, NEW apci \in Apcis, ReceiveTelegram(a, apci)
        PROVE  ErrorsInv'
    BY <2>5, ErrorsUndisturbed DEF ReceiveTelegram
  <2>6. CASE UNCHANGED vars
    BY <2>6, ErrorsUndisturbed DEF vars
  <2> QED
    BY <2>1, <2>2, <2>3, <2>4, <2>5, <2>6 DEF Next, WorkerThread
<1> QED
  BY <1>1, <1>2, TypeCorrect, PTL DEF Spec

\* ErrorsFollowConnection, for every configuration: a connection event that was
\* notified to all objects shows on all of them.
THEOREM ErrorsShown == Spec => []ErrorsFollowConnection
<1>1. ErrorsInv => ErrorsFollowConnection
  BY DEF ErrorsInv, ErrorsFollowConnection
<1> QED
  BY <1>1, ErrorsInvariant, PTL
=============================================================================
