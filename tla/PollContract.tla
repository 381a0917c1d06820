---------------------------- MODULE PollContract ----------------------------
(***************************************************************************)
(* What polling promises for each group object, with threads, counters and *)
(* group addresses hidden: a read request is sent, and before the next one *)
(* is sent it has been answered or its timeout has been reported.          *)
(*                                                                         *)
(* poll[o] is the fate of the latest read request sent for object o:       *)
(*   "none"      no poll was sent yet                                      *)
(*   "waiting"   sent, neither answered nor reported                       *)
(*   "early"     answered while the sender was still arming the timer      *)
(*   "answered"  answered                                                  *)
(*   "reported"  the timeout error was published                           *)
(***************************************************************************)
CONSTANTS Objects,     \* the group objects
          Supervised   \* those whose timeout is set and fits in the period

VARIABLE poll

Init == poll = [o \in Objects |-> "none"]

\* A supervised object is polled again only when its last poll is concluded.
Ask(o) ==
    /\ o \in Supervised => poll[o] # "waiting"
    /\ poll' = [poll EXCEPT ![o] = "waiting"]

AnswerEarly(o) ==
    /\ poll[o] = "waiting"
    /\ poll' = [poll EXCEPT ![o] = "early"]

Answer(o) ==
    /\ poll[o] \in {"waiting", "early"}
    /\ poll' = [poll EXCEPT ![o] = "answered"]

\* One report at most for each poll: "reported" is left by Ask alone.
Report(o) ==
    /\ poll[o] \in {"waiting", "early", "answered"}
    /\ poll' = [poll EXCEPT ![o] = "reported"]

Next == \E o \in Objects : Ask(o) \/ AnswerEarly(o) \/ Answer(o) \/ Report(o)

Conclude(o) == AnswerEarly(o) \/ Answer(o) \/ Report(o)

Fairness == \A o \in Supervised : WF_poll(poll[o] = "waiting" /\ Conclude(o))

Spec == Init /\ [][Next]_poll

FairSpec == Spec /\ Fairness
=============================================================================
