--------------------------- MODULE KnxEventSource ---------------------------
(***************************************************************************)
(* What the subscribers of TKnxClientService may rely on: notifications    *)
(* come one at a time, a telegram or a socket error only while             *)
(* KnxdSocketConnected is the last connection event they were told.        *)
(***************************************************************************)
CONSTANT NoEvent

VARIABLES heard,      \* the last connection event notified
          notifying   \* the event being notified, as a set: none or one

ConnectionEvents == {"KnxdSocketConnected", "KnxdSocketError"}

Init == heard = NoEvent /\ notifying = {}

Connected ==
    /\ notifying = {}
    /\ notifying' = {"KnxdSocketConnected"}
    /\ heard' = "KnxdSocketConnected"

Lost ==
    /\ notifying = {}
    /\ heard = "KnxdSocketConnected"
    /\ notifying' = {"KnxdSocketError"}
    /\ heard' = "KnxdSocketError"

Telegram ==
    /\ notifying = {}
    /\ heard = "KnxdSocketConnected"
    /\ notifying' = {"ReceivedTelegram"}
    /\ UNCHANGED heard

Return ==
    /\ notifying # {}
    /\ notifying' = {}
    /\ UNCHANGED heard

Next == Connected \/ Lost \/ Telegram \/ Return

Spec == Init /\ [][Next]_<<heard, notifying>>
=============================================================================
