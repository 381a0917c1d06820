---------------------- MODULE MCGroupObjectController ----------------------
(***************************************************************************)
(* Small configurations of TKnxGroupObjectController for TLC.  Settings    *)
(* are in milliseconds, as in the configuration file; a tick is 50 ms.     *)
(***************************************************************************)
EXTENDS GroupObjectController

CONSTANTS light, blind, meter, scene

Setting(main, feedback, interval, timeout) ==
    [GroupAddress |-> main, FeedbackGroupAddress |-> feedback,
     ReadRequestPollInterval |-> interval, ReadResponseTimeout |-> timeout]

\* light has a feedback address and a timeout just below its period, both two
\* ticks long; the main address of blind is that feedback address, so the two
\* conflict in either order, and the period of blind is shorter than a tick;
\* the timeout of meter is longer than its period; scene cannot be created.
MCAddresses == 1 .. 3
MCSettings ==
    [o \in Objects |->
        CASE o = light -> Setting(1, 2, 149, 120)
          [] o = blind -> Setting(2, NoAddress, 40, 50)
          [] o = meter -> Setting(3, NoAddress, 50, 100)
          [] o = scene -> Setting(3, NoAddress, 0, 0)]
=============================================================================
