------------------------- MODULE MCKnxClientService -------------------------
(* Two callers that may start and stop the service at any time, a sender   *)
(* besides the client thread, one client thread more than may ever run,    *)
(* and a connection to open while an old one is still published.           *)
EXTENDS KnxClientService

CONSTANTS t1, t2, s1, c1, c2, k1, k2, k3

MCThreads     == {t1, t2}
MCSenders     == {s1}
MCCallers     == {c1, c2}
MCConnections == {k1, k2, k3}
=============================================================================
