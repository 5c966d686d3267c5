--------------------------- MODULE ServerProcess ----------------------------
(***************************************************************************)
(* RunServer's start (src/internal/app/server.go): the identity, then the  *)
(* Bluetooth side, in one process among others that share the identity     *)
(* file. When the process ends, for whatever reason, the platform drops    *)
(* what it registered, and it may be started again.                        *)
(***************************************************************************)
EXTENDS ServerIdentity, PeripheralServer

CONSTANT Host   \* the process whose Bluetooth side is modelled

ASSUME HostAssumption == Host \in Procs

vars == <<idVars, pVars>>

Init == IdInit /\ PInit

Others == \E p \in Procs \ {Host} : IdStep(p) /\ UNCHANGED pVars

\* loadOrCreateServerID comes first.
Loads == Loading(Host) /\ UNCHANGED pVars

Runs == pc[Host] = "running" /\ PNext /\ UNCHANGED idVars

Ends == Dies(Host) /\ Gone

Next == Others \/ Loads \/ Runs \/ Ends

Running(A) == pc[Host] = "running" /\ A /\ UNCHANGED idVars

\* The start and an end that has begun proceed, timers fire, events and offers
\* are handled.
Fairness ==
    /\ WF_vars(Running(Start)) /\ WF_vars(Running(CloseStops \/ CloseRemoves)) /\ WF_vars(Running(Restart))
    /\ WF_vars(Running(Disconnected)) /\ WF_vars(Running(\E k \in Conns : Offer(k)))

Spec == Init /\ [][Next]_vars /\ Fairness
=============================================================================
