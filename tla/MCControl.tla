----------------------------- MODULE MCControl -----------------------------
(***************************************************************************)
(* The life of the host program, and the commands it is sent: neither      *)
(* touches the state of the other, so a behaviour is one of one of them.   *)
(***************************************************************************)
EXTENDS HostSession, ControlPath

VARIABLE part   \* the part that moves

Init == part \in {"host", "control"} /\ HostInit /\ ControlInit

Next ==
    /\ part' = part
    /\ \/ part = "host" /\ HostNext /\ UNCHANGED controlVars
       \/ part = "control" /\ ControlNext /\ UNCHANGED hostVars

vars == <<part, hostVars, controlVars>>
Spec == Init /\ [][Next]_vars /\ HostFair

TypeOK == HostTypeOK /\ ControlTypeOK
============================================================================
