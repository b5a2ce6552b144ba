--------------------------- MODULE MCPortForward ---------------------------
(* Port-forwards on small instances: three requests for two objects in one     *)
(* generation, two requests for one object across a change of generation and   *)
(* the end of the service, or one tunnel of its own.                           *)
EXTENDS PortForward, Tunnel

CONSTANTS r1, r2, r3, a, b

VARIABLE scene

allVars == <<vars, tunnelVars, scene>>

ForwardsInit ==
    /\ Init /\ TunnelInit
    /\ req[r1].object = a /\ req[r2].object = a /\ req[r3].object = b
    /\ scene \in {"slots", "ends", "tunnel"}

\* r1 and r2 are alike: r1 comes first.
Inside ==
    /\ req[r1].pc = "idle" => req'[r2].pc = "idle"
    /\ scene = "slots" => <<gen, down, rootDone>>' = <<gen, down, rootDone>>
    /\ scene = "ends" => req'[r3].pc = "idle"

ForwardsNext ==
    \/ scene # "tunnel" /\ Next /\ Inside /\ UNCHANGED <<tunnelVars, scene>>
    \/ scene = "tunnel" /\ TunnelNext /\ UNCHANGED <<vars, scene>>

\* PortForward's and Tunnel's fairness, of the scene that takes place.
ForwardsFairness ==
    /\ WF_allVars(scene # "tunnel" /\ Progress /\ UNCHANGED <<tunnelVars, scene>>)
    /\ WF_allVars(scene = "tunnel" /\ TunnelProgress /\ UNCHANGED <<vars, scene>>)

ForwardsSpec == ForwardsInit /\ [][ForwardsNext]_allVars /\ ForwardsFairness
=============================================================================
