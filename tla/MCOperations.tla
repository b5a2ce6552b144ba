------------------------------ MODULE MCOperations ------------------------------
(* The operations on a cluster on small instances: two mutations (Actions), exec   *)
(* sessions (Exec), or one remote command of its own (RemoteExec).                 *)
EXTENDS Actions, Exec, RemoteExec, TLC

CONSTANTS r1, r2, k1, k2

Restart(k, b) == [op |-> "restart", key |-> k, body |-> b]
Other(op, b)  == [op |-> op, key |-> k1, body |-> b]

Pair(a, b) == r1 :> a @@ r2 :> b

\* One key with two bodies, two keys, and a mutation beside another one.
EveryPair ==
    {Pair(Restart(k1, 1), x) : x \in {Restart(k1, 2), Restart(k2, 1), Other("scale", 1)}}
      \cup {Pair(Other("trigger", 1), Other("suspend", 1)), Pair(Other("delete", 1), Restart(k1, 1))}
      \cup {Pair(Restart(k1, 1), Restart(k1, 1))}
-----------------------------------------------------------------------------

VARIABLE scene

operationVars == <<vars, sessionVars, remoteVars, scene>>

\* The scenes of the sessions and the command need no choice of mutations.
AnyMutations == object.kind = "Deployment" /\ \A r \in Requests : req[r].op = "restart" /\ req[r].key = k1 /\ req[r].body = 1

OperationsInit ==
    /\ Init /\ SessionsInit /\ RemoteInit
    /\ scene \in IF AnyMutations THEN {"mutations", "sessions", "remote"} ELSE {"mutations"}

OperationsNext ==
    \/ scene = "mutations" /\ Next /\ UNCHANGED <<sessionVars, remoteVars, scene>>
    \/ scene = "sessions" /\ SessionsNext /\ UNCHANGED <<vars, remoteVars, scene>>
    \/ scene = "remote" /\ RemoteNext /\ UNCHANGED <<vars, sessionVars, scene>>

\* The fairness of Actions, Exec and RemoteExec; one scene takes place, so one
\* condition says it of the three.
Owed ==
    \/ /\ scene = "mutations" /\ UNCHANGED <<object, sessionVars, remoteVars, scene>>
       /\ \E r \in Requests : Step(r)
    \/ scene = "sessions" /\ Progress /\ UNCHANGED <<vars, remoteVars, scene>>
    \/ scene = "remote" /\ RemoteSteps /\ UNCHANGED <<vars, sessionVars, scene>>

OperationsSpec == OperationsInit /\ [][OperationsNext]_operationVars /\ WF_operationVars(Owed)
=============================================================================
