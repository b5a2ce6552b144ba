------------------------------- MODULE MCWatch -------------------------------
(* The snapshot cache with two subscriptions (ResourceCache), or the worker that  *)
(* fills one cell of it and its readers (Watch), on small instances.              *)
EXTENDS ResourceCache, Watch, TLC

CONSTANT g1

\* All keys belong to one generation.
MCGenerationOf == [k \in Keys |-> g1]

VARIABLE scene

allVars == <<vars, watchVars, scene>>

\* Each scene leaves the other module's choices alone.
CacheInit ==
    /\ Init /\ WatchInit
    /\ scene \in {"cache", "worker"}
    /\ scene = "cache" => unsupported /\ cluster = <<Nothing>>
    /\ scene = "worker" => \A s \in Subs : sub[s].key = CHOOSE k \in Keys : TRUE

CacheNext ==
    \/ scene = "cache" /\ Next /\ UNCHANGED <<watchVars, scene>>
    \/ scene = "worker" /\ WatchNext /\ UNCHANGED <<vars, scene>>

\* The cache owes nothing to anyone; the fairness is Watch's.
CacheSpec ==
    /\ CacheInit /\ [][CacheNext]_allVars
    /\ WF_allVars(scene = "worker" /\ Progress /\ UNCHANGED <<vars, scene>>)
=============================================================================
