--------------------------------- MODULE MCViews ---------------------------------
(* The views of a cluster on small instances: the pages of the resource lists    *)
(* (Paging), the blocks and log scans of the dashboard (Dashboard), the pages of  *)
(* scopes and namespaces (ScopePages), the local index (LocalIndex), or single     *)
(* objects (Details).                                                          *)
EXTENDS Paging, Dashboard, ScopePages, LocalIndex, Details

MCCluster == [identity \in BOOLEAN |->
    IF identity THEN <<<<11, 12, 13>>, <<21>>, <<>>, <<41, 42>>>>
    ELSE <<<<14, 11, 12>>, <<13>>, <<>>, <<15, 16>>>>]

All == 1..4

Request(names, filter, default, pods, identity) ==
    [names |-> names, filter |-> filter, default |-> default, preferGlobal |-> names = All,
     pods |-> pods, identity |-> identity]

MCLists ==
    {Request(All, {}, d, FALSE, i) : d \in {0, 2, 4}, i \in BOOLEAN}
      \cup {Request(All, {1, 3, 4}, 0, FALSE, i) : i \in BOOLEAN}
      \cup {Request(n, {}, 0, TRUE, TRUE) : n \in {{2}, {1, 3}, {1, 2, 4}, {3, 4}}}

-----------------------------------------------------------------------------

MCScopeOf == <<<<1, 2>>, <<2>>>>

Container(name, type, ready, state, lst, restarts, finished) ==
    [name |-> name, type |-> type, ready |-> ready, state |-> state, last |-> lst, restarts |-> restarts, finished |-> finished]

Calm(name) == Container(name, "regular", TRUE, "Running", "none", 0, NoTime)

Pod(ns, name, phase, containers) ==
    [ns |-> ns, name |-> name, uid |-> name, phase |-> phase, evicted |-> FALSE, unschedulable |-> FALSE,
     ready |-> IF phase = "Running" THEN "True" ELSE "False", probe |-> FALSE, created |-> 1, containers |-> containers]

Event(uid, ns, name, type, reason, probe, count) ==
    [uid |-> uid, ns |-> ns, kind |-> "Pod", name |-> name, ruid |-> name, type |-> type, reason |-> reason, probe |-> probe,
     count |-> count, series |-> FALSE, seriesCount |-> 0, seriesTime |-> NoTime, eventTime |-> NoTime,
     last |-> Now - uid, created |-> 1]

Workload(kind, ns, name, available) ==
    [kind |-> kind, ns |-> ns, name |-> name, uid |-> name, owner |-> NoName, generation |-> 1, observed |-> 1,
     deadline |-> FALSE, desired |-> 2, ready |-> available, available |-> available, updated |-> 2, collected |-> TRUE,
     failedCondition |-> FALSE, failed |-> 0, suspended |-> FALSE, active |-> 0, completeCondition |-> TRUE,
     succeeded |-> 0, ended |-> NoTime, created |-> 1, scheduled |-> 1]

FailedJob(ns, name, owner) == [Workload("Job", ns, name, 0) EXCEPT !.failedCondition = TRUE, !.owner = owner, !.ended = Now]

Sample(ns, pod, cpu, memory) == [ns |-> ns, pod |-> pod, window |-> 1, containers |-> <<[cpu |-> cpu, memory |-> memory], [cpu |-> 1, memory |-> 1]>>]

Hit(field, word) == [field |-> field, word |-> word]
Line(hits, pem) == [hits |-> hits, pem |-> pem]
Bad == Line({Hit("text", "ERROR_KEYWORD")}, "none")

NoWorkloads == [k \in 1..5 |-> <<>>]

\* Three containers to scan, of two namespaces, for one client; one log holds a
\* private key.
ScanCluster ==
    [id |-> 0, scene |-> "scans", clients |-> 1, indexed |-> TRUE, metricsServed |-> FALSE, nodes |-> <<>>, claims |-> {}, volumes |-> {},
     pods |-> <<<<Pod(1, 1, "Running", <<Container(1, "regular", TRUE, "Running", "OOMKilled", 1, Now - 1)>>)>>,
                <<Pod(2, 2, "Running", <<Calm(1), Container(2, "regular", TRUE, "Running", "Error", 0, Now - 2)>>),
                  Pod(2, 3, "Failed", <<Container(1, "regular", FALSE, "Completed", "none", 0, NoTime)>>)>>>>,
     events |-> <<<<>>, <<>>>>, workloads |-> <<NoWorkloads, NoWorkloads>>, metrics |-> <<<<>>, <<>>>>,
     logs |-> [t \in {<<1, 1, 1, TRUE>>, <<2, 2, 2, TRUE>>, <<2, 3, 1, FALSE>>} |->
                 CASE t[1] = 1 -> <<Bad>>
                   [] t[2] = 2 -> <<Line({Hit("level", ""), Hit("msg", "PANIC")}, "begin"), Bad>>
                   [] OTHER -> <<Bad>>]]

\* One container to scan, for two clients.
BusyCluster ==
    [ScanCluster EXCEPT !.id = 4, !.clients = 2,
     !.pods = <<<<>>, <<Pod(2, 3, "Failed", <<Container(1, "regular", FALSE, "Completed", "none", 0, NoTime)>>)>>>>]

\* Everything within the budgets.
Small ==
    [ScanCluster EXCEPT !.id = 1, !.scene = "views", !.metricsServed = TRUE,
     !.pods = <<<<Pod(1, 1, "Running", <<Container(1, "regular", FALSE, "CrashLoopBackOff", "OOMKilled", 6, Now - 1)>>),
                  Pod(1, 2, "Running", <<Calm(1)>>)>>,
                <<Pod(2, 3, "Pending", <<Container(2, "regular", FALSE, "Waiting", "none", 0, NoTime)>>)>>>>,
     !.events = <<<<Event(1, 1, 2, "Warning", "Unhealthy", "liveness", 2), Event(2, 1, 2, "Normal", "Started", "none", 1)>>,
                  <<Event(3, 2, 3, "Warning", "FailedScheduling", "none", 4)>>>>,
     !.workloads = <<[NoWorkloads EXCEPT ![1] = <<Workload("Deployment", 1, 1, 1)>>, ![5] = <<Workload("CronJob", 1, 9, 0)>>,
                                         ![4] = <<FailedJob(1, 4, 9)>>],
                     [NoWorkloads EXCEPT ![3] = <<Workload("DaemonSet", 2, 1, 2)>>]>>,
     !.metrics = <<<<Sample(1, 1, 5, 2), Sample(1, 2, 3, 8)>>, <<Sample(2, 3, 5, 1)>>>>,
     !.nodes = <<[name |-> 1, ready |-> "True"], [name |-> 2, ready |-> "Unknown"]>>,
     !.volumes = {[ns |-> 1, name |-> 1, pending |-> TRUE]},
     !.claims = {[ns |-> 0, state |-> "ready", claims |-> {[ns |-> 1, name |-> 1, pending |-> TRUE]}]}]

\* Exactly the budget of items, a workload that cannot be judged, more nodes than
\* a page has, and a cache that knows one namespace only.
Edge ==
    [Small EXCEPT !.id = 2,
     !.pods[2] = <<Pod(2, 3, "Pending", <<Container(2, "init", FALSE, "ImagePullBackOff", "none", 1, NoTime)>>), Pod(2, 4, "Running", <<Calm(1)>>)>>,
     !.workloads[2] = [NoWorkloads EXCEPT ![1] = <<[Workload("Deployment", 2, 5, 2) EXCEPT !.observed = 0]>>],
     !.events[2] = <<Event(3, 2, 3, "Warning", "FailedScheduling", "none", 4), Event(4, 2, 3, "Warning", "BackOff", "none", 1)>>,
     !.nodes = <<[name |-> 1, ready |-> "False"], [name |-> 2, ready |-> "True"], [name |-> 3, ready |-> "False"]>>,
     !.claims = {[ns |-> 2, state |-> "ready", claims |-> {}]}]

\* More than the budget in one namespace, nothing in the other.
Large ==
    [Small EXCEPT !.id = 3, !.metricsServed = FALSE,
     !.pods = <<[i \in 1..5 |-> Pod(1, i, "Running", <<Container(1, "regular", TRUE, "Running", "none", i, NoTime)>>)], <<>>>>,
     !.events = <<<<>>, [i \in 1..5 |-> Event(i, 2, i, "Warning", "BackOff", "none", 1)]>>,
     !.workloads = <<NoWorkloads, [k \in 1..5 |-> <<Workload("StatefulSet", 2, k, 2)>>]>>]

MCClusters == {ScanCluster, BusyCluster, Small, Edge, Large}

Fault(src, ns, page, code, ends) == [src |-> src, ns |-> ns, page |-> page, code |-> code, ends |-> ends]

OneFault ==
    {Fault(s, ns, p, c, FALSE) : s \in {"pods", "events"}, ns \in {1, 2}, p \in {1, 2}, c \in {"FORBIDDEN", "CLUSTER_UNAVAILABLE"}}
      \cup {Fault(s, 1, 2, "UPSTREAM_TIMEOUT", TRUE) : s \in {"pods", "events", "metrics", "workloads"}}
      \cup {Fault("workloads", ns, k, "FORBIDDEN", FALSE) : ns \in {1, 2}, k \in {1, 4}}
      \cup {Fault("metrics", ns, 0, "FORBIDDEN", FALSE) : ns \in {0, 1, 2}}
      \cup {Fault(s, 0, 0, c, FALSE) : s \in {"nodes", "version"}, c \in {"FORBIDDEN", "UPSTREAM_TIMEOUT"}}
      \cup {Fault("diagnosis", 2, 0, "CLIENT_CANCELED", FALSE), Fault("logs", 2, 2, "FORBIDDEN", FALSE)}

MCFaultSets ==
    {{}} \cup {{f} : f \in OneFault}
      \cup {{Fault(s, ns, 1, "FORBIDDEN", FALSE) : ns \in {1, 2}, s \in {"pods", "events", "workloads", "metrics"}}}

Query(kind, narrow, statuses, sort, limit) == [kind |-> kind, narrow |-> narrow, statuses |-> statuses, sort |-> sort, limit |-> limit]

MCQueries ==
    {Query(k, 0, {}, "none", 1) : k \in {"summary", "health", "diagnostics"}}
      \cup {Query("restarts", n, {}, "none", 1) : n \in {0, 1}}
      \cup {Query("problems", n, s, o, 2) : n \in {0, 1}, s \in {{}, {"critical"}}, o \in {"severity", "identity"}}
      \cup {Query("events", n, s, o, l) : n \in {0, 2}, s \in {{}, {"Normal", "Warning"}}, o \in {"timestamp", "count"}, l \in {1, 9}}
      \cup {Query("metrics", n, {}, o, l) : n \in {0, 2}, o \in {"cpu", "memory"}, l \in {1, 2}}

ViewSymmetry == Permutations(Requests) \cup Permutations(Askers)

-----------------------------------------------------------------------------

Scope(id, name, updated) == [id |-> id, name |-> name, updated |-> updated]

\* Instants of which the text of one begins with that of another.
MCScopeTables == {{Scope(1, 5, 100), Scope(2, 3, 110), Scope(3, 1, 112), Scope(4, 4, 200)}}

MCCatalog == <<[name |-> 1, phase |-> "Active"], [name |-> 2, phase |-> "Terminating"], [name |-> 3, phase |-> "Active"]>>

ScopeQuery(limit, sort, order, search) ==
    [list |-> "scopes", limit |-> limit, sort |-> sort, order |-> order, search |-> search]

NamespaceQuery(limit, order, names, statuses) ==
    [list |-> "namespaces", limit |-> limit, sort |-> "name", order |-> order, search |-> {}, namespaces |-> names, statuses |-> statuses]

MCListQueries ==
    {ScopeQuery(l, s, o, {}) : l \in {1, 2}, s \in {"name", "updatedAt"}, o \in {"asc", "desc"}}
      \cup {ScopeQuery(1, "name", "asc", {1, 2, 4})}
      \cup {NamespaceQuery(l, o, n, s) : l \in {1, 2}, o \in {"asc", "desc"}, n \in {{}, {1, 3}}, s \in {{}, {"Active"}}}

-----------------------------------------------------------------------------

Object(kind, ns, name, owner, labels, uses, about) ==
    [kind |-> kind, ns |-> ns, name |-> name, owner |-> owner, labels |-> labels, configs |-> uses, claims |-> uses, about |-> about]

Bare(kind, ns, owner) == Object(kind, ns, 1, owner, {}, {}, NoRef)

Ref(kind, name) == [kind |-> kind, name |-> name]

\* A CronJob's pod, a pod of a ReplicaSet (which no topic lists), and a pod whose
\* owners own each other.
MCClusterObjects ==
    {Object("Pod", 1, 1, Ref("Job", 1), {1}, {1}, NoRef), Object("Job", 1, 1, Ref("CronJob", 1), {}, {2}, NoRef),
     Bare("CronJob", 1, NoRef), Object("Pod", 1, 2, Ref("ReplicaSet", 1), {1, 2}, {}, NoRef), Bare("Deployment", 1, NoRef),
     Bare("Pod", 2, Ref("StatefulSet", 1)), Bare("StatefulSet", 2, Ref("DaemonSet", 1)), Bare("DaemonSet", 2, Ref("StatefulSet", 1)),
     Object("Service", 1, 1, NoRef, {1}, {}, NoRef), Object("EndpointSlice", 1, 1, NoRef, {}, {}, Ref("Service", 1)),
     Bare("ConfigMap", 1, NoRef), Bare("PersistentVolumeClaim", 1, NoRef), Object("Event", 1, 1, NoRef, {}, {}, Ref("Pod", 1))}

\* The pod gets another owner, the CronJob a second pod, the Job none.
MCLaterObjects ==
    {Object("Pod", 1, 1, Ref("Job", 2), {1}, {1}, NoRef), Object("Pod", 1, 3, Ref("CronJob", 1), {}, {}, NoRef), Bare("Job", 1, NoRef)}

Keys(kinds, names) == {[kind |-> k, ns |-> ns] : k \in kinds, ns \in names}

Working == TopicKinds.workloads \cup {"Pod"}

MCLoadedKeys ==
    {Keys(UNION {TopicKinds[t] : t \in Topics}, {1}), Keys(Working \ {"CronJob"}, {1}), Keys(Working, {1, 2}),
     Keys(Working, {0}) \cup Keys({"Pod"}, {1})}

MCInquiries ==
    {[kind |-> k, ns |-> 1, name |-> 1] : k \in {"index", "Pod", "CronJob", "ReplicaSet"}}
      \cup {[kind |-> "StatefulSet", ns |-> 2, name |-> 1]}

-----------------------------------------------------------------------------

Route(form, kind) == [form |-> form, kind |-> kind]

MCAsked ==
    {Route("detail", "nodes"), Route("yaml", "replicasets"), Route("diff", "configmaps"), Route("data", "secrets")}

\* One line replaced, and one line added, since the manifest was applied.
MCBaselines == {<<>>, <<1, 2>>, <<1>>}
MCLiveDocument == <<1, 3>>

\* The manifest matters when the object is served.
DetailsStart == (live.there /\ live.permitted) \/ live.applied = <<>>

-----------------------------------------------------------------------------

AnyList == CHOOSE l \in MCLists : TRUE

ListsIdle ==
    /\ list = AnyList /\ mode = "none" /\ perm = {} /\ parked = NewCompositeCursor /\ cursor = NewCompositeCursor
    /\ win = Idle /\ out = [o \in AllOrigins |-> NoOutcome] /\ got = <<>> /\ last = [NewPage EXCEPT !.cursor = TRUE] /\ upsets = 0

DashboardIdle(name) == scene = name /\ cluster = Small /\ ScanInit /\ view = NoView

ScopesIdle ==
    /\ table = {} /\ chosen = [gen |-> 1, scope |-> 1, namespaces |-> {}]
    /\ walk = NewWalk(CHOOSE q \in MCListQueries : TRUE)
    /\ first = {} /\ touched = {} /\ changes = 0

IndexIdle ==
    /\ real = {} /\ stirred = {} /\ incidents = 0 /\ held = {} /\ bound = [gen |-> 1, names |-> {}]
    /\ inquiry = [ask |-> CHOOSE q \in MCInquiries : TRUE, phase |-> "refused", gen |-> 0, names |-> {}, answer |-> NoAnswer]

DetailsIdle ==
    /\ live = [gen |-> 1, context |-> 1, scoped |-> TRUE, there |-> TRUE, permitted |-> TRUE, login |-> 1, applied |-> <<>>]
    /\ client = [login |-> 0, lease |-> 1] /\ ask = [a \in Askers |-> NewAsk(Route("detail", "nodes"))] /\ trouble = 0

ViewsInit ==
    \/ Init /\ DashboardIdle("lists") /\ ScopesIdle /\ IndexIdle /\ DetailsIdle
    \/ DashboardInit /\ ListsIdle /\ ScopesIdle /\ IndexIdle /\ DetailsIdle
    \/ ScopesInit /\ ListsIdle /\ DashboardIdle("scopes") /\ IndexIdle /\ DetailsIdle
    \/ IndexInit /\ ListsIdle /\ DashboardIdle("index") /\ ScopesIdle /\ DetailsIdle
    \/ DetailsInit /\ DetailsStart /\ ListsIdle /\ DashboardIdle("details") /\ ScopesIdle /\ IndexIdle

ViewsNext ==
    \/ scene = "lists" /\ Next /\ UNCHANGED <<viewVars, scopeVars, indexVars, detailVars>>
    \/ scene \in {"scans", "views"} /\ DashboardNext /\ UNCHANGED <<vars, scopeVars, indexVars, detailVars>>
    \/ scene = "scopes" /\ ScopesNext /\ UNCHANGED <<vars, viewVars, indexVars, detailVars>>
    \/ scene = "index" /\ IndexNext /\ UNCHANGED <<vars, viewVars, scopeVars, detailVars>>
    \/ scene = "details" /\ DetailsNext /\ UNCHANGED <<vars, viewVars, scopeVars, indexVars>>

ViewsSpec == ViewsInit /\ [][ViewsNext]_<<vars, viewVars, scopeVars, indexVars, detailVars>>

\* What an answer says is missing is missing, of a topic or of one object.
NothingInvented == AbsenceIsKnown /\ DetailsHonest
=============================================================================
