------------------------------- MODULE LocalIndex -------------------------------
(***************************************************************************)
(* The local index and the investigation of an object:                      *)
(* internal/services/resources/index.go behind                              *)
(* internal/api/handlers/investigation.go.                                  *)
(*                                                                          *)
(* The index is made of what the cache happens to hold (ResourceCache,       *)
(* filled by the workers of Watch, each at its own time) and never reads the *)
(* cluster.  Names are compared without regard to case; a name here stands   *)
(* for all its spellings.                                                    *)
(***************************************************************************)
EXTENDS Integers, Sequences, FiniteSets

LOCAL INSTANCE Functions

CONSTANTS
    ClusterObjects,   \* the objects of the cluster at first
    LaterObjects,     \* the objects that may appear, or replace another, later
    LoadedKeys,       \* sets of keys [kind, ns] the cache may hold at first; ns 0 is all namespaces
    Selections,       \* the namespaces the selection may be of
    Inquiries,        \* what a client may ask: [kind, ns, name]; kind "index" for the index
    MaxChain,         \* the owners an investigation follows (8)
    MaxIndexUpsets    \* bound: changes of the cluster, the cache and the selection

ASSUME LocalIndexAssumption == MaxChain \in Nat \ {0} /\ MaxIndexUpsets \in Nat

\* topicGVRs, by the kinds of their objects.
TopicKinds ==
    [pods |-> {"Pod"}, events |-> {"Event"},
     workloads |-> {"Deployment", "StatefulSet", "DaemonSet", "Job", "CronJob"},
     services |-> {"Service"}, ingresses |-> {"Ingress"}, endpointSlices |-> {"EndpointSlice"},
     configMaps |-> {"ConfigMap"}, pvcs |-> {"PersistentVolumeClaim"}]

Topics == DOMAIN TopicKinds

NoRef == [kind |-> "", name |-> 0]

VARIABLES
    real,       \* the objects of the cluster
    stirred,    \* history: what was changed in the cluster
    held,       \* the cache's entries: [gen, kind, ns, state, items]
    bound,      \* the selection: [gen, names]
    inquiry,    \* the client's request and its answer
    incidents

indexVars == <<real, stirred, held, bound, inquiry, incidents>>

\* topicObjectIdentity
topicObjectIdentity(o) == <<o.kind, o.ns, o.name>>

ItemsOf(kind, ns) == {o \in real : o.kind = kind /\ ns \in {0, o.ns}}

NoAnswer == [coverage |-> {}, kept |-> {}, counts |-> {}, found |-> <<>>]

IndexInit ==
    /\ real = ClusterObjects /\ stirred = {} /\ incidents = 0
    /\ \E names \in Selections : bound = [gen |-> 1, names |-> names]
    /\ \E keys \in LoadedKeys :
        held = {[gen |-> 1, kind |-> k.kind, ns |-> k.ns, state |-> "fresh", items |-> ItemsOf(k.kind, k.ns)] : k \in keys}
    /\ \E q \in Inquiries :
        inquiry = [ask |-> q, phase |-> "arrived", gen |-> 0, names |-> {}, answer |-> NoAnswer]

-----------------------------------------------------------------------------
(* What is covered *)

cacheStateRank(state) ==
    CASE state = "fresh" -> 0 [] state = "stale" -> 1 [] state = "refreshing" -> 2 [] state = "partial" -> 3 [] OTHER -> 4

\* Every kind of the topic is loaded for all namespaces, or for each expected one.
indexOriginsComplete(topic, entries, names) ==
    LET containsAll(ns) == \A k \in TopicKinds[topic] : \E e \in entries : e.kind = k /\ e.ns = ns
    IN  containsAll(0) \/ (names # {} /\ \A ns \in names : containsAll(ns))

IndexCoverage(topic, entries, names) ==
    LET mine == {e \in entries : e.kind \in TopicKinds[topic]} IN
    [topic |-> topic,
     state |-> IF mine = {} THEN "expired"
               ELSE (CHOOSE e \in mine : \A f \in mine : cacheStateRank(f.state) <= cacheStateRank(e.state)).state,
     complete |-> /\ mine # {}
                  /\ \A e \in mine : e.state \notin {"partial", "refreshing"}
                  /\ indexOriginsComplete(topic, mine, names),
     loaded |-> {e.ns : e \in mine} \ {0}]

\* One object of each identity; the entries are visited in any order.
OneOfEach(objects) ==
    LET twins == {o \in objects : \E p \in objects \ {o} : topicObjectIdentity(p) = topicObjectIdentity(o)} IN
    {kept \in {objects \ away : away \in SUBSET twins} :
        \A o \in objects : Cardinality({p \in kept : topicObjectIdentity(p) = topicObjectIdentity(o)}) = 1}

\* finalize's counts.
NamespaceCount(kept) ==
    {[ns |-> o.ns, kind |-> o.kind, count |-> Cardinality({p \in kept : p.ns = o.ns /\ p.kind = o.kind})] :
        o \in {p \in kept : p.kind # "Event"}}

-----------------------------------------------------------------------------
(* The investigation *)

\* The chain of owners, as far as the index knows it: it ends at an owner that is
\* not in the index, that was met before, or that is one too many.
followOwner(workloads, ns, owner) ==
    LET OwnerOf(ref) ==
            LET known == {w \in workloads : w.ns = ns /\ w.kind = ref.kind /\ w.name = ref.name} IN
            IF known = {} THEN NoRef ELSE (CHOOSE w \in known : TRUE).owner
        chain[n \in 0..MaxChain] ==
            IF n = 0 THEN <<>>
            ELSE LET so == chain[n - 1]
                     next == IF so = <<>> THEN owner ELSE OwnerOf(so[Len(so)])
                 IN  IF next = NoRef \/ next \in Range(so) THEN so ELSE Append(so, next)
    IN  chain[MaxChain]

ownerLeadsTo(workloads, ns, owner, ref) == ref \in Range(followOwner(workloads, ns, owner))

\* A service with no selector selects nothing.
anyPodMatches(selector, pods) == selector # {} /\ \E p \in pods : selector \subseteq p.labels

RefOf(o) == [kind |-> o.kind, name |-> o.name]

Investigate(kept, q) ==
    LET here == {o \in kept : o.ns = q.ns}
        target == [kind |-> q.kind, name |-> q.name]
        workloads == {o \in kept : o.kind \in TopicKinds.workloads}
        itself == {o \in here : RefOf(o) = target}
        pods == {o \in here : /\ o.kind = "Pod"
                              /\ IF q.kind = "Pod" THEN o.name = q.name
                                 ELSE o.owner # NoRef /\ ownerLeadsTo(workloads, q.ns, o.owner, target)}
        users == pods \cup (IF q.kind = "Pod" THEN {} ELSE itself)
        services == {o \in here : o.kind = "Service" /\ anyPodMatches(o.labels, pods)}
        Named(kind, names) == {o \in here : o.kind = kind /\ o.name \in names}
    IN
    [owners |-> IF itself = {} THEN <<>> ELSE followOwner(workloads, q.ns, (CHOOSE o \in itself : TRUE).owner),
     pods |-> pods,
     services |-> services,
     endpointSlices |-> {o \in here : o.kind = "EndpointSlice" /\ o.about.name \in {s.name : s \in services}},
     configMaps |-> Named("ConfigMap", UNION {o.configs : o \in users}),
     pvcs |-> Named("PersistentVolumeClaim", UNION {o.claims : o \in users}),
     events |-> {o \in here : o.kind = "Event" /\ o.about \in {target} \cup {RefOf(p) : p \in pods}}]

-----------------------------------------------------------------------------
(* A request *)

\* Get: the target must be in the selection's scope.
InquiryArrives ==
    /\ inquiry.phase = "arrived"
    /\ inquiry' = [inquiry EXCEPT !.gen = bound.gen, !.names = bound.names,
          !.phase = IF inquiry.ask.kind = "index" \/ inquiry.ask.ns \in bound.names THEN "bound" ELSE "refused"]
    /\ UNCHANGED <<real, stirred, held, bound, incidents>>

\* LocalIndex, under the cache's lock, and Investigate.
InquiryReads ==
    LET usable == {e \in held : e.gen = inquiry.gen /\ e.state # "expired"} IN
    /\ inquiry.phase = "bound"
    /\ \E kept \in OneOfEach(UNION {e.items : e \in usable}) :
        inquiry' = [inquiry EXCEPT !.phase = "read",
            !.answer = [coverage |-> {IndexCoverage(t, usable, inquiry.names) : t \in Topics},
                        kept |-> kept,
                        counts |-> NamespaceCount(kept),
                        found |-> IF inquiry.ask.kind = "index" THEN <<>> ELSE <<Investigate(kept, inquiry.ask)>>]]
    /\ UNCHANGED <<real, stirred, held, bound, incidents>>

\* writeCurrent
InquiryWrites ==
    /\ inquiry.phase = "read"
    /\ inquiry' = IF bound.gen = inquiry.gen THEN [inquiry EXCEPT !.phase = "answered"]
                  ELSE [inquiry EXCEPT !.phase = "refused", !.answer = NoAnswer]
    /\ UNCHANGED <<real, stirred, held, bound, incidents>>

-----------------------------------------------------------------------------
(* What goes on meanwhile *)

Incident == incidents < MaxIndexUpsets /\ incidents' = incidents + 1

\* What has been read no longer depends on the cache and the cluster.
Unread == inquiry.phase \in {"arrived", "bound"}

\* The cache: an entry is refreshed, replaced by what the cluster has, ages, or leaves.
EntryMoves(e, f) ==
    /\ Unread
    /\ held' = (held \ {e}) \cup f
    /\ UNCHANGED <<real, stirred, bound, inquiry>>

BeginRefresh(e) == e.state \in {"fresh", "stale"} /\ Incident /\ EntryMoves(e, {[e EXCEPT !.state = "refreshing"]})
Commit(e)       == Incident /\ EntryMoves(e, {[e EXCEPT !.state = "fresh", !.items = ItemsOf(e.kind, e.ns)]})
Ages(e)         == e.state # "expired" /\ Incident /\ EntryMoves(e, {[e EXCEPT !.state = IF e.state = "fresh" THEN "stale" ELSE "expired"]})
Leaves(e)       == Incident /\ EntryMoves(e, {})

\* The cluster: an object appears, in place of the one of its identity, or goes.
ObjectChanges(away, new) ==
    /\ Unread /\ Incident
    /\ real' = (real \ away) \cup new
    /\ stirred' = stirred \cup away \cup new
    /\ UNCHANGED <<held, bound, inquiry>>

SelectionMoves(names) ==
    /\ inquiry.phase \in {"arrived", "bound", "read"} /\ Incident
    /\ bound' = [gen |-> bound.gen + 1, names |-> names]
    /\ UNCHANGED <<real, stirred, held, inquiry>>

IndexNext ==
    \/ InquiryArrives \/ InquiryReads \/ InquiryWrites
    \/ \E e \in held : BeginRefresh(e) \/ Commit(e) \/ Ages(e) \/ Leaves(e)
    \/ \E o \in LaterObjects : ObjectChanges({p \in real : topicObjectIdentity(p) = topicObjectIdentity(o)}, {o})
    \/ \E o \in real : ObjectChanges({o}, {})
    \/ \E names \in Selections : SelectionMoves(names)

-----------------------------------------------------------------------------
(* Properties *)

Complete(topic) == \E c \in inquiry.answer.coverage : c.topic = topic /\ c.complete

\* What the cluster had all along, of the selected namespaces.
Lasting == {o \in ClusterObjects \ stirred : o.ns \in inquiry.names}

Ever == ClusterObjects \cup stirred

\* The pods whose owners, of kinds a topic lists, lead to the target: the reference
\* for followOwner, from the target down instead of from the pods up.
OwnedBy(objects, q) ==
    LET known == {o \in objects : o.ns = q.ns /\ o.kind \in TopicKinds.workloads \cup {"Pod"}}
        target == [kind |-> q.kind, name |-> q.name]
        led[n \in 0..Cardinality(known)] ==
            IF n = 0 THEN {target}
            ELSE LET so == led[n - 1] IN so \cup {RefOf(o) : o \in {w \in known : w.owner \in so}}
    IN  {o \in known : o.kind = "Pod" /\ RefOf(o) \in led[Cardinality(known)]}

\* An index, or an investigation, that is answered and says that a topic is
\* completely covered has everything of that topic that the cluster had all along
\* in the selected namespaces, each object once, whatever entries were refreshed,
\* expired or replaced while it was read; and an investigation finds every pod
\* whose owners lead to its target when pods and workloads are complete, and none
\* that never was the target's.
AbsenceIsKnown ==
    inquiry.phase = "answered" =>
        LET a == inquiry.answer IN
        /\ \A o \in Lasting : \A t \in Topics : Complete(t) /\ o.kind \in TopicKinds[t] => o \in a.kept
        /\ \A o, p \in a.kept : topicObjectIdentity(o) = topicObjectIdentity(p) => o = p
        /\ a.found # <<>> =>
            /\ Complete("pods") /\ Complete("workloads") => OwnedBy(Lasting, inquiry.ask) \subseteq a.found[1].pods
            /\ a.found[1].pods \subseteq OwnedBy(Ever, inquiry.ask)
=============================================================================
