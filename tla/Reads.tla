--------------------------------- MODULE Reads ---------------------------------
(***************************************************************************)
(* List requests on their way through the resource backend                    *)
(* (collectFilteredResource): overlapping ones share a call of the coalescer,  *)
(* which goes through the collection cache and its reauthorization, the        *)
(* watch's snapshot, the request scheduler, the LIST itself and the fenced     *)
(* store of what it returned, racing with watch events, a change of           *)
(* generation, revoked permissions, callers that leave and other requests.     *)
(*                                                                          *)
(* The cluster's collection is a version number; a page is the version it     *)
(* was read at.  The operation of a call is named by its creator.             *)
(***************************************************************************)
EXTENDS Integers, FiniteSetsExt, Coalescer

CONSTANTS
    Visible, Prefetch,          \* callers by priority
    None,
    Minimum, Initial, Maximum,  \* SchedulerConfig
    MaxVersion,                 \* bound: changes of the cluster
    MaxGeneration,              \* bound: generations
    MaxUpsets                   \* bound: failures, revocations, expiries, disconnects

\* NewRequestSchedulerWithConfig brings its configuration into this order.
ASSUME ReadsAssumption ==
    /\ Callers = Visible \cup Prefetch
    /\ MaxGeneration \in Nat \ {0}
    /\ Keys = (1..MaxGeneration) \X {"visible", "speculative"}
    /\ Minimum \in Nat \ {0} /\ Maximum \in Nat /\ Initial \in Minimum..Maximum

VARIABLES
    cluster,     \* the collection's version in the cluster
    generation,  \* the selection's generation
    watch,       \* the collection's watch worker
    page,        \* CollectionCache.entries: the page of the one request asked
    fence,       \* CollectionCache.generation
    sched,       \* RequestScheduler: limit and pause
    allowed,     \* whether LIST is permitted
    op,          \* the operation of each call
    upsets

backendVars == <<cluster, generation, watch, page, fence, sched, allowed, op, upsets>>

readsVars == <<vars, backendVars>>

NoWorker == [gen |-> 0, version |-> 0, told |-> 0, pc |-> "off"]

NoOperation == [pc |-> "off", gen |-> 0, floor |-> 0, data |-> 0, token |-> FALSE,
                result |-> "none", permitted |-> FALSE]

Class(c) == IF c \in Visible THEN "visible" ELSE "speculative"

ReadsInit ==
    /\ Init
    /\ \A c \in Callers : call[c].key[2] = Class(c)
    /\ cluster = 1 /\ generation = 1 /\ allowed = TRUE /\ upsets = 0
    /\ watch = NoWorker
    /\ page = None
    /\ fence = 1
    /\ sched = [limit |-> Initial, paused |-> FALSE]
    /\ op = [c \in Callers |-> NoOperation]

Upset == upsets < MaxUpsets /\ upsets' = upsets + 1

Quiet == UNCHANGED upsets

\* An operation that has ended keeps what the properties speak of: the answer,
\* whether it is as fresh as was told, whether it was ever permitted.
Ended(o, result) ==
    [NoOperation EXCEPT !.pc = "done",
                        !.result = IF result = "served" THEN result ELSE "none",
                        !.floor = IF result = "served" /\ o.data < o.floor THEN o.floor ELSE 0,
                        !.permitted = result = "served" /\ o.permitted]

\* A step of a running operation that changes nothing else.
Step(c, pc, next) ==
    /\ op[c].pc = pc
    /\ op' = [op EXCEPT ![c] = next]
    /\ UNCHANGED <<vars, cluster, generation, watch, page, fence, sched, allowed>> /\ Quiet

-----------------------------------------------------------------------------
(* The collection cache *)

\* The cache's revision moves on.  Operations compare it with the one they saw:
\* it is modelled by whom it has fenced.
Fenced(ops) == [c \in Callers |-> [ops[c] EXCEPT !.token = FALSE]]

\* InvalidateCollection, also called by the watch's OnChange.
Invalidated(gen, ops) ==
    IF fence = gen THEN page' = None /\ op' = Fenced(ops)
    ELSE page' = page /\ op' = ops

\* LoadCollectionPage's test of an entry.
Usable(gen) == page # None /\ fence = gen /\ page.gen = gen

\* The page's freshness window ends, or enforceMemoryBudget drops it.
DropPage ==
    /\ page # None
    /\ page' = None
    /\ Upset
    /\ UNCHANGED <<vars, cluster, generation, watch, fence, sched, allowed, op>>

-----------------------------------------------------------------------------
(* Callers: RequestCoalescer.Do *)

\* collectionRequestKey: the binding, the request and its class.
RequestKey(c) == <<generation, Class(c)>>

Told == IF watch.gen = generation THEN watch.told ELSE 0

AskFirst(c) ==
    /\ call[c].key = RequestKey(c)
    /\ DoCreates(c)
    /\ op' = [op EXCEPT ![c] = [@ EXCEPT !.pc = "load", !.gen = generation, !.floor = Told,
                                         !.permitted = allowed]]
    /\ UNCHANGED <<cluster, generation, watch, page, fence, sched, allowed>> /\ Quiet

AskJoins(c) == DoJoins(c, RequestKey(c)) /\ UNCHANGED backendVars

AskRejected(c) == DoRejected(c) /\ UNCHANGED backendVars

\* The caller's context ends: it leaves, and the last to leave cancels the call.
Disconnect(c) == ContextDone(c) /\ Upset /\ UNCHANGED <<cluster, generation, watch, page, fence, sched, allowed, op>>

Goes(c) == (Leave(c) \/ Receive(c)) /\ UNCHANGED backendVars

Shutdown == Close /\ Upset /\ UNCHANGED <<cluster, generation, watch, page, fence, sched, allowed, op>>

-----------------------------------------------------------------------------
(* The operation *)

\* LoadCollectionPage: the entry is copied, and its revision.
Load(c) ==
    Step(c, "load", IF Usable(op[c].gen)
                    THEN [op[c] EXCEPT !.pc = "authorize", !.data = page.data, !.token = TRUE]
                    ELSE [op[c] EXCEPT !.pc = "begin"])

\* Every origin is reviewed again, outside the lock; a refusal drops the collection.
Reauthorize(c) ==
    /\ op[c].pc = "authorize"
    /\ IF allowed THEN op' = [op EXCEPT ![c].pc = "confirm"] /\ UNCHANGED page
       ELSE Invalidated(op[c].gen, [op EXCEPT ![c].pc = "begin"])
    /\ UNCHANGED <<vars, cluster, generation, watch, fence, sched, allowed>> /\ Quiet

\* WatchManager.Covers and SnapshotsFor: a connected worker of that generation.
Covered(gen) == watch.gen = gen /\ watch.pc \in {"live", "applied", "fenced"}

\* The operation returns: an answer, also an error, or the cancellation it saw.
Returns(c, next) ==
    /\ Run(c, IF next.result = "cancelled" THEN call[c].cause ELSE "value")
    /\ op' = [op EXCEPT ![c] = Ended(next, next.result)]

\* The page must still be there, under the same revision, and a watch must
\* keep it fresh.
Confirm(c) ==
    /\ op[c].pc = "confirm"
    /\ IF Usable(op[c].gen) /\ op[c].token /\ Covered(op[c].gen)
       THEN Returns(c, [op[c] EXCEPT !.result = "served"])
       ELSE op' = [op EXCEPT ![c].pc = "begin"] /\ UNCHANGED vars
    /\ UNCHANGED <<cluster, generation, watch, page, fence, sched, allowed>> /\ Quiet

\* CollectionCache.Begin: the fence of the store at the end.  Then
\* collectFromWatchSnapshots: what the worker holds, if LIST is still allowed.
Begin(c) ==
    Step(c, "begin",
         IF fence # op[c].gen THEN [op[c] EXCEPT !.pc = "acquire", !.token = FALSE]
         ELSE IF Covered(op[c].gen) /\ allowed
         THEN [op[c] EXCEPT !.pc = "store", !.token = TRUE, !.data = watch.version, !.result = "served"]
         ELSE [op[c] EXCEPT !.pc = "acquire", !.token = TRUE])

-----------------------------------------------------------------------------
(* RequestScheduler *)

Active == {c \in Callers : op[c].pc = "reading"}

Queued == {c \in Callers : op[c].pc = "queued"}

\* prefetchDeferredLocked: speculative work leaves slots to visible work.
Deferred ==
    \/ sched.limit <= 1
    \/ Queued # {}
    \/ Cardinality(Active) >= sched.limit - Min({2, sched.limit - 1})
    \/ sched.paused

Acquire(c) ==
    LET free == Cardinality(Active) < sched.limit IN
    /\ op[c].pc = "acquire"
    /\ IF c \in Prefetch /\ (Deferred \/ ~free)
       THEN Returns(c, [op[c] EXCEPT !.result = "deferred"])
       ELSE op' = [op EXCEPT ![c].pc = IF free THEN "reading" ELSE "queued"] /\ UNCHANGED vars
    /\ UNCHANGED <<cluster, generation, watch, page, fence, sched, allowed>> /\ Quiet

\* The call is cancelled while it waits for a slot.
Abandon(c) ==
    /\ op[c].pc \in {"queued", "acquire"} /\ call[c].cause # "none"
    /\ Returns(c, [op[c] EXCEPT !.result = "cancelled"])
    /\ UNCHANGED <<cluster, generation, watch, page, fence, sched, allowed>> /\ Quiet

\* The changed channel is closed and replaced: every waiter tries again.
Signalled(ops) ==
    [c \in Callers |-> IF ops[c].pc = "queued" THEN [ops[c] EXCEPT !.pc = "acquire"] ELSE ops[c]]

\* Observe: additive increase, or multiplicative decrease and a pause for
\* prefetch.
Observed(result) ==
    IF result = "failed" THEN [limit |-> Max({Minimum, sched.limit \div 2}), paused |-> TRUE]
    ELSE [sched EXCEPT !.limit = Min({Maximum, @ + 1})]

\* The slot is returned without a signal.
ReleaseSilent(c, next) ==
    /\ op' = [op EXCEPT ![c] = [next EXCEPT !.pc = "store"]]
    /\ sched' = Observed(next.result)

\* Observe and release: active--, and the waiters are signalled.
Release(c, next) ==
    /\ op' = Signalled([op EXCEPT ![c] = [next EXCEPT !.pc = "store"]])
    /\ sched' = Observed(next.result)

\* collectResource: the LIST, which Kubernetes authorizes itself.
Read(c) ==
    /\ op[c].pc = "reading"
    /\ Release(c, IF allowed THEN [op[c] EXCEPT !.result = "served", !.data = cluster]
                  ELSE [op[c] EXCEPT !.result = "forbidden"])
    /\ UNCHANGED <<vars, cluster, generation, watch, page, fence, allowed>> /\ Quiet

\* It is cancelled with its call ...
ReadCancelled(c) ==
    /\ op[c].pc = "reading" /\ call[c].cause # "none"
    /\ Release(c, [op[c] EXCEPT !.result = "cancelled"])
    /\ UNCHANGED <<vars, cluster, generation, watch, page, fence, allowed>> /\ Quiet

\* ... or throttled or timed out, after retryListPage's attempts.
ReadFails(c) ==
    /\ op[c].pc = "reading" /\ Upset
    /\ Release(c, [op[c] EXCEPT !.result = "failed"])
    /\ UNCHANGED <<vars, cluster, generation, watch, page, fence, allowed>>

PauseEnds ==
    /\ sched.paused
    /\ sched' = [sched EXCEPT !.paused = FALSE]
    /\ UNCHANGED <<vars, cluster, generation, watch, page, fence, allowed, op>> /\ Quiet

-----------------------------------------------------------------------------

Kept(c) == [gen |-> op[c].gen, data |-> op[c].data]

\* StoreCollectionPage whatever happened since Begin.
StoreUnfenced(c) ==
    /\ op[c].pc = "store"
    /\ page' = IF op[c].result = "served" /\ fence = op[c].gen THEN Kept(c) ELSE page
    /\ Returns(c, op[c])
    /\ UNCHANGED <<cluster, generation, watch, fence, sched, allowed>> /\ Quiet

\* StoreCollectionPage, fenced by Begin's token.
Store(c) ==
    /\ op[c].pc = "store" /\ op[c].result # "forbidden"
    /\ page' = IF op[c].result = "served" /\ op[c].token THEN Kept(c) ELSE page
    /\ Returns(c, op[c])
    /\ UNCHANGED <<cluster, generation, watch, fence, sched, allowed>> /\ Quiet

\* A refused LIST drops the collection.
StoreForbidden(c) ==
    /\ op[c].pc = "store" /\ op[c].result = "forbidden"
    /\ Invalidated(op[c].gen, [op EXCEPT ![c] = Ended(@, "forbidden")])
    /\ Run(c, "value")
    /\ UNCHANGED <<cluster, generation, watch, fence, sched, allowed>> /\ Quiet

Operate(c) ==
    \/ Load(c) \/ Reauthorize(c) \/ Confirm(c) \/ Begin(c)
    \/ Acquire(c) \/ Abandon(c) \/ Read(c) \/ ReadCancelled(c)
    \/ Store(c) \/ StoreForbidden(c)

-----------------------------------------------------------------------------
(* The watch, the selection and the cluster *)

\* The worker's LIST is installed; its WATCH connects from there.
WorkerStarts ==
    /\ watch.pc = "off" /\ allowed
    /\ watch' = [gen |-> generation, version |-> cluster, told |-> 0, pc |-> "applied"]
    /\ UNCHANGED <<vars, cluster, generation, page, fence, sched, allowed, op>> /\ Quiet

\* updateSnapshot with the next event.
WorkerApplies ==
    /\ watch.pc = "live" /\ watch.version < cluster
    /\ watch' = [watch EXCEPT !.version = @ + 1, !.pc = "applied"]
    /\ UNCHANGED <<vars, cluster, generation, page, fence, sched, allowed, op>> /\ Quiet

\* OnChange drops the collection's page, before the subscribers are told.
WorkerInvalidates ==
    /\ watch.pc = "applied"
    /\ Invalidated(watch.gen, op)
    /\ watch' = [watch EXCEPT !.pc = "fenced"]
    /\ UNCHANGED <<vars, cluster, generation, fence, sched, allowed>> /\ Quiet

WorkerBroadcasts ==
    /\ watch.pc = "fenced"
    /\ watch' = [watch EXCEPT !.told = watch.version, !.pc = "live"]
    /\ UNCHANGED <<vars, cluster, generation, page, fence, sched, allowed, op>> /\ Quiet

\* The worker disconnects or is evicted; another one lists afresh.
WorkerStops ==
    /\ watch.pc = "live" /\ Upset
    /\ watch' = [watch EXCEPT !.pc = "off"]
    /\ UNCHANGED <<vars, cluster, generation, page, fence, sched, allowed, op>>

\* The selection moves to another generation ...
Rotate ==
    /\ generation < MaxGeneration /\ Upset
    /\ generation' = generation + 1
    /\ UNCHANGED <<vars, cluster, watch, page, fence, sched, allowed, op>>

\* ... and tells the backend: SwitchGeneration, then CancelGeneration.
SwitchGeneration ==
    /\ fence # generation
    /\ fence' = generation
    /\ page' = None
    /\ op' = Fenced(op)
    /\ UNCHANGED <<vars, cluster, generation, watch, sched, allowed>> /\ Quiet

CancelGeneration ==
    /\ fence = generation /\ watch.gen \notin {0, generation}
    /\ watch' = NoWorker
    /\ UNCHANGED <<vars, cluster, generation, page, fence, sched, allowed, op>> /\ Quiet

Change ==
    /\ cluster < MaxVersion /\ Upset
    /\ cluster' = cluster + 1
    /\ UNCHANGED <<vars, generation, watch, page, fence, sched, allowed, op>>

\* A Role binding goes, or returns.
Permit ==
    /\ Upset
    /\ allowed' = ~allowed
    /\ op' = [c \in Callers |-> [op[c] EXCEPT !.permitted = @ \/ (~allowed /\ op[c].pc \notin {"off", "done"})]]
    /\ UNCHANGED <<vars, cluster, generation, watch, page, fence, sched>>

ReadsNext ==
    \/ \E c \in Callers : AskFirst(c) \/ AskJoins(c) \/ AskRejected(c) \/ Disconnect(c) \/ Goes(c)
    \/ \E c \in Callers : Operate(c)
    \/ \E c \in Callers : ReadFails(c)
    \/ DropPage \/ PauseEnds \/ Shutdown
    \/ WorkerStarts \/ WorkerApplies \/ WorkerInvalidates \/ WorkerBroadcasts \/ WorkerStops
    \/ Rotate \/ SwitchGeneration \/ CancelGeneration \/ Change \/ Permit

ReadsSpec == ReadsInit /\ [][ReadsNext]_readsVars

-----------------------------------------------------------------------------
(* Properties *)

\* A client that was told of a change reads nothing older: what the call it
\* starts returns was read at, or after, the last version the watch had
\* broadcast when it asked, from the cache, the snapshot or the cluster.
ReadsWhatItWasTold ==
    \A c \in Callers : op[c].pc = "done" /\ op[c].result = "served" => op[c].data >= op[c].floor

\* What is served was permitted: between the request and its answer there was
\* a moment at which LIST was allowed.
ServedWasPermitted ==
    \A c \in Callers : op[c].pc = "done" /\ op[c].result = "served" => op[c].permitted

\* What is served is neither older than what its reader was told of nor
\* something it was never allowed to list.
ServedSound == ReadsWhatItWasTold /\ ServedWasPermitted

\* No waiter is forgotten: while an operation waits for a slot, another holds
\* one and will signal when it is returned.
WaitersHaveSignal == Queued # {} => Active # {}
=============================================================================
