-------------------------------- MODULE Watch --------------------------------
(***************************************************************************)
(* internal/services/resources/watch.go for one watch key: the manager's    *)
(* map entry, the worker goroutine that lists and watches (run, relist,     *)
(* tryInitialWatch), the bounded queues of its subscribers, the idle timer, *)
(* the eviction and flush of idle workers, and the end of the generation;   *)
(* with the port of resources_watch_adapter.go below it and the snapshot    *)
(* cache as a FencedCell.                                                   *)
(*                                                                          *)
(* A step is what happens under manager.mu, one call of the cache, or one   *)
(* answer of the cluster.  A broadcast and its pushes are one step: a       *)
(* subscriber that joins between the copy of the set and the pushes already *)
(* holds the snapshot the event was folded into.  worker.initial is always  *)
(* nil or the events of worker.snapshot, so it is not a variable.           *)
(*                                                                          *)
(* Sizes are abstracted: whether bytes fit a budget is a free choice, a     *)
(* snapshot event carries one object, and BigObjects are those that fit a   *)
(* delta and a later chunk but not the first one.                           *)
(***************************************************************************)
EXTENDS FencedCell, Integers, Sequences, SequencesExt, FiniteSetsExt

CONSTANTS
    Objects,      \* names of the watched collection, a set of numbers
    BigObjects,
    Workers,      \* incarnations of the key's worker
    Readers,      \* subscriptions
    QueueEvents,  \* MaximumStreamQueueEvents
    MaxRV,        \* bound: versions the cluster goes through
    MaxUpsets     \* bound: failures, compactions, leaves, evictions and ends together

None == Empty

\* An object's content is the version that last wrote it, 0 when it is absent.
Items    == [Objects -> 0..MaxRV]
Snapshot == [rv : 1..MaxRV, items : Items]

ASSUME WatchAssumption ==
    /\ IsFiniteSet(Objects) /\ Objects \subseteq Nat /\ BigObjects \subseteq Objects
    /\ MaxRV \in Nat \ {0} /\ QueueEvents \in Nat \ {0} /\ MaxUpsets \in Nat
    /\ Data = Snapshot
    /\ None \notin Workers \cup Snapshot \cup Held

VARIABLES
    cluster,      \* external: the collection at each resource version
    compacted,    \* external: watches from below this version are expired
    current,      \* manager.workers[identity]
    closed,       \* manager.closed
    unsupported,  \* manager.streamingUnsupported
    worker,       \* the workers
    subs,          \* the subscriptions
    upsets

managerVars == <<current, closed, unsupported>>
watchVars == <<cellVars, managerVars, cluster, compacted, worker, subs, upsets>>

Present(items) == {o \in Objects : items[o] # 0}
Nothing  == [o \in Objects |-> 0]
Listed   == [rv |-> Len(cluster), items |-> Last(cluster)]

-----------------------------------------------------------------------------
(* Events and queues *)

Delta(o, version, rv) == [kind |-> "delta", object |-> o, version |-> version, rv |-> rv]
Signal(kind) == [kind |-> kind]

StreamEvent ==
    [kind : {"delta"}, object : Objects, version : 0..MaxRV, rv : 1..MaxRV]
      \cup [kind : {"snapshot"}, chunk : Nat, items : Items]
      \cup [kind : {"progress", "refreshed", "reset", "error"}]

\* The place of an object in the list.
Place(o, items) == Cardinality({p \in Present(items) : p <= o})

\* The chunks of a snapshot: one object each, and one empty chunk for none.
SnapshotEvents(snap) ==
    LET Chunk(i) == [o \in Objects |-> IF Place(o, snap.items) = i THEN snap.items[o] ELSE 0]
    IN  [i \in 1..Max({1, Cardinality(Present(snap.items))}) |->
            [kind |-> "snapshot", chunk |-> i - 1, items |-> Chunk(i)]]

SnapshotEventsFit(snap) ==
    BigObjects \cap Present(snap.items) # {} =>
        Min(Present(snap.items)) < Min(BigObjects \cap Present(snap.items))

\* What a reader knows after an event: chunk 0 starts over.
Apply(view, event) ==
    CASE event.kind = "snapshot" ->
            IF event.chunk = 0 THEN event.items
            ELSE [o \in Objects |-> IF event.items[o] # 0 THEN event.items[o] ELSE view[o]]
      [] event.kind = "delta" -> [view EXCEPT ![event.object] = event.version]
      [] OTHER -> view

\* The object an event is about: its kind, namespace and name.
Identity(event) == event.object

SameObject(a, b) == a.kind = "delta" /\ b.kind = "delta" /\ Identity(a) = Identity(b)

\* The newest undelivered delta of the event's object, unless a snapshot came
\* after it: the queue is searched from its end.
Coalesced(queue, event) ==
    {i \in DOMAIN queue :
        /\ SameObject(queue[i], event)
        /\ \A j \in (i + 1)..Len(queue) : ~ SameObject(queue[j], event) /\ queue[j].kind # "snapshot"}

\* Subscription.push: that delta is replaced, else the event is appended, else
\* the reader is too slow.
PushFits(queue, event) == Coalesced(queue, event) # {} \/ Len(queue) < QueueEvents
Push(queue, event) ==
    IF Coalesced(queue, event) # {}
    THEN [i \in DOMAIN queue |-> IF i \in Coalesced(queue, event) THEN event ELSE queue[i]]
    ELSE Append(queue, event)

\* forceTerminal: the reset is all the reader still gets.
Terminated(r) ==
    [r EXCEPT !.queue = <<Signal("reset")>>, !.closed = TRUE, !.of = None, !.view = Nothing]

\* Subscription.Close; what the reader knew and may still drain no longer
\* matters.
Closed(r) == [r EXCEPT !.closed = TRUE, !.of = None, !.view = Nothing, !.queue = <<>>]

\* A full queue drops the event.
PushedOrDropped(r, event) ==
    IF PushFits(r.queue, event) THEN [r EXCEPT !.queue = Push(@, event)] ELSE r

Pushed(r, event) ==
    IF PushFits(r.queue, event) THEN [r EXCEPT !.queue = Push(@, event)] ELSE Terminated(r)

\* Subscribe pushes the chunks one by one and stops at the first that fails.
\* The queue is new and a chunk is never coalesced: all of them are appended,
\* or one finds it full.
PushedAll(r, events) ==
    IF Len(events) <= QueueEvents THEN [r EXCEPT !.queue = events] ELSE Terminated(r)

SubscribersOf(w, all) == {s \in Readers : all[s].of = w}

Broadcast(w, event) ==
    [s \in Readers |-> IF subs[s].of = w THEN Pushed(subs[s], event) ELSE subs[s]]

\* broadcast refuses only when nobody listens and the worker is stopping.
Refused(w) == SubscribersOf(w, subs) = {} /\ worker[w].stopping

-----------------------------------------------------------------------------
Worker ==
    [pc : {"none", "initial", "list", "listing", "commit", "install", "send", "connect",
           "stream", "notify", "expired", "forbidden", "fail", "finish", "closing", "done"},
     way : {"list", "initial"}, previewed : BOOLEAN,
     rv : 0..MaxRV, snap : Snapshot \cup {None}, got : Snapshot \cup {None},
     connected : BOOLEAN, fresh : BOOLEAN, stopping : BOOLEAN, cancelled : BOOLEAN,
     cached : BOOLEAN, token : Nat, out : Seq(StreamEvent),
     timer : BOOLEAN, fired : BOOLEAN, ending : BOOLEAN, refused : BOOLEAN,
     flush : {"no", "copy", "begin", "commit"}, evicted : BOOLEAN,
     flushed : Snapshot \cup {None}, flushToken : Nat, flushConnected : BOOLEAN]

\* run starts at once: a fresh cached snapshot is watched from its version,
\* without a list; without a snapshot streaming lists are tried first.
NewWorker(snap, fresh) ==
    [pc |-> IF snap = None THEN (IF unsupported THEN "list" ELSE "initial")
            ELSE IF fresh THEN "connect" ELSE "list",
     way |-> "list", previewed |-> FALSE,
     rv |-> IF snap = None THEN 0 ELSE snap.rv, snap |-> snap, got |-> None,
     connected |-> FALSE, fresh |-> fresh, stopping |-> FALSE, cancelled |-> FALSE,
     cached |-> TRUE, token |-> 0, out |-> <<>>,
     timer |-> FALSE, fired |-> FALSE, ending |-> FALSE, refused |-> FALSE,
     flush |-> "no", evicted |-> FALSE, flushed |-> None, flushToken |-> 0,
     flushConnected |-> FALSE]

\* What is left of a worker whose goroutine has ended: callbacks that started.
Ended(r) ==
    [NewWorker(None, FALSE) EXCEPT
        !.pc = "done", !.stopping = TRUE, !.cancelled = TRUE, !.cached = FALSE,
        !.snap = IF r.flush = "copy" THEN r.snap ELSE None, !.fired = r.fired,
        !.ending = r.ending, !.flush = r.flush, !.evicted = r.evicted, !.flushed = r.flushed,
        !.flushToken = r.flushToken, !.flushConnected = r.flushConnected]

NoWorker == [NewWorker(None, FALSE) EXCEPT !.pc = "none", !.cached = FALSE]

Reader == [of : Workers \cup {None}, closed : BOOLEAN, used : BOOLEAN, view : Items,
           queue : Seq(StreamEvent)]
NewReader == [of |-> None, closed |-> FALSE, used |-> FALSE, view |-> Nothing, queue |-> <<>>]

WatchInit ==
    /\ CellInit
    /\ cluster \in {<<[o \in Objects |-> IF o \in there THEN 1 ELSE 0]>> :
                    there \in SUBSET (Objects \ BigObjects)}
    /\ compacted = 1
    /\ current = None /\ closed = FALSE /\ unsupported \in BOOLEAN
    /\ worker = [w \in Workers |-> NoWorker]
    /\ subs = [s \in Readers |-> NewReader]
    /\ upsets = 0

\* snapshotReady
Ready(w) == worker[w].snap # None

\* remove, once the subscriptions are `now`: the last one to leave arms the idle
\* timer, or has the snapshot flushed when the worker has left the map.
AfterRemovalUnarmed(w, r, now) ==
    IF SubscribersOf(w, subs) = {} \/ SubscribersOf(w, now) # {} \/ current = w THEN r
    ELSE [r EXCEPT !.stopping = TRUE, !.flush = IF @ = "no" THEN "copy" ELSE @]

AfterRemoval(w, r, now) ==
    IF SubscribersOf(w, subs) = {} \/ SubscribersOf(w, now) # {} \/ r.timer THEN r
    ELSE IF current = w THEN [r EXCEPT !.timer = TRUE]
    ELSE [r EXCEPT !.stopping = TRUE, !.flush = IF @ = "no" THEN "copy" ELSE @]

\* A worker step that broadcasts the event and then updates the worker to r.
Tell(w, event, r) ==
    /\ subs' = Broadcast(w, event)
    /\ worker' = [worker EXCEPT ![w] = AfterRemoval(w, r, subs')]

Move(w, r) == worker' = [worker EXCEPT ![w] = r]
At(w, pc) == worker[w].pc = pc
Goto(w, pc) == [worker[w] EXCEPT !.pc = pc]

Upset == upsets < MaxUpsets /\ upsets' = upsets + 1

\* MarkStale tests the subscription's closed flag and the generation.
MarkedStale(w) ==
    IF worker[w].cached /\ ~ dead /\ held # None THEN [held EXCEPT !.fresh = FALSE] ELSE held

-----------------------------------------------------------------------------
(* The cluster (external) *)

Write ==
    /\ Len(cluster) < MaxRV
    /\ \E o \in Objects, gone \in BOOLEAN :
        /\ gone => Last(cluster)[o] # 0
        /\ cluster' = Append(cluster, [Last(cluster) EXCEPT ![o] =
                                          IF gone THEN 0 ELSE Len(cluster) + 1])
    /\ UNCHANGED <<cellVars, managerVars, compacted, worker, subs, upsets>>

\* A version that writes another collection.
WriteElsewhere ==
    /\ Len(cluster) < MaxRV
    /\ cluster' = Append(cluster, Last(cluster))
    /\ UNCHANGED <<cellVars, managerVars, compacted, worker, subs, upsets>>

Compact ==
    /\ Upset
    /\ compacted < Len(cluster)
    /\ compacted' = Len(cluster)
    /\ UNCHANGED <<cellVars, managerVars, cluster, worker, subs>>

-----------------------------------------------------------------------------
(* Subscribe and leave *)

Joined(s, w) == [subs[s] EXCEPT !.of = w, !.used = TRUE]

\* No worker: one is created on the cached snapshot, if there is one; when
\* the first subscriber cannot take it the worker is finished before it ran.
SubscribeNew(s, w) ==
    LET snap == IF held # None /\ SnapshotEventsFit(held.data) THEN held.data ELSE None
        r    == NewWorker(snap, snap # None /\ held.fresh)
        told == PushedAll(Joined(s, w), IF snap = None THEN <<>> ELSE SnapshotEvents(snap))
    IN
    /\ ~ subs[s].used /\ worker[w].pc = "none"
    /\ ~ closed /\ current = None /\ ~ dead
    /\ subs' = [subs EXCEPT ![s] = told]
    /\ IF told.closed
       THEN Move(w, Ended(r)) /\ UNCHANGED current
       ELSE Move(w, r) /\ current' = w
    /\ IF held # None /\ snap = None THEN Void ELSE UNCHANGED cellVars
    /\ UNCHANGED <<closed, unsupported, cluster, compacted, upsets>>

\* The worker's snapshot no longer splits into events: the call fails after it
\* has stopped the idle timer.
SubscribeTooBig(s, w) ==
    /\ ~ subs[s].used
    /\ ~ closed /\ current = w
    /\ Ready(w) /\ ~ SnapshotEventsFit(worker[w].snap)
    /\ subs' = [subs EXCEPT ![s].used = TRUE]
    /\ Move(w, [worker[w] EXCEPT !.timer = FALSE, !.refused = TRUE])
    /\ UNCHANGED <<cellVars, managerVars, cluster, compacted, upsets>>

\* A worker exists: its snapshot comes first.
SubscribeShared(s, w) ==
    LET told == PushedAll(Joined(s, w), IF Ready(w) THEN SnapshotEvents(worker[w].snap) ELSE <<>>)
        r    == [worker[w] EXCEPT !.timer = FALSE]
    IN
    /\ ~ subs[s].used
    /\ ~ closed /\ current = w
    /\ Ready(w) => SnapshotEventsFit(worker[w].snap)
    /\ subs' = [subs EXCEPT ![s] = told]
    /\ Move(w, IF told.closed /\ SubscribersOf(w, subs) = {} THEN [r EXCEPT !.timer = TRUE] ELSE r)
    /\ UNCHANGED <<cellVars, managerVars, cluster, compacted, upsets>>

\* Next
Deliver(s) ==
    /\ subs[s].of # None
    /\ subs[s].queue # <<>>
    /\ subs' = [subs EXCEPT ![s].view = Apply(@, Head(subs[s].queue)), ![s].queue = Tail(@)]
    /\ UNCHANGED <<cellVars, managerVars, cluster, compacted, worker, upsets>>

\* The reader's context ends, or it closes: Subscription.Close and remove.
Leave(s) ==
    /\ Upset
    /\ subs[s].of # None
    /\ subs' = [subs EXCEPT ![s] = Closed(@)]
    /\ Move(subs[s].of, AfterRemoval(subs[s].of, worker[subs[s].of], subs'))
    /\ UNCHANGED <<cellVars, managerVars, cluster, compacted>>

-----------------------------------------------------------------------------
(* The worker goroutine: run *)

\* tryInitialWatch: the initial events end with a bookmark; the refresh of the
\* cache begins only then, and its failure is tolerated.
InitialSync(w) ==
    /\ At(w, "initial")
    /\ ~ worker[w].cancelled
    /\ SnapshotEventsFit(Listed)
    /\ Move(w, [Goto(w, "commit") EXCEPT !.way = "initial", !.got = Listed,
                                         !.token = IF dead THEN 0 ELSE begun + 1])
    /\ IF dead THEN UNCHANGED cellVars ELSE Begin
    /\ UNCHANGED <<managerVars, cluster, compacted, subs, upsets>>

\* A timeout, an error, a closed channel, a cancelled worker or a snapshot over
\* a limit: the worker falls back to LIST.
InitialFails(w) ==
    /\ At(w, "initial")
    /\ \/ Upset
       \/ (worker[w].cancelled \/ ~ SnapshotEventsFit(Listed)) /\ UNCHANGED upsets
    /\ Move(w, Goto(w, "list"))
    /\ UNCHANGED <<cellVars, managerVars, cluster, compacted, subs>>

\* markInitialUnsupported
InitialUnsupported(w) ==
    /\ At(w, "initial")
    /\ Upset
    /\ unsupported' = TRUE
    /\ Move(w, Goto(w, "list"))
    /\ UNCHANGED <<cellVars, current, closed, cluster, compacted, subs>>

\* relist
ListBegin(w) ==
    /\ At(w, "list")
    /\ IF worker[w].cached /\ ~ dead
       THEN /\ Begin
            /\ Move(w, [Goto(w, "listing") EXCEPT !.token = begun + 1])
       ELSE Move(w, Goto(w, "fail")) /\ UNCHANGED cellVars
    /\ UNCHANGED <<managerVars, cluster, compacted, subs, upsets>>

\* ListProgress hands out a preview; the callback may say nobody is there.
Preview(w) ==
    /\ At(w, "listing")
    /\ ~ worker[w].previewed
    /\ Present(Listed.items) # {}
    /\ IF Refused(w) THEN Move(w, [Goto(w, "fail") EXCEPT !.token = 0]) /\ UNCHANGED subs
       ELSE Tell(w, Signal("progress"), [worker[w] EXCEPT !.previewed = TRUE])
    /\ UNCHANGED <<cellVars, managerVars, cluster, compacted, upsets>>

ListAnswers(w) ==
    /\ At(w, "listing")
    /\ worker[w].previewed \/ Present(Listed.items) = {}
    /\ ~ worker[w].cancelled
    /\ Move(w, IF SnapshotEventsFit(Listed) THEN [Goto(w, "commit") EXCEPT !.got = Listed, !.previewed = FALSE]
               ELSE [Goto(w, "fail") EXCEPT !.token = 0])
    /\ UNCHANGED <<cellVars, managerVars, cluster, compacted, subs, upsets>>

ListFails(w) ==
    /\ At(w, "listing")
    /\ \/ Upset /\ \E denied \in BOOLEAN :
                      Move(w, [Goto(w, IF denied THEN "forbidden" ELSE "fail") EXCEPT !.token = 0])
       \/ /\ worker[w].cancelled /\ UNCHANGED upsets
          /\ Move(w, [Goto(w, "fail") EXCEPT !.token = 0])
    /\ UNCHANGED <<cellVars, managerVars, cluster, compacted, subs>>

\* Commit: stored, fenced, or refused by the cache's budget.
TokenFenced(w) == ~ worker[w].cached \/ dead \/ worker[w].token # begun

CommitSnapshot(w) ==
    LET r == [worker[w] EXCEPT !.token = 0] IN
    /\ At(w, "commit")
    /\ \/ /\ ~ TokenFenced(w)
          /\ Install(worker[w].token, worker[w].got)
          /\ Move(w, [r EXCEPT !.pc = "install"])
          /\ UNCHANGED upsets
       \/ /\ TokenFenced(w)
          /\ Move(w, [r EXCEPT !.pc = IF r.way = "list" THEN "fail" ELSE "install"])
          /\ UNCHANGED <<cellVars, upsets>>
       \/ /\ ~ TokenFenced(w) /\ Upset
          /\ Move(w, [r EXCEPT !.pc = "install"])
          /\ IF r.way = "list" THEN Void ELSE UNCHANGED cellVars
    /\ UNCHANGED <<managerVars, cluster, compacted, subs>>

\* installSnapshotLocked, and the events it leaves to send.
InstallSnapshot(w) ==
    LET r == worker[w]
        failed == IF r.way = "list" THEN "fail" ELSE "list"
    IN
    /\ At(w, "install")
    /\ \/ /\ ~ r.stopping /\ ~ closed /\ ~ r.cancelled /\ UNCHANGED upsets
          /\ Move(w, [r EXCEPT !.pc = "send", !.snap = r.got, !.got = None,
                               !.out = SnapshotEvents(r.got)])
       \/ /\ (r.stopping \/ closed \/ r.cancelled) /\ UNCHANGED upsets
          /\ Move(w, [r EXCEPT !.pc = failed, !.got = None, !.way = "list"])
       \/ /\ Upset
          /\ Move(w, [r EXCEPT !.pc = failed, !.got = None, !.way = "list"])
    /\ UNCHANGED <<cellVars, managerVars, cluster, compacted, subs>>

SendSnapshot(w) ==
    LET r == worker[w]
        last == Len(r.out) = 1
        sent == [r EXCEPT !.out = Tail(@), !.way = IF last THEN "list" ELSE @,
                          !.rv = IF last THEN r.snap.rv ELSE @,
                          !.connected = IF last /\ r.way = "initial" THEN TRUE ELSE @,
                          !.pc = IF ~ last THEN "send"
                                 ELSE IF r.way = "list" THEN "connect" ELSE "stream"]
    IN
    /\ At(w, "send")
    /\ IF Refused(w)
       THEN /\ Move(w, [r EXCEPT !.out = <<>>, !.way = "list",
                               !.pc = IF r.way = "list" THEN "fail" ELSE "list"])
            /\ UNCHANGED subs
       ELSE Tell(w, Head(r.out), sent)
    /\ UNCHANGED <<cellVars, managerVars, cluster, compacted, upsets>>

-----------------------------------------------------------------------------
(* The worker goroutine: connect and stream *)

\* Any other failure waits for the backoff and tries again.
Connect(w) ==
    /\ At(w, "connect")
    /\ \/ /\ worker[w].rv >= compacted /\ ~ worker[w].cancelled
          /\ Move(w, [Goto(w, "stream") EXCEPT !.connected = TRUE])
          /\ UNCHANGED upsets
       \/ /\ worker[w].rv < compacted /\ ~ worker[w].cancelled
          /\ Move(w, Goto(w, "expired"))
          /\ UNCHANGED upsets
       \/ /\ Upset
          /\ Move(w, Goto(w, "forbidden"))
       \/ /\ worker[w].cancelled
          /\ Move(w, Goto(w, "finish"))
          /\ UNCHANGED upsets
    /\ UNCHANGED <<cellVars, managerVars, cluster, compacted, subs>>

\* setConnected(false): stale unless the worker stops on purpose.
Disconnected(w, pc) ==
    /\ Move(w, [Goto(w, pc) EXCEPT !.connected = FALSE])
    /\ held' = IF worker[w].stopping THEN held ELSE MarkedStale(w)
    /\ UNCHANGED <<begun, dead>>

StreamEnds(w) ==
    /\ At(w, "stream")
    /\ \/ worker[w].cancelled /\ Disconnected(w, "finish") /\ UNCHANGED upsets
       \/ Upset /\ Disconnected(w, "connect")
       \/ worker[w].rv < compacted /\ Disconnected(w, "expired") /\ UNCHANGED upsets
       \/ Upset /\ \E pc \in {"forbidden", "fail"} : Disconnected(w, pc)
    /\ UNCHANGED <<managerVars, cluster, compacted, subs>>

\* The version expired: forget, tell the readers, list again.
RelistExpired(w) ==
    /\ At(w, "expired")
    /\ Void
    /\ Tell(w, Signal("refreshed"), Goto(w, "list"))
    /\ UNCHANGED <<managerVars, cluster, compacted, upsets>>

\* Access was refused: forget, then fail.
Denied(w) ==
    /\ At(w, "forbidden")
    /\ Void
    /\ Move(w, Goto(w, "fail"))
    /\ UNCHANGED <<managerVars, cluster, compacted, subs, upsets>>

\* The next version did not change this collection.
Bookmark(w) ==
    LET r == worker[w] IN
    /\ At(w, "stream")
    /\ r.rv < Len(cluster) /\ cluster[r.rv + 1] = cluster[r.rv]
    /\ Move(w, [r EXCEPT !.rv = @ + 1,
                         !.snap = IF Ready(w) THEN [@ EXCEPT !.rv = r.rv + 1] ELSE @])
    /\ UNCHANGED <<cellVars, managerVars, cluster, compacted, subs, upsets>>

Changed(w) == {o \in Objects : cluster[worker[w].rv + 1][o] # cluster[worker[w].rv][o]}
NextDelta(w) ==
    LET o == CHOOSE o \in Changed(w) : TRUE
    IN  Delta(o, cluster[worker[w].rv + 1][o], worker[w].rv + 1)

HasDelta(w) ==
    /\ At(w, "stream")
    /\ worker[w].rv < Len(cluster)
    /\ Changed(w) # {}

\* The delta goes to the readers before it is in the snapshot.
ReceiveDeltaLate(w) ==
    LET r == worker[w]
        e == NextDelta(w)
    IN
    /\ HasDelta(w)
    /\ IF r.out = <<>>
       THEN Tell(w, e, [r EXCEPT !.out = <<e>>])
       ELSE /\ Move(w, [r EXCEPT !.rv = e.rv, !.out = <<>>,
                                 !.snap = [rv |-> e.rv, items |-> Apply(@.items, e)]])
            /\ UNCHANGED subs
    /\ UNCHANGED <<cellVars, managerVars, cluster, compacted, upsets>>

\* updateSnapshot folds the delta into the snapshot first; `notify` then tells
\* the readers.
ReceiveDelta(w) ==
    LET r == worker[w]
        e == NextDelta(w)
    IN
    /\ HasDelta(w)
    /\ Move(w, IF r.stopping THEN [Goto(w, "finish") EXCEPT !.connected = FALSE, !.rv = e.rv]
               ELSE [r EXCEPT !.pc = "notify", !.rv = e.rv, !.out = <<e>>,
                              !.snap = [rv |-> e.rv, items |-> Apply(@.items, e)]])
    /\ UNCHANGED <<cellVars, managerVars, cluster, compacted, subs, upsets>>

\* The delta is too large for an event: the readers are reset.
DeltaTooLarge(w) ==
    /\ HasDelta(w)
    /\ Upset
    /\ Tell(w, Signal("reset"), [Goto(w, "finish") EXCEPT !.connected = FALSE])
    /\ held' = IF worker[w].stopping THEN held ELSE MarkedStale(w)
    /\ UNCHANGED <<begun, dead, managerVars, cluster, compacted>>

\* The snapshot grew over a limit: it is dropped under the lock, then the cache
\* is invalidated and the readers are reset.
SnapshotOutgrown(w) ==
    /\ HasDelta(w)
    /\ ~ worker[w].stopping
    /\ Upset
    /\ Void
    /\ Tell(w, Signal("reset"), [Goto(w, "finish") EXCEPT !.connected = FALSE, !.snap = None,
                                    !.stopping = TRUE, !.rv = worker[w].rv + 1])
    /\ UNCHANGED <<managerVars, cluster, compacted>>

Notify(w) ==
    /\ At(w, "notify")
    /\ held' = MarkedStale(w)
    /\ IF Refused(w)
       THEN Move(w, [Goto(w, "finish") EXCEPT !.connected = FALSE, !.out = <<>>]) /\ UNCHANGED subs
       ELSE Tell(w, Head(worker[w].out), [Goto(w, "stream") EXCEPT !.out = <<>>])
    /\ UNCHANGED <<begun, dead, managerVars, cluster, compacted, upsets>>

Fail(w) ==
    /\ At(w, "fail")
    /\ Tell(w, Signal("error"), Goto(w, "finish"))
    /\ UNCHANGED <<cellVars, managerVars, cluster, compacted, upsets>>

\* finish leaves the map and takes the subscribers under the lock, then closes
\* the cache subscription and after it the readers, whose removal would
\* otherwise flush once more.
Finish(w) ==
    /\ At(w, "finish")
    /\ current' = IF current = w THEN None ELSE current
    /\ subs' = [s \in Readers |-> IF subs[s].of = w THEN Closed(subs[s]) ELSE subs[s]]
    /\ Move(w, Ended(worker[w]))
    /\ UNCHANGED <<cellVars, closed, unsupported, cluster, compacted, upsets>>

-----------------------------------------------------------------------------
(* Idle workers *)

\* The timer fires; Stop no longer reaches a callback that has started.
TimerFires(w) ==
    /\ worker[w].timer /\ ~ worker[w].fired
    /\ Move(w, [worker[w] EXCEPT !.fired = TRUE])
    /\ UNCHANGED <<cellVars, managerVars, cluster, compacted, subs, upsets>>

\* stopIfIdle flushes the snapshot with manager.mu held; what the worker does
\* to the cache meanwhile can only fence the flush.
StopIfIdle(w) ==
    LET r == [worker[w] EXCEPT !.fired = FALSE, !.timer = FALSE]
        flush == Ready(w) /\ r.cached /\ ~ dead
    IN
    /\ worker[w].fired
    /\ IF current # w \/ SubscribersOf(w, subs) # {}
       THEN Move(w, r) /\ UNCHANGED <<cellVars, current>>
       ELSE /\ Move(w, [r EXCEPT !.stopping = TRUE, !.cancelled = TRUE])
            /\ current' = None
            /\ begun' = IF flush THEN begun + 1 ELSE begun
            /\ held' = IF flush THEN [data |-> r.snap, fresh |-> r.connected, issue |-> begun + 1]
                       ELSE IF Ready(w) /\ r.connected THEN held ELSE MarkedStale(w)
            /\ UNCHANGED dead
    /\ UNCHANGED <<closed, unsupported, cluster, compacted, subs, upsets>>

EvictIdle(w) ==
    /\ Upset
    /\ current = w
    /\ ~ worker[w].stopping
    /\ SubscribersOf(w, subs) = {}
    /\ current' = None
    /\ Move(w, [worker[w] EXCEPT !.stopping = TRUE, !.timer = FALSE, !.flush = "copy",
                                 !.evicted = TRUE])
    /\ UNCHANGED <<cellVars, closed, unsupported, cluster, compacted, subs>>

\* EvictIdle closes the cache subscription after the flush; both of its callers
\* cancel the worker.
FlushDone(r) ==
    [r EXCEPT !.flush = "no", !.flushed = None, !.flushToken = 0, !.flushConnected = FALSE,
              !.cancelled = TRUE, !.cached = IF r.evicted THEN FALSE ELSE @]

\* flushCache runs outside the lock: it copies the snapshot, begins a refresh
\* and commits it, in three steps.
FlushCopy(w) ==
    LET r == worker[w] IN
    /\ r.flush = "copy"
    /\ Move(w, IF Ready(w) THEN [r EXCEPT !.flush = "begin", !.flushed = r.snap,
                                          !.flushConnected = r.connected]
               ELSE FlushDone(r))
    /\ UNCHANGED <<cellVars, managerVars, cluster, compacted, subs, upsets>>

FlushBegin(w) ==
    LET r == worker[w] IN
    /\ r.flush = "begin"
    /\ IF r.cached /\ ~ dead
       THEN Begin /\ Move(w, [r EXCEPT !.flush = "commit", !.flushToken = begun + 1])
       ELSE Move(w, FlushDone(r)) /\ UNCHANGED cellVars
    /\ UNCHANGED <<managerVars, cluster, compacted, subs, upsets>>

FlushCommit(w) ==
    LET r == worker[w]
        stored == r.cached /\ ~ dead /\ r.flushToken = begun
    IN
    /\ r.flush = "commit"
    /\ held' = IF stored THEN [data |-> r.flushed, fresh |-> r.flushConnected, issue |-> begun]
               ELSE MarkedStale(w)
    /\ Move(w, FlushDone(r))
    /\ UNCHANGED <<begun, dead, managerVars, cluster, compacted, subs, upsets>>

-----------------------------------------------------------------------------
(* The end of the generation and of the server *)

\* CancelGeneration kills the cache's generation before it takes the lock.
CancelGeneration ==
    /\ Upset
    /\ ~ dead
    /\ Kill
    /\ UNCHANGED <<managerVars, cluster, compacted, worker, subs>>

Detached == IF current = None THEN worker ELSE [worker EXCEPT ![current].ending = TRUE]

CancelGenerationWorkers ==
    /\ dead
    /\ current # None \/ unsupported
    /\ unsupported' = FALSE
    /\ current' = None
    /\ worker' = Detached
    /\ UNCHANGED <<cellVars, closed, cluster, compacted, subs, upsets>>

Close ==
    /\ Upset
    /\ ~ closed
    /\ closed' = TRUE
    /\ current' = None
    /\ worker' = Detached
    /\ UNCHANGED <<cellVars, unsupported, cluster, compacted, subs>>

\* Outside the lock: the readers are reset, the worker is cancelled.
EndWorker(w) ==
    /\ worker[w].ending
    /\ Tell(w, Signal("reset"), [worker[w] EXCEPT !.ending = FALSE, !.cancelled = TRUE])
    /\ UNCHANGED <<cellVars, managerVars, cluster, compacted, upsets>>

-----------------------------------------------------------------------------
RunStep(w) ==
    \/ InitialSync(w) \/ InitialFails(w) \/ InitialUnsupported(w)
    \/ ListBegin(w) \/ Preview(w) \/ ListAnswers(w) \/ ListFails(w)
    \/ CommitSnapshot(w) \/ InstallSnapshot(w) \/ SendSnapshot(w)
    \/ Connect(w) \/ StreamEnds(w) \/ RelistExpired(w) \/ Denied(w)
    \/ Bookmark(w) \/ ReceiveDelta(w) \/ DeltaTooLarge(w) \/ SnapshotOutgrown(w) \/ Notify(w)
    \/ Fail(w) \/ Finish(w)

IdleStep(w) ==
    \/ TimerFires(w) \/ StopIfIdle(w)
    \/ FlushCopy(w) \/ FlushBegin(w) \/ FlushCommit(w) \/ EndWorker(w)

WatchNext ==
    \/ \E w \in Workers : RunStep(w) \/ IdleStep(w) \/ EvictIdle(w)
    \/ \E s \in Readers : \/ Deliver(s) \/ Leave(s)
                          \/ \E w \in Workers : \/ SubscribeNew(s, w) \/ SubscribeTooBig(s, w)
                                                \/ SubscribeShared(s, w)
    \/ CancelGeneration \/ CancelGenerationWorkers \/ Close
    \/ Write \/ WriteElsewhere \/ Compact

WatchSpec == WatchInit /\ [][WatchNext]_watchVars

\* Every goroutine, timer and started callback runs and a reader reads on: as
\* long as one of them has a step to take, one is taken.  Their steps run out,
\* so this says no less than fairness to each.  The cluster, the users and the
\* failures owe nothing.
Progress ==
    \/ \E w \in Workers : RunStep(w) \/ IdleStep(w)
    \/ \E s \in Readers : Deliver(s)
    \/ CancelGenerationWorkers

-----------------------------------------------------------------------------
(* Properties *)

WatchTypeOK ==
    /\ CellTypeOK
    /\ worker \in [Workers -> Worker]
    /\ subs \in [Readers -> Reader]

Running(w) == worker[w].pc \notin {"none", "done"}

\* The event says what becomes of o, and what it says.
Decides(event, o) ==
    \/ event.kind = "delta" /\ event.object = o
    \/ event.kind = "snapshot" /\ (event.chunk = 0 \/ event.items[o] # 0)

Word(event, o) == IF event.kind = "delta" THEN event.version ELSE event.items[o]

\* Who believes that o is at version `was` and applies the events in order ends
\* up with version v: the last event that decides has the last word.
Says(was, events, o, v) ==
    \/ v = was /\ \A i \in DOMAIN events : ~ Decides(events[i], o)
    \/ \E i \in DOMAIN events :
          /\ Decides(events[i], o) /\ v = Word(events[i], o)
          /\ \A j \in DOMAIN events : j > i => ~ Decides(events[j], o)

\* No reader misses an update: with what it was told, what is queued for it and
\* what the worker is about to send, every subscriber knows exactly the
\* worker's snapshot, whenever it joined (before a list, between a list and its
\* chunks, between an update and its broadcast) and however its queue was
\* coalesced.
NoLostUpdate ==
    \A s \in Readers, w \in Workers, o \in Objects :
        (subs[s].of = w /\ ~ subs[s].closed /\ Ready(w)) =>
            \E seen \in 0..MaxRV : /\ Says(subs[s].view[o], subs[s].queue, o, seen)
                                   /\ Says(seen, worker[w].out, o, worker[w].snap.items[o])

\* Whatever is kept for reuse is the collection as it was at the version it
\* carries, so a watch resumed from there misses nothing: the worker's
\* snapshot, the cached one, and the copy a flush is about to commit.
VersionConsistent ==
    LET Right(snap) == snap = None \/ cluster[snap.rv] = snap.items IN
    /\ \A w \in Workers : Right(worker[w].snap) /\ Right(worker[w].flushed)
    /\ held # None => Right(held.data)

\* A worker that has ended keeps no reader and is out of the map, and a slow
\* reader that was thrown out finds exactly its reset.
EndedIsLeft ==
    /\ \A w \in Workers : ~ Running(w) => SubscribersOf(w, subs) = {} /\ current # w
    /\ \A s \in Readers : subs[s].of # None => ~ subs[s].closed /\ Len(subs[s].queue) <= QueueEvents

\* Worker, cache and readers tell one story: no reader misses an update, what is
\* kept for reuse is true at its version, and nobody is left with a worker that
\* has ended.
ReadersConsistent == WatchTypeOK /\ NoLostUpdate /\ VersionConsistent /\ EndedIsLeft

\* Every reader that stays catches up: once the cluster and the upsets are
\* spent, it shows the collection as it is, or its subscription has ended.
Converges ==
    \A s \in Readers : <>[](subs[s].of # None => subs[s].view = Last(cluster))

\* A worker nobody listens to is stopped, whatever joins, leaves and timers
\* raced, unless a subscriber was refused because the snapshot did not split.
IdleStops ==
    \A w \in Workers : []<>(Running(w) /\ SubscribersOf(w, subs) = {} => worker[w].refused)
=============================================================================
