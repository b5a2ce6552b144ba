------------------------------- MODULE Dashboard -------------------------------
(***************************************************************************)
(* A client of the dashboard beside the log scans: it asks for one of the      *)
(* blocks, narrowed, filtered and sorted as it likes, and walks through the    *)
(* pages of a list by cursor, while reads fail, the selection changes and the  *)
(* cluster moves on (the handlers of internal/api/handlers/dashboard.go).      *)
(***************************************************************************)
EXTENDS LogScan

CONSTANTS
    Clusters,      \* what Kubernetes may hold: records with an id
    FaultSets,     \* the sets of reads that fail in one collection
    Queries,       \* [kind, narrow, statuses, sort, limit]
    MaxShown       \* bound: the rows after which a client stops walking

VARIABLES
    scene,     \* what the behaviour is about: "scans" or "views"
    view       \* the client

viewVars == <<cluster, sel, reg, scan, scene, view>>

Paged == {"problems", "events", "metrics"}

NoCursor == [anchor |-> <<>>, gen |-> 0, query |-> {}]

NoView == [stage |-> "idle"]

-----------------------------------------------------------------------------
(* Lists as a query wants them *)

\* A namespace outside the active scope is refused.
narrowDashboardNamespaces(names, narrow) == IF narrow = NoNamespace THEN names ELSE <<narrow>>
NarrowAllowed(names, narrow) == narrow = NoNamespace \/ narrow \in Range(names)

filterProblems(rows, q) ==
    LET shown == SelectSeq(rows, LAMBDA p : q.statuses = {} \/ p.severity \in q.statuses)
        key(p) == <<p.ns, kindRank[p.kind], p.name, p.container>>
    IN  IF q.sort = "identity" THEN SortSeq(shown, LAMBDA a, b : LessThan(key(a), key(b)))
        ELSE SortSeq(shown, compareProblems)

eventCursorIdentity(r) == <<r.key.ns, r.uid>>

filterEvents(rows, q) ==
    LET shown == SelectSeq(rows, LAMBDA r : r.key.type \in (IF q.statuses = {} THEN {"Warning"} ELSE q.statuses))
        canonical(r) == <<-r.at, r.key.ns, r.uid>>
        key(r) == IF q.sort = "count" THEN <<r.count>> \o canonical(r) ELSE <<0>> \o canonical(r)
    IN  SortSeq(shown, LAMBDA a, b : LessThan(key(a), key(b)))

metricCursorIdentity(r) == <<r.ns, r.pod>>

filterMetrics(rows, q) ==
    IF q.sort = "memory" THEN SortSeq(rows, LAMBDA a, b : LessThan(<<a.memory, a.ns, a.pod>>, <<b.memory, b.ns, b.pod>>))
    ELSE ByUsage(rows, LAMBDA r : r.cpu)

Identity(kind, row) ==
    CASE kind = "problems" -> problemCursorIdentity(row)
      [] kind = "events" -> eventCursorIdentity(row)
      [] OTHER -> metricCursorIdentity(row)

Filtered(b, Filter(_)) == copyBlockState(b, Filter(b.value))

\* What the backend collects for a query, and how the list is shown.
Collected(q, names, faults, logs) ==
    CASE q.kind = "summary" -> Summary(cluster, names, faults, logs)
      [] q.kind = "health" -> NamespaceHealth(cluster, names, faults)
      [] q.kind = "restarts" -> Restarts(cluster, names, faults)
      [] q.kind = "diagnostics" -> Diagnostics(cluster, names, faults)
      [] q.kind = "problems" -> Filtered(Problems(cluster, names, faults), LAMBDA rows : filterProblems(rows, q))
      [] q.kind = "events" -> Filtered(collectGroups(cluster, names, faults, FALSE), LAMBDA rows : filterEvents(rows, q))
      [] OTHER -> Filtered(CollectMetrics(cluster, names, faults), LAMBDA rows : filterMetrics(rows, q))

-----------------------------------------------------------------------------
(* Pages *)

\* The anchor itself is shown again.
AtAnchor(kind, rows, anchor) ==
    LET found == {i \in DOMAIN rows : Identity(kind, rows[i]) = anchor} IN IF found = {} THEN {} ELSE {Min(found)}

\* The row after the anchor; {} when the anchor is gone.
AfterAnchor(kind, rows, anchor) ==
    LET found == {i \in DOMAIN rows : Identity(kind, rows[i]) = anchor} IN IF found = {} THEN {} ELSE {Min(found) + 1}

\* paginateDashboardBlock; the page says it is complete only if nothing follows.
paginateDashboardBlock(q, b, gen, cursor) ==
    LET starts == IF cursor = NoCursor THEN {1} ELSE AfterAnchor(q.kind, b.value, cursor.anchor)
        start  == CHOOSE s \in starts : TRUE
        end    == Min({start + q.limit - 1, Len(b.value)})
        next   == IF end < Len(b.value) THEN [anchor |-> Identity(q.kind, b.value[end]), gen |-> gen, query |-> {q}] ELSE NoCursor
        paged  == copyBlockState(b, SubSeq(b.value, start, end))
    IN  IF starts = {} THEN [status |-> "CURSOR_MISMATCH", block |-> blockWithValue(<<>>), next |-> NoCursor, last |-> FALSE]
        ELSE [status |-> "OK", next |-> next, last |-> b.complete /\ next = NoCursor,
              block |-> IF cursor # NoCursor \/ next # NoCursor THEN Truncate(paged) ELSE paged]

\* A block that is no list is answered whole.
Whole(b) == [status |-> "OK", block |-> b, next |-> NoCursor, last |-> b.complete]

\* The rankings beside a page of metrics are those of its rows.
WithRanks(q, page) ==
    [status |-> page.status, block |-> page.block, next |-> page.next, last |-> page.last,
     ranks |-> IF q.kind = "metrics" THEN rebuildMetricRanks(page.block.value) ELSE rebuildMetricRanks(<<>>)]

PageFor(q, b, gen, cursor) ==
    WithRanks(q, IF q.kind \in Paged THEN paginateDashboardBlock(q, b, gen, cursor) ELSE Whole(b))

\* totalDashboardFailure's idea of a value.
HasValue(q, b) == CASE q.kind \in {"summary", "diagnostics"} -> TRUE
                    [] q.kind = "health" -> b.value # <<>>
                    [] OTHER -> Len(b.value) > 0

-----------------------------------------------------------------------------
(* The client *)

DashboardInit ==
    /\ scene \in {"scans", "views"}
    /\ cluster \in Clusters /\ cluster.scene = scene
    /\ ScanInit
    /\ view = NoView

\* A request: the active selection and the cursor are looked at first.
Ask(q) ==
    /\ view.stage = "idle"
    /\ scene = "views"
    /\ view' = IF NarrowAllowed(ScopeOf[sel.published], q.narrow)
               THEN [stage |-> "asked", q |-> q, gen |-> sel.published, cursor |-> NoCursor, got |-> <<>>, steady |-> TRUE]
               ELSE [stage |-> "refused"]
    /\ UNCHANGED <<cluster, sel, reg, scan, scene>>

\* decodeDashboardCursor: a cursor serves the query and generation it was made for.
Continue ==
    /\ view.stage = "answered" /\ view.reply.status = "OK" /\ view.reply.next # NoCursor
    /\ Len(view.got) <= MaxShown
    /\ view' = IF view.reply.next.gen = sel.published /\ view.q \in view.reply.next.query
               THEN [stage |-> "asked", q |-> view.q, gen |-> sel.published, cursor |-> view.reply.next,
                     got |-> view.got, steady |-> view.steady]
               ELSE [stage |-> "refused"]
    /\ UNCHANGED <<cluster, sel, reg, scan, scene>>

\* The whole list is collected anew for every page.
CollectView(faults) ==
    LET q     == view.q
        names == narrowDashboardNamespaces(ScopeOf[view.gen], q.narrow)
    IN  /\ view.stage = "asked"
        /\ view' = [stage |-> "writing", q |-> q, gen |-> view.gen, cursor |-> view.cursor, got |-> view.got,
                    names |-> names, steady |-> view.steady /\ faults = {},
                    page |-> PageFor(q, Collected(q, names, faults, currentLogCounter(view.gen)), view.gen, view.cursor)]
        /\ UNCHANGED <<cluster, sel, reg, scan, scene>>

\* writeResult and writeIfCurrent
Answer ==
    LET p      == view.page
        status == CASE p.status # "OK" -> p.status
                    [] view.gen # sel.published -> "GENERATION_CHANGED"
                    [] totalDashboardFailure(p.block, HasValue(view.q, p.block)) -> "FAILED"
                    [] OTHER -> "OK"
    IN  /\ view.stage = "writing"
        /\ view' = [stage |-> "answered", q |-> view.q, gen |-> view.gen, names |-> view.names, steady |-> view.steady,
                    got |-> IF status = "OK" /\ view.q.kind \in Paged /\ view.steady THEN view.got \o p.block.value ELSE <<>>,
                    reply |-> [p EXCEPT !.status = status]]
        /\ UNCHANGED <<cluster, sel, reg, scan, scene>>

\* The cluster moves on between two requests.
ClusterChanges ==
    /\ scene = "views"
    /\ view.stage = "answered" /\ view.steady
    /\ cluster' \in {c \in Clusters : c.scene = scene /\ c.id # cluster.id}
    /\ view' = [view EXCEPT !.steady = FALSE, !.got = <<>>]
    /\ UNCHANGED <<sel, reg, scan, scene>>

\* Logs may be denied to a client that is alone; the lists fail with its context.
ScanFaults == {f \in FaultSets : f = {} \/ (cluster.clients = 1 /\ \E x \in f : x.src = "logs")}

DashboardNext ==
    \/ scene = "scans" /\ ScanStep(ScanFaults) /\ UNCHANGED <<scene, view>>
    \/ /\ scene = "views"
       /\ SelectionPublished \/ (\E next \in Generations : ScanOnGeneration(next))
       /\ UNCHANGED <<scene, view>>
    \/ \E q \in Queries : Ask(q)
    \/ Continue
    \/ \E f \in FaultSets : CollectView(f)
    \/ Answer
    \/ ClusterChanges

-----------------------------------------------------------------------------
(* What the cluster really holds *)

PodsIn(names) == UNION {Range(cluster.pods[ns]) : ns \in Range(names)}
EventsIn(names) == {NormalizeCoreEvent(e) : e \in UNION {Range(cluster.events[ns]) : ns \in Range(names)}}
WorkloadsIn(names) == UNION {Range(cluster.workloads[ns][k]) : ns \in Range(names), k \in 1..workloadKindCount}

StatusIn(w) == Classify(w, Listed(WorkloadsIn(<<w.ns>>)))
DownIn(names) == {w \in WorkloadsIn(names) : Down(StatusIn(w))}
BadPods(names) == {p \in PodsIn(names) : Problematic(p, Listed(EventsIn(names)))}
SumOf(S, Value(_)) == MapThenSumSet(Value, S)

\* Every match of every log that a scan is for: no limit, no budget.
MatchesIn(names) ==
    UNION {UNION {Range(MatchesOf(t, LogOf(t))) : t \in TargetsOf(p, Listed(EventsIn(names)))} : p \in PodsIn(names)}

ProblemsIn(names) ==
    UNION {DetectPod(p) : p \in PodsIn(names)} \cup UNION {DetectWorkload(w, StatusIn(w)) : w \in WorkloadsIn(names)}
      \cup UNION {DetectWarningEvent(e) : e \in EventsIn(names)} \cup UNION {DetectNode(n) : n \in Range(cluster.nodes)}
      \cup UNION {DetectPVC(c) : c \in {x \in cluster.volumes : x.ns \in Range(names)}}

TrueCount(names, counter) ==
    CASE counter = "total" -> Cardinality(PodsIn(names))
      [] counter = "problematic" -> Cardinality(BadPods(names))
      [] counter = "healthy" -> Cardinality({p \in PodsIn(names) \ BadPods(names) : podIsPositivelyHealthy(p)})
      [] counter = "restarts" -> SumOf(PodsIn(names), RestartsOf)
      [] counter = "degraded" -> Cardinality(DownIn(names))
      [] counter = "warnings" -> SumOf({e \in EventsIn(names) : normalizeEventType(e.type) = "Warning"}, LAMBDA e : e.count)
      [] OTHER -> Cardinality(MatchesIn(names))

\* What a list of each kind is when nothing is left out of it.
TrueRows(kind, names) ==
    CASE kind = "restarts" -> UNION {Range(PodRestarts(p)) : p \in PodsIn(names)}
      [] kind = "events" -> {EventGroupKey(e) : e \in EventsIn(names)}
      [] kind = "metrics" -> {PodUsage(m) : m \in UNION {Range(cluster.metrics[ns]) : ns \in Range(names)}}
      [] OTHER -> ProblemsIn(names)

Shown(q, row) == CASE q.kind = "problems" -> q.statuses = {} \/ row.severity \in q.statuses
                   [] q.kind = "events" -> row.type \in (IF q.statuses = {} THEN {"Warning"} ELSE q.statuses)
                   [] OTHER -> TRUE

\* A claim of another namespace that the cache holds is shown too.
Foreign(kind, row, names) == kind = "problems" /\ row.kind = "PersistentVolumeClaim" /\ row.ns \notin Range(names)

RowsOf(kind, rows, names) ==
    IF kind = "events" THEN {r.key : r \in Range(rows)} ELSE {r \in Range(rows) : ~Foreign(kind, r, names)}

TrueHealth(row, ns) ==
    /\ row.problematic = Cardinality({p \in BadPods(view.names) : p.ns = ns})
    /\ row.restarts = TrueCount(<<ns>>, "restarts") /\ row.degraded = TrueCount(<<ns>>, "degraded")

TrueDiagnosis(row) ==
    /\ row.restarts = TrueCount(<<row.ns>>, "restarts")
    /\ \A s \in DOMAIN severityRank :
          row.problems[s] = Cardinality({p \in ProblemsIn(view.names) : p.ns = row.ns /\ p.severity = s})

-----------------------------------------------------------------------------
(* Properties *)

Replied(kinds) == view.stage = "answered" /\ view.reply.status = "OK" /\ view.q.kind \in kinds

\* A block that says it is complete leaves nothing of its scope out and makes
\* nothing up, whatever pages, budgets, denied namespaces and failed reads it was
\* made with; a counter that says it is available is the true number, and the
\* counter of the log scan is the number of matches in the logs of the selection
\* it is shown for (counterForBlock, addBlockError, collectNamespace, finishScan).
CompleteMeansAll ==
    LET b == view.reply.block names == view.names kind == view.q.kind IN
    /\ \A g \in Generations : scene = "scans" /\ currentLogCounter(g).state = "available" =>
         currentLogCounter(g).value = TrueCount(ScopeOf[g], "logs")
    /\ Replied({"summary"}) /\ view.steady =>
         /\ \A c \in DOMAIN b.value : b.value[c].state = "available" => b.value[c].value = TrueCount(names, c)
         /\ b.complete => \A c \in DOMAIN b.value \ {"logs"} : b.value[c].state = "available"
    /\ Replied({"health"}) /\ b.complete /\ view.steady =>
         Len(b.value) = Len(names) /\ \A i \in DOMAIN names : TrueHealth(b.value[i], names[i])
    /\ Replied({"diagnostics"}) /\ b.complete /\ view.steady =>
         Len(b.value) = Len(names) /\ \A i \in DOMAIN b.value : TrueDiagnosis(b.value[i])
    /\ Replied({"restarts"} \cup Paged) /\ b.complete /\ view.steady =>
         RowsOf(kind, b.value, names) = {r \in TrueRows(kind, names) : Shown(view.q, r)}
    /\ \A r \in Requests : scan[r].stage = "done" =>
         (scan[r].reply.status = "OK" /\ scan[r].reply.block.complete =>
            Range(scan[r].reply.block.value) = MatchesIn(ScopeOf[scan[r].gen]))

\* The counter of the log scan is that of the scan begun last: "collecting"
\* exactly while that scan runs, so that it neither hangs when a scan was
\* cancelled nor is overwritten by one that ended late (beginScan, finishScan,
\* OnGeneration); and a scan that was overtaken no longer reads undisturbed.
ScanCounterIsLatest ==
    /\ reg.counter.state = "collecting" <=> \E r \in Requests : Running(r) /\ scan[r].seq = reg.seq
    /\ \A r \in Requests : Running(r) /\ scan[r].seq # reg.seq => scan[r].ctx \in {"canceled", "deadline"}

\* The readers of a scan never read more than its budget between them, what they
\* return can be reserved again, and none waits for capacity that nobody holds
\* (logScanByteBudget.reserve and complete).
ScanWithinBudget ==
    \A r \in Requests : scan[r].stage = "reading" =>
        LET s == scan[r]
            total(Value(_)) == SumOver(s.targets, Value)
        IN  /\ s.remaining >= 0
            /\ total(LAMBDA t : t.held) = s.inFlight
            /\ total(LAMBDA t : t.read) + s.inFlight + s.remaining = ScanLines
            /\ \A t \in Range(s.targets) : t.read + t.held <= ContainerLines
            /\ (\E t \in Range(s.targets) : t.st = "open") /\ s.remaining = 0 => s.exhausted \/ s.inFlight > 0

\* Scans are accounted for: the counter is that of the newest scan and the
\* budget is shared without loss.
ScansAccounted == ScanCounterIsLatest /\ ScanWithinBudget

\* The client has walked through the beginning of the list, to the end if there is
\* no cursor; rows of one identity cannot be told apart.
TiledBy(list) ==
    \/ \E i, j \in DOMAIN list : i # j /\ Identity(view.q.kind, list[i]) = Identity(view.q.kind, list[j])
    \/ /\ IsPrefix(view.got, list)
       /\ view.reply.next = NoCursor <=> view.got = list

\* Walking a list by cursor over an unchanged cluster gives every row once and in
\* order, if the rows can be told apart by their cursor identity, and the last
\* page is the one without a cursor (paginateDashboardBlock collects the whole
\* list again for every page).
PagesTile ==
    Replied(Paged) /\ view.steady => TiledBy(Collected(view.q, view.names, {}, EmptyCounter("not_collected")).value)
=============================================================================
