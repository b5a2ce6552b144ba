--------------------------------- MODULE Blocks ---------------------------------
(***************************************************************************)
(* How a dashboard block is collected: lists read in pages under a budget of  *)
(* items and pages, namespace after namespace, where any page may be denied   *)
(* or fail, and the values, coverage and counters made of what was read       *)
(* (internal/services/dashboard and DashboardBackend).                        *)
(*                                                                          *)
(* A cluster is a record of what Kubernetes holds, namespace by namespace.    *)
(* faults is the set of reads that fail: [src, ns, page, code, ends], where a *)
(* page of workloads is numbered by its kind, and a fault that ends the       *)
(* request's context fails every later read of that source.                   *)
(***************************************************************************)
EXTENDS Health

CONSTANTS
    PageSize, MaxItems, MaxPages,   \* QueryBudget
    MaxRestarts,                    \* the limit of a restarts request
    MaxNodes,                       \* the nodes of the one page the problem list reads
    MaxDiagnosed                    \* maximumDiagnosticNamespaces

NoNamespace == 0

-----------------------------------------------------------------------------
(* Blocks, their errors and their coverage *)

blockWithValue(v) == [value |-> v, complete |-> TRUE, truncated |-> FALSE, requested |-> 0,
                      completed |-> 0, denied |-> {}, failed |-> {}, errors |-> {}]

emptyCoverage(v, names) == [blockWithValue(v) EXCEPT !.requested = Len(names)]

addBlockError(b, ns, code) ==
    LET partial == [ns |-> ns, code |-> code] IN
    [b EXCEPT !.complete = FALSE, !.errors = @ \cup {partial},
              !.denied = IF code = "FORBIDDEN" THEN @ \cup {ns} ELSE @,
              !.failed = IF code = "FORBIDDEN" THEN @ ELSE @ \cup {partial}]

\* An error that is no namespace's: it leaves the coverage alone.
noteError(b, code) == [b EXCEPT !.complete = FALSE, !.errors = @ \cup {[ns |-> NoNamespace, code |-> code]}]

Truncate(b) == [b EXCEPT !.complete = FALSE, !.truncated = TRUE]

\* copyBlockState: a value computed from a block keeps what is said of the block.
copyBlockState(b, v) == [b EXCEPT !.value = v]

mergeBlockState(b, other) ==
    [b EXCEPT !.complete = @ /\ other.complete, !.truncated = @ \/ other.truncated,
              !.errors = @ \cup other.errors]

\* A namespace counts as completed only if both sources completed it.
mergeCoverage(b, other) ==
    [b EXCEPT !.requested = Max({@, other.requested}), !.completed = Min({@, other.completed}),
              !.denied = @ \cup other.denied, !.failed = @ \cup other.failed]

onlyDenied(errors) == errors # {} /\ \A e \in errors : e.code = "FORBIDDEN"

counterForBlock(n, b) ==
    CASE b.truncated -> [state |-> "truncated", value |-> n]
      [] b.complete -> [state |-> "available", value |-> n]
      [] onlyDenied(b.errors) -> [state |-> "denied", value |-> 0]
      [] OTHER -> [state |-> "unavailable", value |-> 0]

EmptyCounter(state) == [state |-> state, value |-> 0]

-----------------------------------------------------------------------------
(* Pages *)

\* Which fault a read meets, if any.
FaultsAt(faults, src, ns, page) ==
    {f \in faults : /\ f.src = src
                    /\ \/ f.ns = ns /\ f.page = page
                       \/ f.ends /\ LessThan(<<f.ns, f.page>>, <<ns, page>>)}

CodeOf(fs) == (CHOOSE f \in fs : TRUE).code

\* A page that would exceed the budget is cut, and said to be whole.
NextPageUnsaid(items, budget, acc, page, fs) ==
    LET remaining == budget - Len(acc.items)
        read      == SubSeq(items, Len(acc.items) + 1, Min({Len(items), Len(acc.items) + PageSize}))
        taken     == acc.items \o SubSeq(read, 1, Min({Len(read), remaining}))
    IN  IF acc.how # "more" THEN acc
        ELSE IF fs # {} THEN [acc EXCEPT !.how = CodeOf(fs)]
        ELSE [items |-> taken, how |-> IF Len(taken) = Len(items) \/ Len(taken) = budget THEN "complete" ELSE "more"]

\* One page of a list: the budget is looked at before the read and after it.
NextPage(items, budget, acc, page, fs) ==
    LET remaining == budget - Len(acc.items)
        read      == SubSeq(items, Len(acc.items) + 1, Min({Len(items), Len(acc.items) + PageSize}))
        taken     == acc.items \o SubSeq(read, 1, Min({Len(read), remaining}))
    IN  CASE acc.how # "more" -> acc
          [] remaining <= 0 -> [acc EXCEPT !.how = "truncated"]
          [] fs # {} -> [acc EXCEPT !.how = CodeOf(fs)]
          [] Len(read) > remaining -> [items |-> taken, how |-> "truncated"]
          [] OTHER -> [items |-> taken, how |-> IF Len(taken) = Len(items) THEN "complete" ELSE "more"]

\* One namespace: [items, how]; how is "complete", "truncated" or an error, with
\* which the items read so far are kept.
loadNamespace(items, budget, src, ns, faults) ==
    LET read == FoldLeft(LAMBDA acc, page : NextPage(items, budget, acc, page, FaultsAt(faults, src, ns, page)),
                         [items |-> <<>>, how |-> "more"], [p \in 1..MaxPages |-> p])
    IN  IF read.how = "more" THEN [read EXCEPT !.how = "truncated"] ELSE read

\* What is said of a namespace that was read.
Covered(b, ns, how) ==
    CASE how = "complete" -> [b EXCEPT !.completed = @ + 1]
      [] how = "truncated" -> Truncate(b)
      [] OTHER -> addBlockError(b, ns, how)

\* One more namespace, unless the budget is spent.
CollectNamespace(b, ns, items, src, faults) ==
    LET remaining == MaxItems - Len(b.value)
        read      == loadNamespace(items, remaining, src, ns, faults)
    IN  IF remaining <= 0 THEN Truncate(b)
        ELSE Covered([b EXCEPT !.value = @ \o read.items], ns, read.how)

\* Every namespace of the selection, in order.
CollectFrom(content, names, src, faults) ==
    FoldLeft(LAMBDA b, ns : CollectNamespace(b, ns, content[ns], src, faults), emptyCoverage(<<>>, names), names)

loadPods(cluster, names, faults) ==
    LET b == CollectFrom(cluster.pods, names, "pods", faults) IN
    [b EXCEPT !.value = SortSeq(@, LAMBDA x, y : LessThan(<<x.ns, x.name, x.uid>>, <<y.ns, y.name, y.uid>>))]

\* Events are normalised as their pages are read (listEvents).
loadEvents(cluster, names, faults) ==
    LET b == CollectFrom(cluster.events, names, "events", faults) IN
    [b EXCEPT !.value = [i \in DOMAIN @ |-> NormalizeCoreEvent(@[i])]]

\* EventService.collect
Grouped(b, warningsOnly) == copyBlockState(b, GroupEvents(b.value, warningsOnly))

collectGroups(cluster, names, faults, warningsOnly) == Grouped(loadEvents(cluster, names, faults), warningsOnly)

\* The problem list and the log scan read for themselves, in the same way.
collectPods(cluster, names, faults) == loadPods(cluster, names, faults)
collectEvents(cluster, names, faults) == loadEvents(cluster, names, faults)

-----------------------------------------------------------------------------
(* Workloads: one page runs through the five kinds *)

workloadKindCount == Len(workloadKinds)

\* A kind that fails is an issue of the page, which goes on with the next one.
ListKind(lists, ns, faults, acc) ==
    LET k    == acc.kind
        fs   == FaultsAt(faults, "workloads", ns, k)
        left == PageSize - Len(acc.items)
        upto == Min({Len(lists[k]), acc.off + left})
        all  == acc.items \o SubSeq(lists[k], acc.off + 1, upto)
    IN  CASE acc.stop \/ k > workloadKindCount \/ left <= 0 -> [acc EXCEPT !.stop = TRUE]
          [] fs # {} -> [acc EXCEPT !.issues = @ \cup {CodeOf(fs)}, !.kind = k + 1, !.off = 0,
                                    !.stop = \E f \in fs : f.ends]
          [] upto < Len(lists[k]) -> [acc EXCEPT !.items = all, !.off = upto, !.next = TRUE, !.stop = TRUE]
          [] OTHER -> [acc EXCEPT !.items = all, !.kind = k + 1, !.off = 0,
                                  !.next = Len(all) = PageSize /\ k < workloadKindCount, !.stop = Len(all) = PageSize]

\* One page from where the last one stopped; next says that there is another.
listWorkloads(lists, ns, faults, kind, off) ==
    FoldLeft(LAMBDA acc, i : ListKind(lists, ns, faults, acc),
             [items |-> <<>>, issues |-> {}, kind |-> kind, off |-> off, next |-> FALSE, stop |-> FALSE],
             [i \in 1..workloadKindCount |-> i])

\* A page that does not fit into the budget is dropped, its issues are kept.
NextWorkloads(lists, ns, budget, faults, acc) ==
    LET page == listWorkloads(lists, ns, faults, acc.kind, acc.off) IN
    CASE acc.how # "more" -> acc
      [] Len(acc.items) >= budget -> [acc EXCEPT !.how = "truncated"]
      [] Len(acc.items) + Len(page.items) > budget -> [acc EXCEPT !.issues = @ \cup page.issues, !.how = "truncated"]
      [] OTHER -> [items |-> acc.items \o page.items, issues |-> acc.issues \cup page.issues,
                   kind |-> page.kind, off |-> page.off, how |-> IF page.next THEN "more" ELSE "end"]

loadWorkloads(lists, ns, budget, faults) ==
    FoldLeft(LAMBDA acc, page : NextWorkloads(lists, ns, budget, faults, acc),
             [items |-> <<>>, issues |-> {}, kind |-> 1, off |-> 0, how |-> "more"], [p \in 1..MaxPages |-> p])

\* A CronJob is judged by the Jobs that were collected.
WorkloadRows(items) ==
    LET jobs == SelectSeq(items, LAMBDA w : w.kind = "Job") IN
    [i \in DOMAIN items |-> [kind |-> items[i].kind, ns |-> items[i].ns, name |-> items[i].name,
                             status |-> Classify(items[i], jobs)]]

\* What is said of the workloads of a namespace that were read.
CoveredWorkloads(b, ns, read) ==
    LET withRows   == [b EXCEPT !.value = @ \o WorkloadRows(read.items)]
        withIssues == FoldSet(LAMBDA code, x : addBlockError(x, ns, code), withRows, read.issues)
    IN  CASE read.how # "end" -> Truncate(withIssues)
          [] read.issues = {} -> [withRows EXCEPT !.completed = @ + 1]
          [] OTHER -> withIssues

WorkloadNamespace(b, ns, lists, faults) ==
    IF Len(b.value) >= MaxItems THEN Truncate(b)
    ELSE CoveredWorkloads(b, ns, loadWorkloads(lists, ns, MaxItems - Len(b.value), faults))

\* WorkloadService.List
ListAllWorkloads(cluster, names, faults) ==
    FoldLeft(LAMBDA b, ns : WorkloadNamespace(b, ns, cluster.workloads[ns], faults), emptyCoverage(<<>>, names), names)

\* No degraded workload is an answer only if every workload could be judged.
Judged(b, Value(_)) ==
    [b EXCEPT !.complete = @ /\ \A w \in Range(b.value) : w.status # "Unknown", !.value = Value(@)]

Degraded(cluster, names, faults) ==
    Judged(ListAllWorkloads(cluster, names, faults), LAMBDA rows : SelectSeq(rows, LAMBDA w : Down(w.status)))

DegradedByNamespace(cluster, names, faults) ==
    Judged(ListAllWorkloads(cluster, names, faults),
           LAMBDA rows : [ns \in Range(names) |-> Len(SelectSeq(rows, LAMBDA w : w.ns = ns /\ Down(w.status)))])

-----------------------------------------------------------------------------
(* Pods with their events *)

\* What is said of both sources.
Joined(pods, events, value) == copyBlockState(mergeCoverage(mergeBlockState(pods, events), events), value)

\* loadPodEvidence
WithEvidence(pods, events, Value(_, _)) == Joined(pods, events, Value(pods.value, events.value))

Evidence(cluster, names, faults, Value(_, _)) ==
    WithEvidence(loadPods(cluster, names, faults), loadEvents(cluster, names, faults), Value)

Overview(cluster, names, faults) == Evidence(cluster, names, faults, PodOverview)

PodNamespaceHealth(cluster, names, faults) ==
    Evidence(cluster, names, faults,
        LAMBDA pods, events : [ns \in Range(names) |->
            LET here == SelectSeq(pods, LAMBDA p : p.ns = ns) IN
            [problematic |-> PodOverview(here, events).problematic, restarts |-> SumOver(here, RestartsOf)]])

\* The restarts shown are the first of all, and say when there are more.
FirstRestarts(b, rows) ==
    IF Len(rows) > MaxRestarts THEN Truncate(copyBlockState(b, SubSeq(rows, 1, MaxRestarts))) ELSE copyBlockState(b, rows)

AllRestarts(b) == FirstRestarts(b, SortRestarts(FlattenSeq([i \in DOMAIN b.value |-> PodRestarts(b.value[i])])))

Restarts(cluster, names, faults) == AllRestarts(loadPods(cluster, names, faults))

\* DashboardService.Summary, with the counter of the last log scan.
SummaryOf(pods, workloads, events, logs) ==
    LET merged    == mergeBlockState(mergeBlockState(pods, workloads), events)
        value     == [total       |-> counterForBlock(pods.value.total, pods),
                      healthy     |-> counterForBlock(pods.value.healthy, pods),
                      problematic |-> counterForBlock(pods.value.problematic, pods),
                      restarts    |-> counterForBlock(pods.value.restarts, pods),
                      degraded    |-> counterForBlock(Len(workloads.value), workloads),
                      warnings    |-> counterForBlock(eventOccurrenceCount(events.value), events),
                      logs        |-> logs]
    IN  [copyBlockState(merged, value) EXCEPT
            !.complete = @ /\ logs.state \notin {"collecting", "truncated"},
            !.truncated = @ \/ logs.state = "truncated"]

Summary(cluster, names, faults, logs) ==
    SummaryOf(Overview(cluster, names, faults), Degraded(cluster, names, faults),
              collectGroups(cluster, names, faults, TRUE), logs)

\* DashboardService.NamespaceHealth
HealthRows(names, pods, degraded) ==
    [i \in DOMAIN names |-> [ns |-> names[i], problematic |-> pods[names[i]].problematic,
                             restarts |-> pods[names[i]].restarts, degraded |-> degraded[names[i]]]]

NamespaceHealth(cluster, names, faults) ==
    WithEvidence(PodNamespaceHealth(cluster, names, faults), DegradedByNamespace(cluster, names, faults),
                 LAMBDA pods, degraded : HealthRows(names, pods, degraded))

-----------------------------------------------------------------------------
(* Metrics *)

\* The longest sample window, or how long an empty answer took.
WindowOf(items) == IF items = <<>> THEN 1 ELSE Max({m.window : m \in Range(items)} \cup {0})

\* MetricsService.Collect: discovery, then a review and a list per namespace.
MetricsNamespace(b, ns, items, faults) ==
    LET review == FaultsAt(faults, "metrics", ns, 0) IN
    IF review # {} /\ Len(b.value) < MaxItems THEN addBlockError(b, ns, CodeOf(review))
    ELSE CollectNamespace(b, ns, items, "metrics", faults)

MetricsOf(b) ==
    LET window == IF b.completed > 0 \/ b.value # <<>> THEN WindowOf(b.value) ELSE 0 IN
    CASE window = 0 /\ b.errors # {} -> b
      [] invalidMetrics(b.value, window) -> addBlockError(copyBlockState(b, <<>>), NoNamespace, "CLUSTER_UNAVAILABLE")
      [] OTHER -> copyBlockState(b, buildMetrics(b.value))

CollectMetrics(cluster, names, faults) ==
    LET found == FaultsAt(faults, "metrics", NoNamespace, 0)
        empty == emptyCoverage(<<>>, names)
    IN  CASE found # {} -> addBlockError(empty, NoNamespace, CodeOf(found))
          [] ~cluster.metricsServed -> addBlockError(empty, NoNamespace, "FEATURE_UNAVAILABLE")
          [] OTHER -> MetricsOf(FoldLeft(LAMBDA acc, ns : MetricsNamespace(acc, ns, cluster.metrics[ns], faults), empty, names))

-----------------------------------------------------------------------------
(* The problem list, with the claims the resource cache knows of *)

\* indexOriginsComplete: a cluster-wide entry, or one of every namespace, none
\* of which is partial or being refreshed.
cacheCovers(entries, names) ==
    LET held == {e \in entries : e.state # "expired"} IN
    /\ held # {}
    /\ \A e \in held : e.state \notin {"partial", "refreshing"}
    /\ \/ \E e \in held : e.ns = NoNamespace
       \/ names # <<>> /\ \A ns \in Range(names) : \E e \in held : e.ns = ns

\* The claims of the entries held, of whatever namespace.
IndexedPVCs(entries) == UNION {e.claims : e \in {x \in entries : x.state # "expired"}}

nodePartialError(code) == IF code = "FORBIDDEN" THEN code ELSE "CLUSTER_UNAVAILABLE"

\* Nodes are listed once; what is behind that page is missing, and said to be.
collectNodeProblems(cluster, faults) ==
    LET fs == FaultsAt(faults, "nodes", NoNamespace, 0)
        listed == IF fs = {} THEN SubSeq(cluster.nodes, 1, Min({Len(cluster.nodes), MaxNodes})) ELSE <<>>
    IN  [value |-> UNION {DetectNode(n) : n \in Range(listed)},
         complete |-> fs = {} /\ Len(cluster.nodes) <= MaxNodes,
         codes |-> {nodePartialError(f.code) : f \in fs}]

PodProblems(pods) == UNION {DetectPod(p) : p \in Range(pods)}
WorkloadProblems(rows) == UNION {DetectWorkload(w, w.status) : w \in Range(rows)}
EventProblems(events) == UNION {DetectWarningEvent(e) : e \in Range(events)}

SortedProblems(set) == InOrderOf(set, compareProblems)

\* What is said of the problems, and the problems.
ProblemState(merged, covered, nodes) ==
    LET claimed == IF covered THEN merged ELSE noteError(merged, "FEATURE_UNAVAILABLE") IN
    FoldSet(LAMBDA code, b : noteError(b, code), [claimed EXCEPT !.complete = @ /\ nodes.complete], nodes.codes)

ProblemsOf(cluster, names, pods, events, workloads, nodes) ==
    copyBlockState(
        ProblemState(mergeBlockState(mergeBlockState(pods, events), workloads), cacheCovers(cluster.claims, names), nodes),
        SortedProblems(
            PodProblems(pods.value) \cup WorkloadProblems(workloads.value) \cup EventProblems(events.value)
            \cup UNION {DetectPVC(c) : c \in IndexedPVCs(cluster.claims)}
            \cup nodes.value))

\* DashboardBackend.Problems
Problems(cluster, names, faults) ==
    ProblemsOf(cluster, names, collectPods(cluster, names, faults), collectEvents(cluster, names, faults),
               ListAllWorkloads(cluster, names, faults), collectNodeProblems(cluster, faults))

\* The problems of one namespace by severity, and its restarts, as far as its own
\* collection was complete.
Diagnosed(ns, health, problems) ==
    LET count(s) == Len(SelectSeq(problems, LAMBDA p : p.ns = ns /\ p.severity = s)) IN
    [ns |-> ns, problems |-> [s \in DOMAIN severityRank |-> count(s)], complete |-> health.complete,
     restarts |-> IF health.complete THEN health.value[1].restarts ELSE -1, errors |-> health.errors]

\* Every namespace shown must be covered, and every topic of the local index.
WithRows(b, rows, indexed) ==
    [b EXCEPT !.complete = @ /\ indexed /\ \A r \in Range(rows) : r.complete,
              !.errors = @ \cup UNION {r.errors : r \in Range(rows)},
              !.value = rows]

\* The notes of Diagnostics: too many namespaces, the context ended, no version.
Noted(b, codes) == FoldSet(LAMBDA code, x : noteError(x, code), b, codes)

DiagnosticsOf(cluster, shown, faults, problems, codes) ==
    Noted(WithRows(problems,
                   [i \in DOMAIN shown |->
                       Diagnosed(shown[i], NamespaceHealth(cluster, <<shown[i]>>, faults), problems.value)],
                   cluster.indexed),
          codes)

\* DashboardBackend.Diagnostics: a namespace that is late when the context ends is
\* left out.
Diagnostics(cluster, names, faults) ==
    LET listed   == SubSeq(names, 1, Min({Len(names), MaxDiagnosed}))
        late(ns) == FaultsAt(faults, "diagnosis", ns, 0) # {}
        codes    == (IF Len(names) > MaxDiagnosed THEN {"FEATURE_UNAVAILABLE"} ELSE {})
                      \cup (IF \E ns \in Range(listed) : late(ns) THEN {"CLIENT_CANCELED"} ELSE {})
                      \cup (IF FaultsAt(faults, "version", NoNamespace, 0) # {} THEN {"CLUSTER_UNAVAILABLE"} ELSE {})
    IN  DiagnosticsOf(cluster, SelectSeq(listed, LAMBDA ns : ~late(ns)), faults, Problems(cluster, names, faults), codes)
=============================================================================
