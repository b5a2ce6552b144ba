--------------------------------- MODULE Health ---------------------------------
(***************************************************************************)
(* What the dashboard says about one observed object: the classification of   *)
(* Pods, containers, workloads and events (internal/services/dashboard and    *)
(* internal/problems), and the orders in which the rows are shown.            *)
(*                                                                          *)
(* Names and namespaces are numbers, in the order of the strings; times are   *)
(* minutes, and 0 is the zero time.  Messages are left out, except for the    *)
(* prefix that tells a failed probe.                                         *)
(***************************************************************************)
EXTENDS Integers, Sequences, FiniteSets, SequencesExt, FiniteSetsExt

CONSTANTS
    Now,           \* clock.Now()
    TopRanks       \* the rows of a metrics ranking

NoName == 0
NoTime == 0

\* Lexicographic order on sequences of numbers.
LessThan(a, b) == \E i \in 1..Len(a) : a[i] < b[i] /\ \A j \in 1..(i - 1) : a[j] = b[j]

\* The elements of a set, one after the other, and in a given order.
Listed(S) == FoldSet(LAMBDA x, acc : Append(acc, x), <<>>, S)
InOrderOf(S, Before(_, _)) == SortSeq(Listed(S), Before)

SumOver(s, Value(_)) == FoldSeq(LAMBDA x, acc : acc + Value(x), 0, s)

-----------------------------------------------------------------------------
(* Containers and restarts *)

RestartSeverityFor(n) ==
    CASE n <= 0 -> "healthy" [] n <= 2 -> "attention" [] n <= 9 -> "warning" [] OTHER -> "critical"

typeRank == [regular |-> 0, init |-> 1, ephemeral |-> 2]

\* What containerStatus shows: the state, and why the container last ended.
containerStatus(c) ==
    [now  |-> c.state,
     last |-> IF c.last # "none" THEN c.last ELSE IF c.finished # NoTime THEN c.state ELSE "none"]

RestartRow(pod, c) ==
    [ns |-> pod.ns, pod |-> pod.name, container |-> c.name, type |-> c.type, restarts |-> c.restarts,
     severity |-> RestartSeverityFor(c.restarts), status |-> containerStatus(c)]

RestartKey(r) == <<-r.restarts, r.ns, r.pod, typeRank[r.type], r.container>>

SortRestarts(rows) == SortSeq(rows, LAMBDA a, b : LessThan(RestartKey(a), RestartKey(b)))

\* The containers of a pod that were ever restarted.
PodRestarts(pod) ==
    LET restarted == SelectSeq(pod.containers, LAMBDA c : c.restarts > 0) IN
    SortRestarts([i \in DOMAIN restarted |-> RestartRow(pod, restarted[i])])

RestartsOf(pod) == SumOver(pod.containers, LAMBDA c : Max({c.restarts, 0}))

-----------------------------------------------------------------------------
(* Events *)

microTime(e) == e.eventTime
coreSeriesTime(e) == IF e.series THEN e.seriesTime ELSE NoTime

firstEventTime(times) ==
    LET known == {i \in DOMAIN times : times[i] # NoTime} IN
    IF known = {} THEN NoTime ELSE times[Min(known)]

\* The observation time and the count come from the series, if the event has one.
NormalizeCoreEvent(e) ==
    [uid |-> e.uid, ns |-> e.ns, kind |-> e.kind, name |-> e.name, ruid |-> e.ruid, type |-> e.type,
     reason |-> e.reason, probe |-> e.probe,
     count |-> Max({0, IF e.series THEN e.seriesCount ELSE e.count}),
     at |-> firstEventTime(<<microTime(e), coreSeriesTime(e), e.last, e.created>>)]

normalizeEventType(t) == IF t \in {"Normal", "Warning"} THEN t ELSE "Unknown"

EventGroupKey(e) == [ns |-> e.ns, kind |-> e.kind, name |-> e.name, ruid |-> e.ruid,
                     type |-> normalizeEventType(e.type), reason |-> e.reason, probe |-> e.probe]

\* The rows of one group are counted together and dated by the latest.
EventRow(key, group) ==
    LET latest == Max({e.at : e \in group}) IN
    [key |-> key, at |-> latest,
     uid |-> IF latest = NoTime THEN NoName ELSE Min({e.uid : e \in {x \in group : x.at = latest}}),
     count |-> MapThenSumSet(LAMBDA e : e.count, group)]

\* groupEvents: the complete identity, the newest first.
GroupEvents(events, warningsOnly) ==
    LET shown == {e \in Range(events) : warningsOnly => normalizeEventType(e.type) = "Warning"}
        keys  == {EventGroupKey(e) : e \in shown}
        rows  == {EventRow(k, {e \in shown : EventGroupKey(e) = k}) : k \in keys}
    IN  InOrderOf(rows, LAMBDA a, b : LessThan(<<-a.at, a.key.ns, a.uid>>, <<-b.at, b.key.ns, b.uid>>))

eventOccurrenceCount(rows) == SumOver(rows, LAMBDA r : r.count)

newerEvent(a, b) == LessThan(<<-a.at, -a.count, a.uid>>, <<-b.at, -b.count, b.uid>>)

-----------------------------------------------------------------------------
(* Pods: ClassifyProblemPod *)

Candidate(severity, priority, c, source, order) ==
    [severity |-> severity, priority |-> priority, source |-> source, order |-> order,
     container |-> c.name, rank |-> IF c.name = NoName THEN 99 ELSE typeRank[c.type]]

NoContainer == [name |-> NoName, type |-> "regular"]

podAgeAtLeast(pod, minutes) == pod.created # NoTime /\ Now - pod.created >= minutes

waitingProblem(reason) ==
    CASE reason \in {"CrashLoopBackOff", "CreateContainerConfigError", "RunContainerError"} -> <<3, "critical">>
      [] reason \in {"ImagePullBackOff", "ErrImagePull"} -> <<5, "warning">>
      [] OTHER -> <<>>

containerProblems(pod, c) ==
    LET waiting == waitingProblem(c.state) IN
    {Candidate("critical", 2, c, "containerTerminated", i) :
        i \in {x \in {0, 1} : (IF x = 0 THEN c.state ELSE c.last) = "OOMKilled"}}
    \cup (IF waiting = <<>> THEN {} ELSE {Candidate(waiting[2], waiting[1], c, "containerWaiting", 0)})
    \cup (IF pod.phase = "Running" /\ ~c.ready /\ podAgeAtLeast(pod, 2)
          THEN {Candidate("warning", 9, c, "containerStatus", 0)} ELSE {})

eventPriority(e) ==
    CASE e.reason = "Unhealthy" /\ e.probe = "liveness" -> 4
      [] e.reason = "FailedScheduling" -> 7
      [] e.reason = "Unhealthy" /\ e.probe = "readiness" -> 8
      [] OTHER -> 0

\* An event counts for the Pod with its UID, not for a later Pod of the name.
AboutPod(e, pod) == /\ normalizeEventType(e.type) = "Warning" /\ e.kind = "Pod"
                    /\ e.ns = pod.ns /\ e.name = pod.name /\ e.ruid = pod.uid /\ pod.uid # NoName
                    /\ e.at # NoTime /\ Now - e.at \in -1..15

\* The newest of each kind is enough.
matchingProblemEvents(pod, events) ==
    LET about == {e \in Range(events) : AboutPod(e, pod) /\ eventPriority(e) > 0} IN
    {Candidate(IF eventPriority(e) = 4 THEN "critical" ELSE "warning", eventPriority(e), NoContainer, "event", 0) :
        e \in {x \in about : \A y \in about : eventPriority(y) = eventPriority(x) => ~newerEvent(y, x)}}

lessProblemCandidate(a, b) ==
    LET rank(c) == <<IF c.severity = "critical" THEN 0 ELSE 1, c.priority, c.rank, c.container, c.order>>
    IN  LessThan(rank(a), rank(b))

Candidates(pod, events) ==
    (IF pod.phase = "Failed" \/ pod.evicted THEN {Candidate("critical", 1, NoContainer, "podStatus", 0)} ELSE {})
    \cup UNION {containerProblems(pod, c) : c \in Range(pod.containers)}
    \cup (IF pod.unschedulable THEN {Candidate("warning", 6, NoContainer, "condition", 0)} ELSE {})
    \cup matchingProblemEvents(pod, events)
    \cup (IF pod.phase = "Pending" /\ podAgeAtLeast(pod, 5) THEN {Candidate("warning", 10, NoContainer, "podStatus", 0)} ELSE {})

\* The one problem shown for a Pod, or none.
ClassifyProblemPod(pod, events) ==
    LET all == Candidates(pod, events) IN
    {c \in all : \A d \in all : ~lessProblemCandidate(d, c)}

Problematic(pod, events) == ClassifyProblemPod(pod, events) # {}

\* Absence of a problem is not health.
podIsPositivelyHealthy(pod) ==
    LET regular == {c \in Range(pod.containers) : c.type = "regular"} IN
    /\ pod.phase = "Running" /\ pod.ready = "True"
    /\ regular # {} /\ \A c \in regular : c.ready /\ c.state = "Running"

PodOverview(pods, events) ==
    LET bad == {i \in DOMAIN pods : Problematic(pods[i], events)} IN
    [total |-> Len(pods), problematic |-> Cardinality(bad),
     healthy |-> Cardinality({i \in DOMAIN pods \ bad : podIsPositivelyHealthy(pods[i])}),
     restarts |-> SumOver(pods, RestartsOf)]

-----------------------------------------------------------------------------
(* The problem detectors behind the problem list *)

Problem(kind, ns, name, container, severity, reason, source) ==
    [kind |-> kind, ns |-> ns, name |-> name, container |-> container, severity |-> severity,
     reason |-> reason, source |-> source, of |-> NoName]

detectContainer(pod, c) ==
    LET row(severity, reason, source) == Problem("Pod", pod.ns, pod.name, c.name, severity, reason, source) IN
    (IF c.state \in {"CrashLoopBackOff", "ImagePullBackOff", "ErrImagePull"} THEN {row("critical", c.state, "containerWaiting")} ELSE {})
    \cup (IF c.state = "CreateContainerConfigError" THEN {row("warning", c.state, "containerWaiting")} ELSE {})
    \cup (IF "OOMKilled" \in {c.state, c.last} THEN {row("critical", "OOMKilled", "containerTerminated")} ELSE {})
    \cup (IF c.restarts >= 5 THEN {row("warning", "HighRestarts", "containerStatus")}
          ELSE IF c.restarts > 0 THEN {row("info", "RecentRestart", "containerStatus")} ELSE {})

DetectPod(pod) ==
    (IF pod.phase = "Pending" THEN {Problem("Pod", pod.ns, pod.name, NoName, "warning", "Pending", "podStatus")} ELSE {})
    \cup UNION {detectContainer(pod, c) : c \in Range(pod.containers)}
    \cup (IF pod.probe THEN {Problem("Pod", pod.ns, pod.name, NoName, "warning", "ProbeFailed", "condition")} ELSE {})

DetectWorkload(w, status) ==
    LET row(severity, reason) == {Problem(w.kind, w.ns, w.name, NoName, severity, reason, "workloadStatus")} IN
    CASE status = "Failed" -> row("critical", "JobFailed")
      [] status = "Degraded" -> row("critical", "ReplicasUnavailable")
      [] status = "Progressing" -> row("info", "RolloutProgressing")
      [] OTHER -> {}

DetectPVC(pvc) == IF pvc.pending THEN {Problem("PersistentVolumeClaim", pvc.ns, pvc.name, NoName, "critical", "PVCPending", "pvcStatus")} ELSE {}

DetectNode(node) == IF node.ready = "True" THEN {} ELSE {Problem("Node", 0, node.name, NoName, "critical", "NodeNotReady", "nodeCondition")}

\* One row per event object.
DetectWarningEvent(e) ==
    IF normalizeEventType(e.type) # "Warning" \/ e.name = NoName THEN {}
    ELSE {[Problem(e.kind, e.ns, e.name, NoName, "warning", IF e.reason = "Unhealthy" THEN "ProbeFailed" ELSE e.reason, "event")
           EXCEPT !.of = e.uid]}

severityRank == [critical |-> 0, warning |-> 1, info |-> 2]
kindRank == [CronJob |-> 1, DaemonSet |-> 2, Deployment |-> 3, Job |-> 4, Node |-> 5,
             PersistentVolumeClaim |-> 6, Pod |-> 7, StatefulSet |-> 8]

\* compareProblems: by severity, then by what the problem is about.
compareProblems(a, b) ==
    LET key(p) == <<severityRank[p.severity], p.ns, kindRank[p.kind], p.name, p.container>>
    IN  LessThan(key(a), key(b))

problemCursorIdentity(p) == <<p.ns, p.kind, p.name, p.container, p.source>>

-----------------------------------------------------------------------------
(* Workloads *)

observedCurrent(w) == w.generation > 0 /\ w.observed > 0 /\ w.observed >= w.generation

ClassifyDeployment(w) ==
    CASE ~observedCurrent(w) -> "Unknown"
      [] w.deadline \/ w.available < w.desired -> "Degraded"
      [] w.updated < w.desired \/ w.ready < w.desired -> "Progressing"
      [] w.ready = w.desired /\ w.available = w.desired /\ w.updated = w.desired -> "Healthy"
      [] OTHER -> "Unknown"

ClassifyStatefulSet(w) ==
    CASE ~w.collected \/ ~observedCurrent(w) -> "Unknown"
      [] w.ready < w.desired -> "Degraded"
      [] w.updated < w.desired -> "Progressing"
      [] OTHER -> "Healthy"

ClassifyDaemonSet(w) ==
    CASE ~observedCurrent(w) -> "Unknown"
      [] w.desired > w.available \/ w.ready < w.desired -> "Degraded"
      [] w.updated < w.desired -> "Progressing"
      [] OTHER -> "Healthy"

ClassifyJob(w) ==
    CASE w.failedCondition \/ w.failed > 0 -> "Failed"
      [] w.suspended -> "Suspended"
      [] w.active > 0 -> "Progressing"
      [] w.completeCondition \/ w.succeeded >= w.desired -> "Completed"
      [] OTHER -> "Unknown"

jobTime(j) == IF j.ended # NoTime THEN j.ended ELSE j.created

\* The newest Job a CronJob owns; of two, the one with the smaller name.
latestOwnedJob(cron, jobs) ==
    LET owned == {j \in Range(jobs) : j.ns = cron.ns /\ cron.uid # NoName /\ j.owner = cron.uid}
    IN  {j \in owned : \A k \in owned : ~LessThan(<<-jobTime(k), k.name>>, <<-jobTime(j), j.name>>)}

ClassifyCronJob(w, jobs) ==
    LET failed == {j \in latestOwnedJob(w, jobs) : j.failedCondition /\ jobTime(j) # NoTime /\ Now - jobTime(j) <= 24 * 60} IN
    CASE failed # {} -> "Failed"
      [] w.suspended -> "Suspended"
      [] w.active > 0 -> "Progressing"
      [] w.scheduled # NoTime -> "Healthy"
      [] OTHER -> "Unknown"

workloadKinds == <<"Deployment", "StatefulSet", "DaemonSet", "Job", "CronJob">>

Classify(w, jobs) ==
    CASE w.kind = "Deployment" -> ClassifyDeployment(w)
      [] w.kind = "StatefulSet" -> ClassifyStatefulSet(w)
      [] w.kind = "DaemonSet" -> ClassifyDaemonSet(w)
      [] w.kind = "Job" -> ClassifyJob(w)
      [] OTHER -> ClassifyCronJob(w, jobs)

Down(status) == status \in {"Degraded", "Failed"}

-----------------------------------------------------------------------------
(* Metrics: buildMetrics and its rankings *)

PodUsage(m) ==
    [ns |-> m.ns, pod |-> m.pod, cpu |-> SumOver(m.containers, LAMBDA c : c.cpu),
     memory |-> SumOver(m.containers, LAMBDA c : c.memory)]

ByUsage(rows, Value(_)) ==
    SortSeq(rows, LAMBDA a, b : LessThan(<<-Value(a), a.ns, a.pod>>, <<-Value(b), b.ns, b.pod>>))

\* rebuildMetricRanks: the rankings are those of the Pods shown.
rebuildMetricRanks(rows) ==
    LET top(s) == SubSeq(s, 1, Min({Len(s), TopRanks})) IN
    [cpu |-> top(ByUsage(rows, LAMBDA r : r.cpu)), memory |-> top(ByUsage(rows, LAMBDA r : r.memory))]

\* No sample, or an unusable one, makes the whole block unusable.
invalidMetrics(samples, window) ==
    \/ \E m \in Range(samples) : m.window <= 0 \/ \E c \in Range(m.containers) : c.cpu < 0 \/ c.memory < 0
    \/ samples = <<>> /\ window = 0

buildMetrics(samples) ==
    ByUsage([i \in DOMAIN samples |-> PodUsage(samples[i])], LAMBDA r : 0)
=============================================================================
