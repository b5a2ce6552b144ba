-------------------------------- MODULE LogScan --------------------------------
(***************************************************************************)
(* The explicit log scan of the dashboard: DashboardBackend.ScanLogs with its  *)
(* registry (beginScan, finishScan, OnGeneration), the selection of targets,   *)
(* and LogService.Scan, whose workers share one budget of what may be read.    *)
(*                                                                          *)
(* The unit of a budget is a line; a line is the set of fields in which a      *)
(* keyword or level was met, and whether it begins or ends a private key.      *)
(***************************************************************************)
EXTENDS Blocks

CONSTANTS
    Requests,          \* the log scans that clients ask for
    Generations,       \* 1..n, one selection after the other
    ScopeOf,           \* the namespaces of each generation, in order
    MaxPods, MaxContainers,            \* of a scan
    Workers,           \* MaxConcurrentContainers
    ScanLines, ContainerLines, Buffer, \* MaxScanBytes, MaxContainerBytes, a read's size
    MaxMatches,        \* what capSerializedMatches lets through
    LogWindow,         \* the age of a termination that counts as recent
    MaxBreaks          \* bound: ended contexts, failed opens and broken streams of a scan

VARIABLES
    cluster,   \* what Kubernetes holds
    sel,       \* the generation whose hooks ran last, and the one published
    reg,       \* scanSequence, scanGeneration, scanCounter, scanCancel
    scan       \* the scan requests

scanVars == <<cluster, sel, reg, scan>>

-----------------------------------------------------------------------------
(* Lines *)

reasonRank == [PANIC |-> 0, OOM |-> 1, STACK_TRACE |-> 2, JSON_ERROR_LEVEL |-> 3,
               JSON_ERROR_FIELD |-> 4, ERROR_KEYWORD |-> 5]

fieldRank == [message |-> 0, msg |-> 1, error |-> 2, stack |-> 3, level |-> 4, severity |-> 5, text |-> 6]

\* What a field stands for: the first keyword of a text, or the field itself.
FieldReason(field, word) ==
    CASE field \in {"message", "msg", "text"} -> word
      [] field = "error" -> "JSON_ERROR_FIELD"
      [] field = "stack" -> "STACK_TRACE"
      [] OTHER -> "JSON_ERROR_LEVEL"

\* At most one match per line: the gravest reason, of the first field.
DetectLogLine(line) ==
    LET found == {[reason |-> FieldReason(h.field, h.word), field |-> h.field] : h \in line.hits}
        rank(c) == <<reasonRank[c.reason], fieldRank[c.field]>>
    IN  {c \in found : \A d \in found : ~LessThan(rank(d), rank(c))}

\* redactPrivateKeyLogLine carries the state of a key over the lines.
redactPrivateKeyLogLine(inside, line) ==
    LET private == inside \/ line.pem \in {"begin", "both"} IN
    [redacted |-> private, inside |-> private /\ line.pem \notin {"end", "both"}]

\* The matches of the lines that were read of a target.
MatchesOf(target, lines) ==
    FoldLeft(LAMBDA acc, i :
        LET key == redactPrivateKeyLogLine(acc.inside, lines[i])
            new == Listed({[ns |-> target.ns, pod |-> target.pod, container |-> target.container,
                              previous |-> target.previous, line |-> i, reason |-> c.reason,
                              redacted |-> key.redacted] : c \in DetectLogLine(lines[i])})
        IN  [matches |-> acc.matches \o new, inside |-> key.inside],
        [matches |-> <<>>, inside |-> FALSE], [i \in DOMAIN lines |-> i]).matches

\* What Kubernetes serves of a container's log.
LogOf(target) == cluster.logs[<<target.ns, target.pod, target.container, target.previous>>]

-----------------------------------------------------------------------------
(* Targets *)

recentlyTerminated(c) == c.finished # NoTime /\ Now - c.finished \in 0..LogWindow

\* The group a container belongs to, if any: named by the Pod's problem,
\* restarted, or ended within the window.
TargetsOf(pod, events) ==
    LET problems == ClassifyProblemPod(pod, events)
        named(c) == \E p \in problems : p.container = NoName \/ (p.container = c.name /\ p.rank = typeRank[c.type])
        group(c) == CASE named(c) -> 0 [] c.restarts > 0 -> 1 [] recentlyTerminated(c) -> 2 [] OTHER -> 99
    IN  {[ns |-> pod.ns, pod |-> pod.name, container |-> c.name, type |-> c.type, restarts |-> Max({c.restarts, 0}),
          priority |-> group(c), previous |-> c.last # "none" /\ (c.restarts > 0 \/ group(c) = 2)] :
             c \in {x \in Range(pod.containers) : group(x) # 99}}

lessLogTarget(a, b) ==
    LET key(t) == <<t.priority, -t.restarts, t.ns, t.pod, typeRank[t.type], t.container, IF t.previous THEN 1 ELSE 0>>
    IN  LessThan(key(a), key(b))

\* A Pod beyond the limit is passed over; the first container beyond it ends the list.
limitExplicitTargets(targets) ==
    FoldLeft(LAMBDA acc, t :
        LET pods == {<<x.ns, x.pod>> : x \in Range(acc.targets)} IN
        CASE acc.stop -> acc
          [] <<t.ns, t.pod>> \notin pods /\ Cardinality(pods) >= MaxPods -> [acc EXCEPT !.truncated = TRUE]
          [] Len(acc.targets) >= MaxContainers -> [acc EXCEPT !.truncated = TRUE, !.stop = TRUE]
          [] OTHER -> [acc EXCEPT !.targets = Append(@, t)],
        [targets |-> <<>>, truncated |-> FALSE, stop |-> FALSE], targets)

\* SelectLogTargets
SelectLogTargets(pods, events) ==
    limitExplicitTargets(InOrderOf(UNION {TargetsOf(p, events) : p \in Range(pods)}, lessLogTarget))

\* What a scan starts from: both lists, the targets chosen from them, and those
\* of them whose logs may be read.  The reviews stop when the context ends: upto
\* says after how many targets, code with what error.
CtxCode(ctx) == IF ctx = "canceled" THEN "CLIENT_CANCELED" ELSE "UPSTREAM_TIMEOUT"

TargetsReviewed(pods, events, chosen, faults, upto, code) ==
    LET denied(t) == FaultsAt(faults, "logs", t.ns, t.pod)
        looked == SubSeq(chosen.targets, 1, Min({upto, Len(chosen.targets)}))
        late   == IF Len(looked) = Len(chosen.targets) THEN {}
                  ELSE {[ns |-> chosen.targets[Len(looked) + 1].ns, code |-> code]}
    IN  [pods |-> copyBlockState(pods, <<>>), events |-> copyBlockState(events, <<>>), cut |-> chosen.truncated,
         namespaces |-> {t.ns : t \in Range(chosen.targets)},
         allowed |-> SelectSeq(looked, LAMBDA t : denied(t) = {}),
         refused |-> late \cup UNION {{[ns |-> t.ns, code |-> f.code] : f \in denied(t)} : t \in Range(looked)}]

TargetsChosen(pods, events, faults, upto, code) ==
    TargetsReviewed(pods, events, SelectLogTargets(pods.value, events.value), faults, upto, code)

Input(names, faults, upto, code) ==
    TargetsChosen(collectPods(cluster, names, faults), collectEvents(cluster, names, faults), faults, upto, code)

-----------------------------------------------------------------------------
(* The block a scan answers with *)

addUniqueBlockError(b, e) == addBlockError(b, e.ns, e.code)

containsNamespaceError(errors, ns) == \E e \in errors : e.ns \in {ns, NoNamespace}

capSerializedMatches(b) ==
    IF Len(b.value) <= MaxMatches THEN b ELSE Truncate([b EXCEPT !.value = SubSeq(@, 1, MaxMatches)])

\* A target that failed gives no match, one that was cut gives what was read.
AddResult(b, target, t) ==
    CASE t.res \notin {"ok", "truncated"} -> addBlockError(b, target.ns, t.res)
      [] t.res = "truncated" -> Truncate([b EXCEPT !.value = @ \o MatchesOf(target, SubSeq(LogOf(target), 1, t.kept))])
      [] OTHER -> [b EXCEPT !.value = @ \o MatchesOf(target, SubSeq(LogOf(target), 1, t.kept))]

\* LogService.Scan after its workers; over is what the reading context ended with.
ScanBlock(in, targets, taken, exhausted, over) ==
    LET start    == FoldSet(LAMBDA e, b : addUniqueBlockError(b, e),
                            [blockWithValue(<<>>) EXCEPT !.requested = Cardinality(in.namespaces)], in.refused)
        read     == FoldLeft(LAMBDA b, i : AddResult(b, in.allowed[i], targets[i]), start, [i \in 1..taken |-> i])
        missing  == taken < Len(in.allowed)
        ended    == IF missing /\ over # "live" THEN addBlockError(read, NoNamespace, CtxCode(over)) ELSE read
        cut      == IF exhausted \/ (missing /\ over = "live") THEN Truncate(ended) ELSE ended
        whole(ns) == LET mine == {i \in DOMAIN in.allowed : in.allowed[i].ns = ns} IN
                     mine # {} /\ \A i \in mine : i <= taken /\ targets[i].res = "ok"
        done     == {ns \in in.namespaces : whole(ns) /\ ~containsNamespaceError(cut.errors, ns)}
    IN  capSerializedMatches([cut EXCEPT !.completed = Cardinality(done)])

\* The two lists count as well as the logs, and targets left out.
mergeScanInputs(b, in, requested) ==
    LET logComplete == Max({0, requested - b.requested + b.completed})
        merged == mergeBlockState(mergeBlockState(b, in.pods), in.events)
        result == [merged EXCEPT !.requested = requested,
                     !.completed = Min({in.pods.completed, in.events.completed, logComplete}),
                     !.denied = b.denied \cup in.pods.denied \cup in.events.denied,
                     !.failed = b.failed \cup in.pods.failed \cup in.events.failed]
    IN  IF in.cut THEN Truncate(result) ELSE result

-----------------------------------------------------------------------------
(* The registry *)

NoScan == [stage |-> "none"]

Running(r) == scan[r].stage \in {"collecting", "reading", "finishing"}

ScanInit ==
    /\ sel = [rotated |-> 1, published |-> 1]
    /\ reg = [seq |-> 0, gen |-> 1, counter |-> EmptyCounter("not_collected"), canceller |-> FALSE]
    /\ scan = [r \in Requests |-> NoScan]

\* Cancelling ends what runs under the last sequence, unless its context is over.
CanceledAt(s, seq) ==
    IF s.stage \in {"collecting", "reading", "finishing"} /\ s.seq = seq /\ s.ctx \in {"live", "readDeadline"}
    THEN [s EXCEPT !.ctx = "canceled"] ELSE s

ScansCanceled == IF reg.canceller THEN [r \in Requests |-> CanceledAt(scan[r], reg.seq)] ELSE scan

\* OnGeneration, which runs before the selection is published.
ScanOnGeneration(next) ==
    /\ sel.rotated < next
    /\ sel' = [sel EXCEPT !.rotated = next]
    /\ scan' = ScansCanceled
    /\ reg' = [seq |-> reg.seq + 1, gen |-> next, counter |-> EmptyCounter("not_collected"), canceller |-> FALSE]
    /\ UNCHANGED cluster

SelectionPublished ==
    /\ sel.published # sel.rotated
    /\ sel' = [sel EXCEPT !.published = sel.rotated]
    /\ UNCHANGED <<cluster, reg, scan>>

\* The handler reads the active selection before anything else.  cluster.clients
\* bounds the scans asked for.
ScanArrives(r) ==
    /\ scan[r].stage = "none"
    /\ Cardinality({q \in Requests : scan[q].stage # "none"}) < cluster.clients
    /\ scan' = [scan EXCEPT ![r] = [stage |-> "arrived", gen |-> sel.published]]
    /\ UNCHANGED <<cluster, sel, reg>>

\* beginScan: the scan that runs, of whatever generation, is cancelled.
beginScan(r) ==
    /\ scan[r].stage = "arrived"
    /\ scan' = [ScansCanceled EXCEPT ![r] =
                   [stage |-> "collecting", gen |-> scan[r].gen, seq |-> reg.seq + 1, ctx |-> "live", breaks |-> 0]]
    /\ reg' = [seq |-> reg.seq + 1, gen |-> scan[r].gen, counter |-> EmptyCounter("collecting"), canceller |-> TRUE]
    /\ UNCHANGED <<cluster, sel>>

\* An ended context fails every read, or the reviews after some of the targets.
EndedReads(ctx) == {[src |-> s, ns |-> NoNamespace, page |-> 0, code |-> CtxCode(ctx), ends |-> TRUE] : s \in {"pods", "events"}}

ReadingStarts(s, in) ==
    [stage |-> "reading", gen |-> s.gen, seq |-> s.seq, ctx |-> s.ctx, breaks |-> s.breaks, input |-> in,
     targets |-> [i \in DOMAIN in.allowed |-> [st |-> "queued", read |-> 0, held |-> 0, kept |-> 0, res |-> "none"]],
     next |-> 1, stopped |-> FALSE, remaining |-> ScanLines, inFlight |-> 0, exhausted |-> FALSE]

ScanCollects(r, faults, upto) ==
    LET s == scan[r]
        f == IF s.ctx # "live" /\ upto = 0 THEN EndedReads(s.ctx) ELSE faults
    IN  /\ s.stage = "collecting"
        /\ s.ctx = "live" <=> upto = MaxContainers
        /\ scan' = [scan EXCEPT ![r] = ReadingStarts(s, Input(ScopeOf[s.gen], f, upto, CtxCode(s.ctx)))]
        /\ UNCHANGED <<cluster, sel, reg>>

\* The client leaves, or one of the two deadlines passes.
ContextEnds(r, how) ==
    /\ Running(r) /\ scan[r].ctx \in {"live", "readDeadline"}
    /\ how = "readDeadline" => scan[r].ctx = "live" /\ scan[r].stage = "reading"
    /\ scan[r].breaks < MaxBreaks
    /\ scan' = [scan EXCEPT ![r].ctx = how, ![r].breaks = @ + 1]
    /\ UNCHANGED <<cluster, sel, reg>>

-----------------------------------------------------------------------------
(* The readers of one scan *)

BreakCode(ctx) == IF ctx = "live" THEN "CLUSTER_UNAVAILABLE" ELSE CtxCode(ctx)

Reading(r) == scan[r].stage = "reading"

Active(s) == {i \in DOMAIN s.targets : s.targets[i].st \in {"open", "held"}}

\* The next target goes to a free worker, which opens its log or fails to.
TakeTarget(r, fails) ==
    LET s == scan[r] IN
    /\ Reading(r) /\ ~s.stopped
    /\ s.next <= Len(s.targets) /\ Cardinality(Active(s)) < Workers
    /\ fails => s.breaks < MaxBreaks \/ s.ctx # "live"
    /\ LET res == CASE s.exhausted -> "truncated" [] fails -> BreakCode(s.ctx) [] OTHER -> "none" IN
       scan' = [scan EXCEPT ![r].next = @ + 1,
                            ![r].breaks = IF fails /\ s.ctx = "live" THEN @ + 1 ELSE @,
                            ![r].targets[s.next].st = IF res = "none" THEN "open" ELSE "done",
                            ![r].targets[s.next].res = res]
    /\ UNCHANGED <<cluster, sel, reg>>

\* Workers and dispatcher leave when the context ends or the budget is spent.
StopTaking(r) ==
    /\ Reading(r) /\ ~scan[r].stopped
    /\ scan[r].ctx # "live" \/ scan[r].exhausted
    /\ scan' = [scan EXCEPT ![r].stopped = TRUE]
    /\ UNCHANGED <<cluster, sel, reg>>

\* What a read may take: reserved before the log is touched.
Reserved(s, i) == Min({Buffer, s.remaining, ContainerLines - s.targets[i].read})

\* logScanByteBudget.reserve: with nothing left it waits for what is in flight.
Reserve(r, i) ==
    LET s == scan[r] IN
    /\ Reading(r) /\ i \in DOMAIN s.targets /\ s.targets[i].st = "open"
    /\ \/ /\ s.ctx # "live"
          /\ scan' = [scan EXCEPT ![r].targets[i].st = "done", ![r].targets[i].res = CtxCode(s.ctx)]
       \/ /\ s.exhausted
          /\ scan' = [scan EXCEPT ![r].targets[i].st = "done", ![r].targets[i].res = "truncated"]
       \/ /\ ~s.exhausted /\ s.remaining > 0
          /\ scan' = [scan EXCEPT ![r].remaining = @ - Reserved(s, i), ![r].inFlight = @ + Reserved(s, i),
                                  ![r].targets[i].st = "held", ![r].targets[i].held = Reserved(s, i)]
    /\ UNCHANGED <<cluster, sel, reg>>

\* complete: what was not read goes back; nothing left and nothing in flight
\* ends the scan.
complete(s, i, n) ==
    LET left == s.remaining + s.targets[i].held - n
        fly  == s.inFlight - s.targets[i].held
    IN  [s EXCEPT !.remaining = left, !.inFlight = fly, !.exhausted = @ \/ (left = 0 /\ fly = 0)]

\* One read of n lines.  At the container's limit only the first line of the
\* last read is kept.
Reads(r, i, n) ==
    LET s    == scan[r]
        t    == s.targets[i]
        left == Len(LogOf(s.input.allowed[i])) - t.read
        next == complete(s, i, n)
        full == t.read + n = ContainerLines
    IN  /\ Reading(r) /\ i \in DOMAIN s.targets /\ t.st = "held"
        /\ n \in 1..Min({t.held, left})
        /\ scan' = [scan EXCEPT ![r] = [next EXCEPT !.targets[i] =
                       [st   |-> IF full \/ next.exhausted THEN "done" ELSE "open",
                        read |-> t.read + n, held |-> 0,
                        kept |-> IF full THEN t.read + 1 ELSE t.read + n,
                        res  |-> IF full \/ next.exhausted THEN "truncated" ELSE "none"]]]
        /\ UNCHANGED <<cluster, sel, reg>>

\* The log ends, or its stream breaks.
ReadsLast(r, i, breaks) ==
    LET s == scan[r]
        t == s.targets[i]
        left == Len(LogOf(s.input.allowed[i])) - t.read
    IN  /\ Reading(r) /\ i \in DOMAIN s.targets /\ t.st = "held"
        /\ breaks \/ left = 0
        /\ breaks => s.breaks < MaxBreaks \/ s.ctx # "live"
        /\ scan' = [scan EXCEPT ![r] = [complete(s, i, 0) EXCEPT
                       !.breaks = IF breaks /\ s.ctx = "live" THEN @ + 1 ELSE @,
                       !.targets[i] =
                       [t EXCEPT !.st = "done", !.held = 0,
                                 !.res = IF breaks THEN BreakCode(s.ctx) ELSE "ok"]]]
        /\ UNCHANGED <<cluster, sel, reg>>

\* All readers are back: the block is made.
ReadsEnd(r) ==
    LET s  == scan[r]
        in == s.input
        b  == mergeScanInputs(ScanBlock(in, s.targets, s.next - 1, s.exhausted, s.ctx), in, Len(ScopeOf[s.gen]))
    IN  /\ Reading(r) /\ Active(s) = {}
        /\ s.stopped \/ s.next > Len(s.targets)
        /\ scan' = [scan EXCEPT ![r] = [stage |-> "finishing", gen |-> s.gen, seq |-> s.seq,
                                        ctx |-> IF s.ctx = "readDeadline" THEN "live" ELSE s.ctx,
                                        breaks |-> s.breaks, block |-> b]]
        /\ UNCHANGED <<cluster, sel, reg>>

-----------------------------------------------------------------------------
(* The end of a scan *)

CounterOf(s) ==
    CASE s.ctx = "canceled" -> EmptyCounter("not_collected")
      [] s.ctx = "deadline" -> EmptyCounter("unavailable")
      [] OTHER -> counterForBlock(Len(s.block.value), s.block)

\* Any scan that ends says what it found.
finishAlways(s) == [reg EXCEPT !.canceller = FALSE, !.counter = CounterOf(s)]

\* finishScan: only the scan that is still registered does.
finishScan(s) ==
    IF s.seq = reg.seq /\ s.gen = reg.gen THEN [reg EXCEPT !.canceller = FALSE, !.counter = CounterOf(s)] ELSE reg

ScanFinishes(r) ==
    /\ scan[r].stage = "finishing"
    /\ reg' = finishScan(scan[r])
    /\ scan' = [scan EXCEPT ![r] = [stage |-> "writing", gen |-> @.gen, block |-> @.block]]
    /\ UNCHANGED <<cluster, sel>>

currentLogCounter(gen) == IF gen = reg.gen THEN reg.counter ELSE EmptyCounter("not_collected")

\* writeResult: the answer is of the selection that is current when it is written.
totalDashboardFailure(b, hasValue) ==
    b.errors # {} /\ ~hasValue /\ b.completed = 0

Reply(gen, b, hasValue) ==
    CASE gen # sel.published -> [status |-> "GENERATION_CHANGED", block |-> blockWithValue(<<>>)]
      [] totalDashboardFailure(b, hasValue) -> [status |-> "FAILED", block |-> blockWithValue(<<>>)]
      [] OTHER -> [status |-> "OK", block |-> b]

ScanWrites(r) ==
    /\ scan[r].stage = "writing"
    /\ scan' = [scan EXCEPT ![r] = [stage |-> "done", gen |-> @.gen,
                                    reply |-> Reply(@.gen, @.block, @.block.value # <<>>)]]
    /\ UNCHANGED <<cluster, sel, reg>>

ScanStep(Faults) ==
    \/ \E next \in Generations : ScanOnGeneration(next)
    \/ SelectionPublished
    \/ \E r \in Requests :
         \/ ScanArrives(r) \/ beginScan(r) \/ StopTaking(r) \/ ReadsEnd(r) \/ ScanFinishes(r) \/ ScanWrites(r)
         \/ \E f \in Faults, upto \in 0..MaxContainers : ScanCollects(r, f, upto)
         \/ \E how \in {"canceled", "deadline", "readDeadline"} : ContextEnds(r, how)
         \/ \E b \in BOOLEAN : TakeTarget(r, b)
         \/ \E i \in 1..MaxContainers : Reserve(r, i) \/ (\E n \in 1..Buffer : Reads(r, i, n)) \/ (\E b \in BOOLEAN : ReadsLast(r, i, b))
=============================================================================
