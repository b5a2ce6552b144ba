------------------------------- MODULE Actions -------------------------------
(***************************************************************************)
(* Cluster mutations: internal/services/actions/service.go (guarded and    *)
(* its operation registry, the generation hook, shutdown) and              *)
(* idempotency.go (the registry of restarts).                              *)
(*                                                                         *)
(* A request is one call of a mutation, of one object that others change   *)
(* too.  Its body names the version of the object that its user saw.  An   *)
(* entry of the registry is named by the request that executes it.         *)
(* Generations are numbered in the order they are published.               *)
(***************************************************************************)
EXTENDS Naturals, FiniteSets

CONSTANTS
    Requests, IKeys, NoOne,
    Kinds,        \* the kinds the object may have
    Calls,        \* the calls the requests may make together
    MaxUpsets,    \* bound: generations published and changes of the object by others
    MaxEntries,   \* maximumIdempotencyEntries
    TTLElapses    \* whether idempotency entries grow old

MutationKinds == {"restart", "scale", "delete", "suspend", "trigger"}

\* Of a mutation that is not a restart, the service uses no key.
Call == [op : MutationKinds, key : IKeys, body : Nat]

\* The kinds each mutation is for.
restartableWorkloadKinds == {"Deployment", "StatefulSet", "DaemonSet"}
scalableWorkloadKinds == {"Deployment", "StatefulSet"}
deletableWorkloadKinds == {"Deployment", "StatefulSet", "DaemonSet", "Job", "CronJob", "ReplicaSet"}
deletablePods == {"Pod"}
cronJobKinds == {"CronJob"}

KindsFor(op) ==
    CASE op = "restart" -> restartableWorkloadKinds
      [] op = "scale" -> scalableWorkloadKinds
      [] op = "delete" -> deletableWorkloadKinds \cup deletablePods
      [] OTHER -> cronJobKinds

ASSUME ActionsAssumption ==
    /\ NoOne \notin Requests
    /\ Calls \subseteq [Requests -> Call]
    /\ MaxEntries \in Nat /\ MaxUpsets \in Nat
    /\ TTLElapses \in BOOLEAN

VARIABLES
    gen,        \* the published generation
    hook,       \* the selection coordinator's hook: its step, its cancels, its last end
    operations, \* Service.operations
    down,       \* Service.shutdown, Shutdown's cancels, and its end
    entries,    \* idempotencyRegistry.entries: the executing request of each key
    elapsed,    \* the keys whose terminal entry outlived the TTL
    released,   \* history: the requests whose entry left the registry
    req,        \* the requests
    object      \* the object in Kubernetes, and how often others changed it

vars == <<gen, hook, operations, down, entries, elapsed, released, req, object>>

Outcomes == {"ok", "failed", "canceled", "changed", "shutdown", "refused", "conflict", "limit", "invalid"}

\* left: the HTTP request's context is done.  stop: the service cancelled the
\* operation.  sent: the mutation left for Kubernetes; served: what it did with it.
Request ==
    [pc : {"idle", "do", "waiting", "review", "callback", "check", "sending", "sent",
           "after", "finish", "done"},
     op : MutationKinds, key : IKeys, body : Nat, gen : Nat,
     on : Requests \cup {NoOne}, left : BOOLEAN, stop : BOOLEAN, sent : BOOLEAN,
     served : {"no", "applied", "refused"}, outcome : Outcomes \cup {"none"}]

TypeOK ==
    /\ gen \in Nat
    /\ hook \in [step : {"idle", "collect", "cancel"}, cancels : SUBSET Requests, ended : Nat]
    /\ operations \subseteq Requests
    /\ down \in [flag : BOOLEAN, cancels : SUBSET Requests, ended : BOOLEAN]
    /\ entries \in [IKeys -> Requests \cup {NoOne}]
    /\ elapsed \subseteq IKeys
    /\ released \subseteq Requests
    /\ req \in [Requests -> Request]
    /\ object \in [kind : Kinds, version : Nat, exists : BOOLEAN, changes : Nat]

Init ==
    /\ gen = 0
    /\ hook = [step |-> "idle", cancels |-> {}, ended |-> 0]
    /\ operations = {}
    /\ down = [flag |-> FALSE, cancels |-> {}, ended |-> FALSE]
    /\ entries = [k \in IKeys |-> NoOne]
    /\ elapsed = {}
    /\ released = {}
    /\ \E call \in Calls :
        req = [r \in Requests |->
              [pc |-> "idle", op |-> call[r].op, key |-> call[r].key, body |-> call[r].body,
               gen |-> 0, on |-> NoOne, left |-> FALSE, stop |-> FALSE, sent |-> FALSE,
               served |-> "no", outcome |-> "none"]]
    /\ \E k \in Kinds : object = [kind |-> k, version |-> 1, exists |-> TRUE, changes |-> 0]

Set(r, record) == req' = [req EXCEPT ![r] = record]

Goto(r, pc) == Set(r, [req[r] EXCEPT !.pc = pc])

\* The call returns; its contexts are gone.
Answers(r, outcome) ==
    Set(r, [req[r] EXCEPT !.outcome = outcome, !.pc = "done", !.left = FALSE, !.stop = FALSE])

\* guarded returns, in an executing restart to Do's deferred function.
Ends(r, outcome) ==
    IF req[r].op # "restart" THEN Answers(r, outcome)
    ELSE Set(r, [req[r] EXCEPT !.outcome = outcome, !.pc = "finish"])

\* The operation's context is the request's, with the registry's cancel.
Cancelled(r) == req[r].left \/ req[r].stop

-----------------------------------------------------------------------------
(* Restart, Scale, ...: requireCurrent, then Do or the guard *)

\* The user saw a version that the object has had.
Asked(r) == req[r].pc = "idle" /\ req[r].body <= object.version

\* validateConfirmation, of a mutation the kind has: it was confirmed for the
\* selection that the handler finds active.
Confirmed(r, seen) == seen = gen /\ object.kind \in KindsFor(req[r].op)

Rejects(r, seen) ==
    /\ Asked(r)
    /\ ~ Confirmed(r, seen)
    /\ Answers(r, "invalid")
    /\ UNCHANGED <<gen, hook, operations, down, entries, elapsed, released>>

Arrive(r, seen) ==
    /\ Asked(r)
    /\ Confirmed(r, seen)
    /\ Set(r, [req[r] EXCEPT !.gen = gen,
                             !.pc = IF req[r].op = "restart" THEN "do" ELSE "review"])
    /\ UNCHANGED <<gen, hook, operations, down, entries, elapsed, released>>

SameIdentity(r, s) == req[r].body = req[s].body /\ req[r].gen = req[s].gen

\* pruneLocked: the entries that outlived the TTL.
Pruned == [k \in IKeys |-> IF k \in elapsed THEN NoOne ELSE entries[k]]

DoPrunes ==
    /\ elapsed' = {}
    /\ released' = released \cup {entries[k] : k \in elapsed}

Used(map) == Cardinality({k \in IKeys : map[k] # NoOne})

DoConflicts(r) ==
    LET owner == Pruned[req[r].key] IN
    /\ req[r].pc = "do"
    /\ owner # NoOne
    /\ ~ SameIdentity(r, owner)
    /\ entries' = Pruned
    /\ DoPrunes
    /\ Answers(r, "conflict")
    /\ UNCHANGED <<gen, hook, operations, down>>

DoWaits(r) ==
    LET owner == Pruned[req[r].key] IN
    /\ req[r].pc = "do"
    /\ owner # NoOne
    /\ SameIdentity(r, owner)
    /\ entries' = Pruned
    /\ DoPrunes
    /\ Set(r, [req[r] EXCEPT !.pc = "waiting", !.on = owner])
    /\ UNCHANGED <<gen, hook, operations, down>>

DoLimited(r) ==
    /\ req[r].pc = "do"
    /\ Pruned[req[r].key] = NoOne
    /\ Used(Pruned) >= MaxEntries
    /\ entries' = Pruned
    /\ DoPrunes
    /\ Answers(r, "limit")
    /\ UNCHANGED <<gen, hook, operations, down>>

DoExecutes(r) ==
    /\ req[r].pc = "do"
    /\ Pruned[req[r].key] = NoOne
    /\ Used(Pruned) < MaxEntries
    /\ entries' = [Pruned EXCEPT ![req[r].key] = r]
    /\ DoPrunes
    /\ Goto(r, "review")
    /\ UNCHANGED <<gen, hook, operations, down>>

ReplayOnlySuccess(r) ==
    /\ req[r].pc = "waiting"
    /\ req[req[r].on].pc = "done"
    /\ req[req[r].on].outcome = "ok"
    /\ Answers(r, req[req[r].on].outcome)
    /\ UNCHANGED <<gen, hook, operations, down, entries, elapsed, released>>

\* The executing request closed the entry's channel.
Replay(r) ==
    /\ req[r].pc = "waiting"
    /\ req[req[r].on].pc = "done"
    /\ Answers(r, req[req[r].on].outcome)
    /\ UNCHANGED <<gen, hook, operations, down, entries, elapsed, released>>

WaiterLeaves(r) ==
    /\ req[r].pc = "waiting"
    /\ req[r].left
    /\ Answers(r, "canceled")
    /\ UNCHANGED <<gen, hook, operations, down, entries, elapsed, released>>

-----------------------------------------------------------------------------
(* guarded *)

\* authorizer.Guard refuses.  A cancelled review ends so too: its error does
\* not carry the cancellation.
ReviewRefuses(r) ==
    /\ req[r].pc = "review"
    /\ Ends(r, "refused")
    /\ UNCHANGED <<gen, hook, operations, down, entries, elapsed, released>>

ReviewPasses(r) ==
    /\ req[r].pc = "review"
    /\ Goto(r, "callback")
    /\ UNCHANGED <<gen, hook, operations, down, entries, elapsed, released>>

\* ctx.Err and beginOperation.
Begin(r) ==
    /\ req[r].pc = "callback"
    /\ \/ req[r].left /\ Ends(r, "canceled") /\ UNCHANGED operations
       \/ ~ req[r].left /\ down.flag /\ Ends(r, "shutdown") /\ UNCHANGED operations
       \/ /\ ~ req[r].left /\ ~ down.flag
          /\ operations' = operations \cup {r}
          /\ Goto(r, "check")
    /\ UNCHANGED <<gen, hook, down, entries, elapsed, released>>

CheckAssumed(r) ==
    /\ req[r].pc = "check"
    /\ Goto(r, "sending")
    /\ UNCHANGED <<gen, hook, operations, down, entries, elapsed, released>>

\* requireCurrent, after the operation is registered.
Check(r) ==
    /\ req[r].pc = "check"
    /\ \/ /\ req[r].gen # gen
          /\ Ends(r, "changed")
          /\ operations' = operations \ {r}
       \/ /\ req[r].gen = gen
          /\ Goto(r, "sending")
          /\ UNCHANGED operations
    /\ UNCHANGED <<gen, hook, down, entries, elapsed, released>>

\* MutationBackend: the client leased for the operation's context.
Leased(r) == ~ Cancelled(r)

\* TriggerCronJob reads the CronJob and creates a Job from what it read.
TriggerReads(r) == req[r].op = "trigger" => object.exists

\* The adapter's request leaves, unless its context is already cancelled.
Send(r) ==
    /\ req[r].pc = "sending"
    /\ Leased(r)
    /\ TriggerReads(r)
    /\ Set(r, [req[r] EXCEPT !.pc = "sent", !.sent = TRUE])
    /\ UNCHANGED <<gen, hook, operations, down, entries, elapsed, released>>

\* The patch does not say which version it is for.
PatchOfAny(r) == object.exists

\* restartTemplatePatch and the patch of UpdateCronJobSuspend name the version.
PatchFits(r) == object.exists /\ object.version = req[r].body

\* UpdateScale replaces the version it names.
ScaleFits(r) == object.exists /\ object.version = req[r].body

\* DeletePod and DeleteWorkload have preconditions (a UID has its own versions).
DeleteFits(r) == object.exists /\ object.version = req[r].body

\* Kubernetes checks what the mutation expects of the object; a new Job, under
\* a name of its own, expects nothing.
Fits(r) ==
    CASE req[r].op \in {"restart", "suspend"} -> PatchFits(r)
      [] req[r].op = "scale" -> ScaleFits(r)
      [] req[r].op = "delete" -> DeleteFits(r)
      [] OTHER -> TRUE

\* Environment: Kubernetes serves a mutation, sooner or later, also when
\* nobody waits for it any more.
Serve(r) ==
    /\ req[r].sent /\ req[r].served = "no"
    /\ Set(r, [req[r] EXCEPT !.served = IF Fits(r) THEN "applied" ELSE "refused"])
    /\ object' = IF ~ Fits(r) \/ req[r].op = "trigger" THEN object
                 ELSE [object EXCEPT !.version = @ + 1, !.exists = req[r].op # "delete"]
    /\ UNCHANGED <<gen, hook, operations, down, entries, elapsed, released>>

\* Environment: somebody else updates or replaces the object.
ChangeElsewhere ==
    /\ gen + object.changes < MaxUpsets
    /\ object' = [object EXCEPT !.version = @ + 1, !.exists = TRUE, !.changes = @ + 1]
    /\ UNCHANGED <<gen, hook, operations, down, entries, elapsed, released, req>>

\* The operation returns: an answer, an error or timeout, or its context's
\* cancellation, whatever became of a mutation already sent.
Returns(r, outcome) ==
    /\ req[r].pc \in {"sending", "sent"}
    /\ outcome = "ok" => req[r].pc = "sent" /\ req[r].served = "applied"
    /\ outcome = "canceled" => Cancelled(r)
    /\ Set(r, [req[r] EXCEPT !.pc = "after", !.outcome = outcome])
    /\ UNCHANGED <<gen, hook, operations, down, entries, elapsed, released>>

\* requireCurrent again, and release.
After(r) ==
    /\ req[r].pc = "after"
    /\ Ends(r, IF req[r].gen = gen THEN req[r].outcome ELSE "changed")
    /\ operations' = operations \ {r}
    /\ UNCHANGED <<gen, hook, down, entries, elapsed, released>>

\* Do's deferred function: a cancelled execution is forgotten.
Finish(r) ==
    LET k == req[r].key
        dropped == req[r].outcome = "canceled"
    IN
    /\ req[r].pc = "finish"
    /\ Answers(r, req[r].outcome)
    /\ entries' = IF dropped THEN [entries EXCEPT ![k] = NoOne] ELSE entries
    /\ released' = IF dropped THEN released \cup {r} ELSE released
    /\ UNCHANGED <<gen, hook, operations, down, elapsed>>

-----------------------------------------------------------------------------
(* The generation hook and Shutdown collect under the lock, then cancel *)

\* Cancelling an operation that has ended changes nothing.
Stop(rs) == req' = [r \in Requests |->
                       IF r \in rs \cap operations THEN [req[r] EXCEPT !.stop = TRUE] ELSE req[r]]

\* The coordinator publishes, and calls the hook with the new generation.
Publish ==
    /\ hook.step = "idle"
    /\ gen + object.changes < MaxUpsets
    /\ gen' = gen + 1
    /\ hook' = [hook EXCEPT !.step = "collect"]
    /\ UNCHANGED <<operations, down, entries, elapsed, released, req>>

OnGenerationCollects ==
    /\ hook.step = "collect"
    /\ hook' = [hook EXCEPT !.step = "cancel",
                            !.cancels = {r \in operations : req[r].gen # gen}]
    /\ UNCHANGED <<gen, operations, down, entries, elapsed, released, req>>

OnGenerationCancels ==
    /\ hook.step = "cancel"
    /\ Stop(hook.cancels)
    /\ hook' = [step |-> "idle", cancels |-> {}, ended |-> gen]
    /\ UNCHANGED <<gen, operations, down, entries, elapsed, released>>

ShutdownCollects ==
    /\ ~ down.flag
    /\ down' = [down EXCEPT !.flag = TRUE, !.cancels = operations]
    /\ UNCHANGED <<gen, hook, operations, entries, elapsed, released, req>>

ShutdownCancels ==
    /\ down.flag
    /\ ~ down.ended
    /\ Stop(down.cancels)
    /\ down' = [down EXCEPT !.cancels = {}, !.ended = TRUE]
    /\ UNCHANGED <<gen, hook, operations, entries, elapsed, released>>

\* Environment: the browser disconnects while something still watches.
Disconnect(r) ==
    /\ req[r].pc \notin {"idle", "after", "finish", "done"}
    /\ ~ req[r].left
    /\ Set(r, [req[r] EXCEPT !.left = TRUE])
    /\ UNCHANGED <<gen, hook, operations, down, entries, elapsed, released>>

\* A terminal entry; the TTL counts from its end.
Old(k) == entries[k] # NoOne /\ req[entries[k]].pc = "done"

Elapse(k) ==
    /\ TTLElapses
    /\ k \notin elapsed
    /\ Old(k)
    /\ elapsed' = elapsed \cup {k}
    /\ UNCHANGED <<gen, hook, operations, down, entries, released, req>>

Do(r) == DoConflicts(r) \/ DoWaits(r) \/ DoLimited(r) \/ DoExecutes(r)

Return(r) == \E outcome \in {"ok", "failed", "canceled"} : Returns(r, outcome)

Step(r) ==
    \/ Do(r) \/ Replay(r) \/ WaiterLeaves(r) \/ ReviewRefuses(r) \/ ReviewPasses(r)
    \/ Begin(r) \/ Check(r) \/ Return(r) \/ After(r) \/ Finish(r)

Next ==
    \/ /\ \/ \E r \in Requests : Step(r) \/ Send(r) \/ Disconnect(r)
          \/ \E r \in Requests, seen \in 0..gen : Arrive(r, seen) \/ Rejects(r, seen)
          \/ Publish \/ OnGenerationCollects \/ OnGenerationCancels
          \/ ShutdownCollects \/ ShutdownCancels
          \/ \E k \in IKeys : Elapse(k)
       /\ UNCHANGED object
    \/ \E r \in Requests : Serve(r)
    \/ ChangeElsewhere

\* A request that was let in takes its next step: the review and the
\* operation run under timeouts (operationLimit), the rest is local.  It takes
\* finitely many.
Fairness == WF_vars(\E r \in Requests : Step(r) /\ UNCHANGED object)

Spec == Init /\ [][Next]_vars /\ Fairness

-----------------------------------------------------------------------------
(* Properties *)

\* Once OnGeneration has returned for a generation, no mutation that was bound
\* to an older one is sent any more.
HookFences ==
    [][\A r \in Requests : req'[r].sent /\ ~ req[r].sent => req[r].gen >= hook.ended]_vars

\* Once Shutdown has returned, no mutation is sent.
ShutdownFences ==
    [][\A r \in Requests : req'[r].sent /\ ~ req[r].sent => ~ down.ended]_vars

\* A key repeats its mutation only after the registry forgot the first
\* execution: it was cancelled, or its entry outlived the TTL.
RepeatOnlyReleased ==
    \A r, s \in Requests :
        (/\ r # s /\ req[r].sent /\ req[s].sent /\ req[r].key = req[s].key
         /\ req[r].op = "restart" /\ req[s].op = "restart")
        => r \in released \/ s \in released

\* Nothing is sent behind the back of a rotation or a shutdown that was told
\* every operation has ended.
MutationsFenced == HookFences /\ ShutdownFences

\* A caller is told that a mutation was accepted only if Kubernetes applied it,
\* for the caller or for the execution it waited for under the same identity.
AcceptedWasApplied ==
    \A r \in Requests : req[r].pc = "done" /\ req[r].outcome = "ok" =>
        \E s \in {r, req[r].on} \ {NoOne} : req[s].served = "applied" /\ SameIdentity(r, s)

\* Of the mutations that were confirmed on sight of one version of an object,
\* Kubernetes applies one at most, however often they are sent: by two clients,
\* with two keys, or again after the registry forgot a cancelled execution
\* (restartTemplatePatch, UpdateScale, DeleteOptions.Preconditions).
SeenChangesOnce ==
    \A r, s \in Requests :
        (/\ req[r].served = "applied" /\ req[s].served = "applied"
         /\ "trigger" \notin {req[r].op, req[s].op}
         /\ req[r].body = req[s].body) => r = s

\* What Kubernetes did is what callers were told, once: an acceptance stands for
\* an applied mutation, a key repeats only what was forgotten, and what was
\* confirmed on sight of one version is applied once.
MutationsHonest == TypeOK /\ AcceptedWasApplied /\ RepeatOnlyReleased /\ SeenChangesOnce

\* Every request that entered the service is answered.
RequestsEnd == <>[](\A r \in Requests : req[r].pc \in {"idle", "done"})
=============================================================================
