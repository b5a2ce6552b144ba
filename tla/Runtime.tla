-------------------------------- MODULE Runtime --------------------------------
(***************************************************************************)
(* integration/kubernetesruntime: the selected context's clients, between the *)
(* selection that names it and the requests that use it.  The context service *)
(* commits a selection and then activates it; the coordinator's hook fences    *)
(* older work; requests and access reviews lease the clients lazily, and       *)
(* resolve the kubeconfig again when its files have changed.                   *)
(*                                                                          *)
(* Bootstrap, Selects and Scopes change the selection (the Selection module    *)
(* is about their order); Lists and Reviews use it.                           *)
(***************************************************************************)
EXTENDS ClientCache

CONSTANTS
    Boot, Selects, Scopes, Lists, Reviews,   \* the processes
    Destination, \* the context each of Boot and Selects goes to
    Async,       \* the desktop shell serves requests while Bootstrap runs
    MaxFile,     \* bound: versions of the kubeconfig
    MaxMishaps   \* bound: file changes, failed builds, rejected credentials, Close

ASSUME RuntimeAssumption ==
    /\ Processes = {Boot} \cup Selects \cup Scopes \cup Lists \cup Reviews
    /\ Destination \in [{Boot} \cup Selects -> Contexts]
    /\ Boot \notin Selects \cup Scopes \cup Lists \cup Reviews
    /\ Selects \cap (Scopes \cup Lists \cup Reviews) = {} /\ Scopes \cap (Lists \cup Reviews) = {}
    /\ Nothing \notin Contexts \cup Processes

VARIABLES
    selection,   \* State.binding
    minted,      \* GenerationStore.current
    holder,      \* who commits, under Coordinator.mu
    rt,          \* Runtime: candidate, and binding
    status,      \* the published status: selection and cluster
    mishaps

runtimeVars == <<selection, minted, holder, rt, status, mishaps>>

allVars == <<cacheVars, proc, runtimeVars>>

Unbound == [ctx |-> Nothing, gen |-> 0]

\* bound: the binding the process acts for; measured: the cluster whose
\* connectivity it reports; used: the cluster that answered.  Of its call of
\* Activate: key, res: the resolution, its context and fingerprint; current:
\* activationSeq is the one it saw; void: the key was invalidated since; on:
\* whose build it waits for, its own or the one it joined; call: the outcome of
\* that build.
NewProcess(p) ==
    [pc |-> IF p \in {Boot} \cup Selects THEN "resolve" ELSE "idle",
     bound |-> Unbound, retried |-> FALSE, measured |-> Nothing, used |-> Nothing,
     key |-> Nothing, res |-> 0, current |-> FALSE, void |-> FALSE,
     on |-> Nothing, call |-> "none", held |-> NoLease, fault |-> "none"]

RuntimeInit ==
    /\ CacheInit
    /\ proc = [p \in Processes |-> NewProcess(p)]
    /\ selection = Unbound /\ minted = 1 /\ holder = Nothing
    /\ rt = [cand |-> Nothing, fp |-> 0, ctx |-> Nothing, gen |-> 0]
    /\ status = [ctx |-> Nothing, gen |-> 0, measured |-> Nothing]
    /\ mishaps = 0

Mishap == mishaps < MaxMishaps /\ mishaps' = mishaps + 1

\* A process that has ended is forgotten, unless another context than its own
\* answered.
Done(p, ps) ==
    [ps EXCEPT ![p] = [NewProcess(p) EXCEPT
        !.pc = "done",
        !.used = IF ps[p].used \in {Nothing, ps[p].bound.ctx} THEN Nothing ELSE ps[p].used,
        !.bound = IF ps[p].used \in {Nothing, ps[p].bound.ctx} THEN Unbound ELSE ps[p].bound]]

\* A step of a process that changes nothing else.
Move(p, pc, ps) ==
    /\ proc[p].pc = pc
    /\ proc' = ps
    /\ UNCHANGED <<cacheVars, runtimeVars>>

\* The headless server listens once Bootstrap is done.
Serving == Async \/ proc[Boot].pc = "done"

-----------------------------------------------------------------------------
(* The selection: Service.Bootstrap, Service.Select, scope mutations *)

\* Runtime.Resolve: the files are read and fingerprinted.
Resolve(p) ==
    /\ p # Boot => Serving /\ selection.ctx # Nothing
    /\ Move(p, "resolve", [proc EXCEPT ![p].pc = "commit", ![p].key = Destination[p], ![p].res = file[Destination[p]]])

\* Bootstrap binds the first context without publishing a generation, unless a
\* selection came first: then it gives up.
Initialize ==
    /\ proc[Boot].pc = "commit"
    /\ IF selection.ctx # Nothing THEN proc' = Done(Boot, proc) /\ UNCHANGED selection
       ELSE /\ selection' = [ctx |-> Destination[Boot], gen |-> minted]
            /\ proc' = [proc EXCEPT ![Boot].pc = "snapshot"]
    /\ UNCHANGED <<cacheVars, minted, holder, rt, status, mishaps>>

\* It activates its candidate under the binding it reads back.
BootSnapshot == Move(Boot, "snapshot", [proc EXCEPT ![Boot].pc = "begin", ![Boot].bound = selection])

\* CommitConditional publishes a generation: OnGeneration fences the runtime ...
Commit(p) ==
    /\ p \in Selects => proc[p].pc = "commit"
    /\ p \in Scopes => proc[p].pc = "idle" /\ Serving /\ selection.ctx # Nothing
    /\ p \in Selects \cup Scopes /\ holder = Nothing
    /\ minted' = minted + 1 /\ holder' = p
    /\ rt' = [rt EXCEPT !.gen = minted + 1]
    /\ proc' = [proc EXCEPT ![p].pc = "hook",
                            ![p].bound = [ctx |-> IF p \in Selects THEN Destination[p] ELSE selection.ctx,
                                          gen |-> minted + 1]]
    /\ UNCHANGED <<cacheVars, selection, status, mishaps>>

\* ... and invalidates the clients of the context it had ...
OnGeneration(p) ==
    /\ proc[p].pc = "hook"
    /\ IF rt.cand = Nothing THEN proc' = [proc EXCEPT ![p].pc = "bind"] /\ UNCHANGED cacheVars
       ELSE Invalidate(rt.cand, [proc EXCEPT ![p].pc = "bind"])
    /\ UNCHANGED runtimeVars

\* ... and State takes the new binding; then a Select activates it, while a
\* scope mutation leaves that to the next request.
Bind(p) ==
    /\ proc[p].pc = "bind"
    /\ selection' = proc[p].bound /\ holder' = Nothing
    /\ proc' = [proc EXCEPT ![p].pc = IF p \in Selects THEN "begin" ELSE "publish"]
    /\ UNCHANGED <<cacheVars, minted, rt, status, mishaps>>

-----------------------------------------------------------------------------
(* Runtime.Activate *)

\* An older activation never overwrites the fence of a newer generation.
BeginActivation(p) ==
    /\ proc[p].pc = "begin"
    /\ IF rt.gen \notin {0, proc[p].bound.gen} THEN proc' = Done(p, proc) /\ UNCHANGED rt
       ELSE /\ rt' = [cand |-> proc[p].key, fp |-> proc[p].res, ctx |-> proc[p].bound.ctx, gen |-> proc[p].bound.gen]
            /\ proc' = [proc EXCEPT ![p].pc = "check"]
    /\ UNCHANGED <<cacheVars, selection, minted, holder, status, mishaps>>

MatchesBinding(p) == rt.ctx = proc[p].bound.ctx /\ rt.gen = proc[p].bound.gen

Selecting == {Boot} \cup Selects

\* What is to be published once the activation has ended.
Reports(p, measured) ==
    [proc EXCEPT ![p] = [NewProcess(p) EXCEPT !.pc = "publish", !.bound = proc[p].bound, !.measured = measured]]

\* Another selection came in between: the answer is ErrGenerationChange.
\* Bootstrap publishes that as the cluster's state, a Select only an error of
\* its own.
Overtaken(p) == IF p = Boot THEN Reports(p, Nothing) ELSE Done(p, proc)

ActivateRefused(p) ==
    /\ p \in Selecting
    /\ Move(p, "refused", IF MatchesBinding(p) THEN Reports(p, Nothing)
                          ELSE Overtaken(p))

PublishLease(p) ==
    /\ p \in Selecting
    /\ Move(p, "leased", IF MatchesBinding(p) THEN [proc EXCEPT ![p].pc = "version"] ELSE Overtaken(p))

\* GET /version under the lease: one that was cancelled fails.
CheckVersion(p) ==
    Move(p, "version",
         IF ~MatchesBinding(p) THEN Overtaken(p)
         ELSE Reports(p, IF proc[p].held.id \in live THEN proc[p].held.ctx ELSE Nothing))

\* publishSelection sets the selection and, after an activation, the cluster's
\* state; a scope mutation leaves that as it was.
Published(p) == [ctx |-> proc[p].bound.ctx, gen |-> proc[p].bound.gen,
                 measured |-> IF p \in Scopes THEN status.measured ELSE proc[p].measured]

PublishAnyway(p) ==
    /\ proc[p].pc = "publish"
    /\ status' = Published(p)
    /\ proc' = Done(p, proc)
    /\ UNCHANGED <<cacheVars, selection, minted, holder, rt, mishaps>>

\* Inside State.IfCurrent; Bootstrap without it.
Publish(p) ==
    /\ proc[p].pc = "publish"
    /\ status' = IF p = Boot \/ selection = proc[p].bound THEN Published(p) ELSE status
    /\ proc' = Done(p, proc)
    /\ UNCHANGED <<cacheVars, selection, minted, holder, rt, mishaps>>

-----------------------------------------------------------------------------
(* Requests: ListPage and ReviewAccess *)

\* A request takes the binding of its handler's snapshot; a review brings the
\* generation only, and takes the binding from the runtime.
Ask(p) ==
    /\ Serving /\ selection.ctx # Nothing
    /\ p \in Lists \cup Reviews
    /\ Move(p, "idle",
            IF p \in Lists THEN [proc EXCEPT ![p].pc = "lease", ![p].bound = selection]
            ELSE IF rt.gen # selection.gen THEN Done(p, proc)
            ELSE [proc EXCEPT ![p].pc = "lease", ![p].bound = [ctx |-> rt.ctx, gen |-> rt.gen]])

LeaseForGeneration(p) ==
    Move(p, "lease",
         IF rt.cand = Nothing \/ rt.gen # proc[p].bound.gen THEN Done(p, proc)
         ELSE [proc EXCEPT ![p].pc = "check", ![p].key = rt.cand, ![p].res = rt.fp])

\* leaseFor: the runtime's candidate, if it is the one the request is bound to.
LeaseFor(p) ==
    Move(p, "lease",
         IF rt.cand = Nothing \/ ~MatchesBinding(p) THEN Done(p, proc)
         ELSE [proc EXCEPT ![p].pc = "check", ![p].key = rt.cand, ![p].res = rt.fp])

\* The files changed, or another activation came in between: they are resolved
\* again, once.
ResolveAgain(p) ==
    /\ p \in Lists \cup Reviews
    /\ Move(p, "refused", IF proc[p].fault = "changed" /\ ~proc[p].retried
                          THEN [proc EXCEPT ![p].pc = "check", ![p].retried = TRUE, ![p].fault = "none",
                                            ![p].res = file[proc[p].key]]
                          ELSE Done(p, proc))

\* The fresh candidate replaces the runtime's, unless the selection moved.
AdoptCandidate(p) ==
    /\ p \in Lists \cup Reviews /\ proc[p].pc = "leased"
    /\ rt' = IF proc[p].retried /\ MatchesBinding(p)
             THEN [rt EXCEPT !.fp = proc[p].res] ELSE rt
    /\ proc' = [proc EXCEPT ![p].pc = "use"]
    /\ UNCHANGED <<cacheVars, selection, minted, holder, status, mishaps>>

\* Generation.Unary and the request itself: a cancelled lease answers nothing.
Use(p) ==
    Move(p, "use", Done(p, [proc EXCEPT ![p].used = IF proc[p].held.id \in live THEN proc[p].held.ctx ELSE Nothing]))

\* The cluster rejects the credentials: a list invalidates the clients it used,
\* a review those of the runtime's candidate.
Unauthorized(p) ==
    /\ proc[p].pc = "use" /\ proc[p].held.id \in live /\ Mishap
    /\ Invalidate(IF p \in Lists THEN proc[p].held.ctx ELSE rt.cand, Done(p, proc))
    /\ UNCHANGED <<selection, minted, holder, rt, status>>

-----------------------------------------------------------------------------
(* The environment *)

FileChanges(k) ==
    /\ file[k] < MaxFile /\ Mishap
    /\ file' = [file EXCEPT ![k] = @ + 1]
    /\ UNCHANGED <<entries, active, live, target, shut, proc, selection, minted, holder, rt, status>>

BuildFails(p) ==
    /\ Mishap /\ BuildEnds(p, "failed")
    /\ UNCHANGED <<selection, minted, holder, rt, status>>

\* Runtime.Close
Stop == CloseCache /\ Mishap /\ UNCHANGED <<selection, minted, holder, rt, status>>

RuntimeStep(p) ==
    \/ Commit(p) \/ OnGeneration(p) \/ Bind(p)
    \/ BeginActivation(p) \/ ActivateRefused(p) \/ PublishLease(p) \/ CheckVersion(p) \/ Publish(p)
    \/ Ask(p) \/ LeaseFor(p) \/ ResolveAgain(p) \/ AdoptCandidate(p) \/ Use(p)
    \/ Unauthorized(p) \/ BuildFails(p)
    \/ ActivateStep(p) /\ UNCHANGED runtimeVars

RuntimeNext ==
    \/ \E p \in {Boot} \cup Selects : Resolve(p)
    \/ Initialize \/ BootSnapshot
    \/ \E p \in Processes : RuntimeStep(p)
    \/ \E k \in Contexts : FileChanges(k)
    \/ Stop

RuntimeSpec == RuntimeInit /\ [][RuntimeNext]_allVars

-----------------------------------------------------------------------------
(* Properties *)

\* A request is answered by the cluster of the context its binding names, a
\* review by that of the binding the runtime had for its generation: never by
\* clients of another context, whatever is selected, rebuilt or invalidated in
\* between.
AnsweredByItsContext ==
    \A p \in Lists \cup Reviews : proc[p].used \in {Nothing, proc[p].bound.ctx}

\* At most one lease is live, the active one: whoever works under an older
\* activation has been cancelled.
OneLiveLease == live \subseteq {active.id}

\* Credentials that were invalidated are not used again: neither the active
\* lease nor a cached entry stems from a build that began before.
InvalidatedIsGone ==
    /\ ~active.void
    /\ \A k \in Contexts : entries[k] # Nothing => ~entries[k].void

\* Clients are those of the binding they serve: a request is answered by its own
\* context's cluster, one lease is live, and invalidated credentials are gone
\* from it and from the cache.
ClientsCurrent == AnsweredByItsContext /\ OneLiveLease /\ InvalidatedIsGone

\* The status that is shown moves forward: an activation that was overtaken by
\* another selection publishes nothing, and a connectivity that is newly shown
\* was measured on the cluster of the context shown.
StatusMovesForward ==
    [][/\ status'.gen >= status.gen
       /\ status'.measured # status.measured => status'.measured \in {Nothing, status'.ctx}]_status
=============================================================================
