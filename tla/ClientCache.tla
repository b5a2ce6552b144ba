------------------------------ MODULE ClientCache ------------------------------
(***************************************************************************)
(* adapters/kubernetes/client_cache.go: credential-bearing clients, one entry *)
(* per kubeconfig context, and the one lease of them that is active.           *)
(* Overlapping activations of the same file contents share a build; an         *)
(* activation of anything else supersedes them.                               *)
(*                                                                          *)
(* activationSeq and epochs only serve to be compared with an earlier value:   *)
(* they are modelled by whom they have outrun, `current` and `void`.           *)
(***************************************************************************)
EXTENDS Integers, FiniteSets

CONSTANTS Processes, Contexts, Nothing

VARIABLES
    file,     \* the kubeconfig: the fingerprint of each context's sources
    entries,  \* ClientCache.entries
    active,   \* ClientCache.active
    live,     \* the leases whose Generation is not cancelled
    target,   \* activationTarget
    shut,
    proc      \* the callers of Activate

cacheVars == <<file, entries, active, live, target, shut>>

NoLease == [id |-> 0, ctx |-> Nothing, fp |-> 0, void |-> FALSE]

NoTarget == [ctx |-> Nothing, fp |-> 0, void |-> FALSE]

CacheInit ==
    /\ file = [k \in Contexts |-> 1]
    /\ entries = [k \in Contexts |-> Nothing]
    /\ active = NoLease /\ live = {}
    /\ target = NoTarget
    /\ shut = FALSE

\* activationSeq++
Outrun(ps) == [p \in Processes |-> [ps[p] EXCEPT !.current = FALSE]]

\* invalidateKey: the entry goes, the active lease is cancelled, and no build
\* of the key that is under way will be used.
Invalidate(k, ps) ==
    /\ proc' = [p \in Processes |-> [Outrun(ps)[p] EXCEPT !.void = @ \/ (ps[p].pc \in {"build", "join"} /\ ps[p].key = k)]]
    /\ target' = NoTarget
    /\ entries' = [entries EXCEPT ![k] = Nothing]
    /\ active' = IF active.ctx = k THEN NoLease ELSE active
    /\ live' = IF active.ctx = k THEN live \ {active.id} ELSE live
    /\ UNCHANGED <<file, shut>>

\* The caller goes on with a lease, or with an error.
Returned(p, pc, ps) ==
    [ps EXCEPT ![p].pc = pc, ![p].on = Nothing, ![p].call = "none", ![p].current = FALSE, ![p].void = FALSE]

Holding(p, lease, ps) == [Returned(p, "leased", ps) EXCEPT ![p].held = lease]

Failing(p, fault, ps) == [Returned(p, "refused", ps) EXCEPT ![p].fault = fault]

\* generationSeq: a number that no one holds any more may come again.
NextId == CHOOSE n \in 1..Cardinality(Processes) + 2 :
             /\ \A m \in 1..(n - 1) : m = active.id \/ m \in live \/ \E p \in Processes : proc[p].held.id = m
             /\ n # active.id /\ n \notin live /\ \A p \in Processes : proc[p].held.id # n

\* activateLocked, with what becomes of the processes.
ActivateLocked(p, clients, ps) ==
    LET lease == [id |-> NextId, ctx |-> proc[p].key, fp |-> clients.fp, void |-> clients.void] IN
    /\ active' = lease
    /\ live' = (live \ {active.id}) \cup {NextId}
    /\ proc' = Holding(p, lease, ps)

Matches(lease, p) == lease.id # 0 /\ lease.ctx = proc[p].key /\ lease.fp = proc[p].res

-----------------------------------------------------------------------------
\* Activate: a resolution whose files have changed is rejected.
CheckFingerprint(p) ==
    /\ proc[p].pc = "check"
    /\ IF file[proc[p].key] = proc[p].res
       THEN proc' = [proc EXCEPT ![p].pc = "lock"] /\ UNCHANGED cacheVars
       ELSE Invalidate(proc[p].key, Failing(p, "changed", proc))

LockClosed(p) ==
    /\ proc[p].pc = "lock" /\ shut
    /\ proc' = Failing(p, "closed", proc)
    /\ UNCHANGED cacheVars

\* The active lease serves it.
LockActive(p) ==
    /\ proc[p].pc = "lock" /\ ~shut /\ Matches(active, p)
    /\ proc' = Holding(p, active, proc)
    /\ UNCHANGED cacheVars

\* Another target than the last one outruns the activations under way.
Retargeted(p) ==
    LET want == [ctx |-> proc[p].key, fp |-> proc[p].res, void |-> FALSE] IN
    [want |-> want,
     ps |-> [(IF target = want THEN proc ELSE Outrun(proc)) EXCEPT
                ![p].current = TRUE, ![p].void = FALSE]]

\* The entry serves it, under a new lease.
LockEntry(p) ==
    /\ proc[p].pc = "lock" /\ ~shut /\ ~Matches(active, p)
    /\ entries[proc[p].key] # Nothing /\ entries[proc[p].key].fp = proc[p].res
    /\ target' = Retargeted(p).want
    /\ ActivateLocked(p, entries[proc[p].key], Retargeted(p).ps)
    /\ UNCHANGED <<file, entries, shut>>

\* The builds it may join: the same contents, not invalidated since.
Inflight(p) == {q \in Processes : /\ proc[q].on = q /\ proc[q].pc = "build" /\ ~proc[q].void
                                  /\ proc[q].key = proc[p].key /\ proc[q].res = proc[p].res}

\* The active lease of anything else is cancelled, an outdated entry dropped,
\* and the build of these contents joined or begun.
LockBuild(p) ==
    LET k == proc[p].key IN
    /\ proc[p].pc = "lock" /\ ~shut /\ ~Matches(active, p)
    /\ entries[k] # Nothing => entries[k].fp # proc[p].res
    /\ target' = Retargeted(p).want
    /\ entries' = [entries EXCEPT ![k] = Nothing]
    /\ active' = NoLease
    /\ live' = live \ {active.id}
    /\ proc' = IF Inflight(p) = {}
               THEN [Retargeted(p).ps EXCEPT ![p].pc = "build", ![p].on = p]
               ELSE [Retargeted(p).ps EXCEPT ![p].pc = "join", ![p].on = CHOOSE q \in Inflight(p) : TRUE]
    /\ UNCHANGED <<file, shut>>

Superseded(p) == proc[p].void \/ ~proc[p].current

Clients(p) == [fp |-> proc[p].res, void |-> proc[p].void]

\* Those who joined a build see its clients, or its error, in any case.
Delivered(p, outcome) ==
    [q \in Processes |-> IF proc[q].on = p /\ proc[q].pc = "join"
                         THEN [proc[q] EXCEPT !.call = outcome] ELSE proc[q]]

\* The build ends: it is cached and activated unless it was outrun.
BuildEnds(p, outcome) ==
    LET ps == Delivered(p, outcome)
        cached == ~shut /\ ~Superseded(p) /\ outcome = "built"
    IN
    /\ proc[p].pc = "build"
    /\ entries' = IF cached THEN [entries EXCEPT ![proc[p].key] = Clients(p)] ELSE entries
    /\ IF cached /\ ~Matches(active, p) THEN ActivateLocked(p, Clients(p), ps)
       ELSE /\ proc' = IF cached THEN Holding(p, active, ps)
                       ELSE Failing(p, IF shut THEN "closed"
                                       ELSE IF Superseded(p) THEN "changed" ELSE "failed", ps)
            /\ UNCHANGED <<active, live>>
    /\ UNCHANGED <<file, target, shut>>

\* A caller that joined, after call.done.
JoinEnds(p) ==
    LET ready == proc[p].current /\ proc[p].call = "built" /\ ~shut IN
    /\ proc[p].pc = "join" /\ proc[p].call # "none"
    /\ IF ready /\ ~Matches(active, p) THEN ActivateLocked(p, Clients(p), proc)
       ELSE /\ proc' = IF ready THEN Holding(p, active, proc)
                       ELSE Failing(p, IF ~proc[p].current THEN "changed"
                                       ELSE IF proc[p].call = "failed" THEN "failed" ELSE "closed", proc)
            /\ UNCHANGED <<active, live>>
    /\ UNCHANGED <<file, entries, target, shut>>

\* cache.ctx is done while it waits.
JoinClosed(p) ==
    /\ proc[p].pc = "join" /\ shut
    /\ proc' = Failing(p, "closed", proc)
    /\ UNCHANGED cacheVars

CloseCache ==
    /\ ~shut /\ shut' = TRUE
    /\ entries' = [k \in Contexts |-> Nothing]
    /\ active' = NoLease
    /\ live' = live \ {active.id}
    /\ UNCHANGED <<file, target, proc>>

ActivateStep(p) ==
    \/ CheckFingerprint(p) \/ LockClosed(p) \/ LockActive(p) \/ LockEntry(p) \/ LockBuild(p)
    \/ BuildEnds(p, "built") \/ JoinEnds(p) \/ JoinClosed(p)
=============================================================================
