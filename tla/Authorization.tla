---------------------------- MODULE Authorization ----------------------------
(***************************************************************************)
(* The access-decision service of internal/services/authorization: the     *)
(* short-lived cache of SelfSubjectAccessReview decisions, the sharing of  *)
(* overlapping reviews, and the Guard that runs an operation on one.       *)
(*                                                                         *)
(* Each request makes one Guard call.  A review is named by the request    *)
(* that sent it.  "canceled" is the unknown decision of a cancelled        *)
(* review.  Expiry is an environment step on a cached entry, since no      *)
(* decision of the code depends on how long the entry lived.  What a       *)
(* finished review, wait or call no longer reads is reset.                 *)
(***************************************************************************)
EXTENDS Integers

CONSTANTS
    Requests, Keys, Generations,
    GenOf,      \* the generation field of each key
    MaxRevision \* bound: invalidations of a generation, and of everything

ASSUME AuthorizationAssumption ==
    /\ GenOf \in [Keys -> Generations]
    /\ MaxRevision \in Nat

Decisions == {"allowed", "denied", "unknown", "canceled"}

VARIABLES
    cache,               \* the cached decision of each key
    inflight,            \* the reviews in the inflight map
    globalRevision, generationRevisions, keyRevisions,
    request              \* the Guard calls, with the review each one sent

vars == <<cache, inflight, globalRevision, generationRevisions, keyRevisions, request>>

revisions == <<globalRevision, generationRevisions, keyRevisions>>

NoEntry == [decision |-> "none", expired |-> FALSE, tainted |-> FALSE]

Entry == [decision : Decisions \cup {"none"}, expired : BOOLEAN, tainted : BOOLEAN]

Stamp == [global : Nat, generation : Nat, key : Nat]

\* tainted (history): an invalidation covered the review while it was in
\* flight.  stale (history): the decision was already invalidated when the
\* request took it from the cache or joined its review.
Request ==
    [pc : {"idle", "waiting", "reviewing", "decided", "operating", "done"},
     kind : {"read", "mutation"}, key : Keys, on : Requests, stamp : Stamp,
     left : BOOLEAN, decision : Decisions \cup {"none"}, cached : BOOLEAN,
     result : Decisions \cup {"none"}, tainted : BOOLEAN, stale : BOOLEAN]

TypeOK ==
    /\ cache \in [Keys -> Entry]
    /\ inflight \subseteq Requests
    /\ globalRevision \in Nat
    /\ generationRevisions \in [Generations -> Nat]
    /\ keyRevisions \in [Keys -> Nat]
    /\ request \in [Requests -> Request]

NoStamp == [global |-> 0, generation |-> 0, key |-> 0]

Init ==
    /\ cache = [k \in Keys |-> NoEntry]
    /\ inflight = {}
    /\ globalRevision = 0
    /\ generationRevisions = [g \in Generations |-> 0]
    /\ keyRevisions = [k \in Keys |-> 0]
    /\ \E kind \in [Requests -> {"read", "mutation"}], key \in [Requests -> Keys] :
          request = [r \in Requests |->
              [pc |-> "idle", kind |-> kind[r], key |-> key[r], on |-> r,
               stamp |-> NoStamp,
               left |-> FALSE, decision |-> "none", cached |-> FALSE,
               result |-> "none", tainted |-> FALSE, stale |-> FALSE]]

Revision(k) ==
    [global |-> globalRevision, generation |-> generationRevisions[GenOf[k]],
     key |-> keyRevisions[k]]

-----------------------------------------------------------------------------
(* check, up to the critical section that answers, joins or starts a review *)

\* Revalidate: a mutation refreshes, a read may use the cached decision.
Bypass(r) == request[r].kind = "mutation"

Hit(r) ==
    LET e == cache[request[r].key] IN ~ Bypass(r) /\ e.decision # "none" /\ ~ e.expired

\* The entry a request that did not hit leaves behind is deleted.
Dropped(k) == [cache EXCEPT ![k] = NoEntry]

\* The inflight map is keyed by key and revision.
Shares(r, c) ==
    c \in inflight /\ request[c].key = request[r].key
                   /\ request[c].stamp = Revision(request[r].key)

CheckHits(r) ==
    LET e == cache[request[r].key] IN
    /\ request[r].pc = "idle"
    /\ Hit(r)
    /\ request' = [request EXCEPT ![r] = [@ EXCEPT
                      !.pc = "decided", !.decision = e.decision, !.cached = TRUE,
                      !.stale = e.tainted]]
    /\ UNCHANGED <<cache, inflight, revisions>>

CheckJoins(r, c) ==
    /\ request[r].pc = "idle"
    /\ ~ Hit(r)
    /\ Shares(r, c)
    /\ cache' = Dropped(request[r].key)
    /\ request' = [request EXCEPT ![r] = [@ EXCEPT
                      !.pc = "waiting", !.on = c, !.stale = request[c].tainted]]
    /\ UNCHANGED <<inflight, revisions>>

CheckReviews(r) ==
    /\ request[r].pc = "idle"
    /\ ~ Hit(r)
    /\ \A c \in Requests : ~ Shares(r, c)
    /\ cache' = Dropped(request[r].key)
    /\ inflight' = inflight \cup {r}
    /\ request' = [request EXCEPT ![r] = [@ EXCEPT
                      !.pc = "reviewing", !.stamp = Revision(request[r].key)]]
    /\ UNCHANGED revisions

-----------------------------------------------------------------------------
(* The end of a review, and of the wait for one *)

\* A result enters the cache unless it was invalidated or cancelled.
Cacheable(r, d) ==
    /\ request[r].stamp = Revision(request[r].key)
    /\ ~ request[r].left
    /\ d # "canceled"

ReviewedUnlessLeft(r, d) ==
    /\ request[r].pc = "reviewing"
    /\ ~ request[r].left
    /\ inflight' = inflight \ {r}
    /\ cache' = IF Cacheable(r, d)
                THEN [cache EXCEPT ![request[r].key] =
                         [decision |-> d, expired |-> FALSE, tainted |-> request[r].tainted]]
                ELSE cache
    /\ request' = [request EXCEPT ![r] = [@ EXCEPT
                      !.pc = "decided", !.decision = d, !.result = d,
                      !.stamp = NoStamp, !.tainted = FALSE, !.left = FALSE]]
    /\ UNCHANGED revisions

\* The reviewer answers d; a review whose own request is gone may still.
Reviewed(r, d) ==
    /\ request[r].pc = "reviewing"
    /\ inflight' = inflight \ {r}
    /\ cache' = IF Cacheable(r, d)
                THEN [cache EXCEPT ![request[r].key] =
                         [decision |-> d, expired |-> FALSE, tainted |-> request[r].tainted]]
                ELSE cache
    /\ request' = [request EXCEPT ![r] = [@ EXCEPT
                      !.pc = "decided", !.decision = d, !.result = d,
                      !.stamp = NoStamp, !.tainted = FALSE, !.left = FALSE]]
    /\ UNCHANGED revisions

Answered(r) ==
    /\ request[r].pc = "waiting"
    /\ request[request[r].on].result # "none"
    /\ request' = [request EXCEPT ![r] = [@ EXCEPT
                      !.pc = "decided", !.decision = request[request[r].on].result,
                      !.on = r, !.left = FALSE]]
    /\ UNCHANGED <<cache, inflight, revisions>>

Abandoned(r) ==
    /\ request[r].pc = "waiting"
    /\ request[r].left
    /\ request' = [request EXCEPT ![r] = [@ EXCEPT
                      !.pc = "decided", !.decision = "canceled",
                      !.on = r, !.left = FALSE]]
    /\ UNCHANGED <<cache, inflight, revisions>>

-----------------------------------------------------------------------------
(* Revalidate's policy, and Guard's operation *)

Refuses(r) ==
    \/ request[r].decision = "denied"
    \/ request[r].decision \in {"unknown", "canceled"} /\ request[r].kind # "read"

RevalidateRefuses(r) ==
    /\ request[r].pc = "decided"
    /\ Refuses(r)
    /\ request' = [request EXCEPT ![r] = [@ EXCEPT !.pc = "done",
                      !.decision = "none", !.cached = FALSE]]
    /\ UNCHANGED <<cache, inflight, revisions>>

RevalidatePasses(r) ==
    /\ request[r].pc = "decided"
    /\ ~ Refuses(r)
    /\ request' = [request EXCEPT ![r] = [@ EXCEPT !.pc = "operating"]]
    /\ UNCHANGED <<cache, inflight, revisions>>

\* The operation succeeds, or fails with something other than a 403.
OperationEnds(r) ==
    /\ request[r].pc = "operating"
    /\ request' = [request EXCEPT ![r] = [@ EXCEPT !.pc = "done",
                      !.decision = "none", !.cached = FALSE]]
    /\ UNCHANGED <<cache, inflight, revisions>>

\* The reviews in flight for the keys ks become tainted.
Tainted(ks) ==
    [c \in Requests |->
        IF request[c].pc = "reviewing" /\ request[c].key \in ks
        THEN [request[c] EXCEPT !.tainted = TRUE] ELSE request[c]]

\* The operation is answered 403: Guard calls invalidateKey.
OperationForbidden(r) ==
    LET k == request[r].key IN
    /\ request[r].pc = "operating"
    /\ keyRevisions' = [keyRevisions EXCEPT ![k] = @ + 1]
    /\ cache' = [cache EXCEPT ![k] = NoEntry]
    /\ request' = [Tainted({k}) EXCEPT ![r] = [@ EXCEPT !.pc = "done",
                      !.decision = "none", !.cached = FALSE]]
    /\ UNCHANGED <<inflight, globalRevision, generationRevisions>>

-----------------------------------------------------------------------------
(* Invalidation, and the environment *)

InvalidateGeneration(g) ==
    LET ks == {k \in Keys : GenOf[k] = g} IN
    /\ generationRevisions[g] < MaxRevision
    /\ generationRevisions' = [generationRevisions EXCEPT ![g] = @ + 1]
    /\ cache' = [k \in Keys |-> IF k \in ks THEN NoEntry ELSE cache[k]]
    /\ request' = Tainted(ks)
    /\ UNCHANGED <<inflight, globalRevision, keyRevisions>>

InvalidateAllOnlyClears ==
    /\ globalRevision < MaxRevision
    /\ globalRevision' = globalRevision
    /\ generationRevisions' = [g \in Generations |-> 0]
    /\ keyRevisions' = [k \in Keys |-> 0]
    /\ cache' = [k \in Keys |-> NoEntry]
    /\ request' = Tainted(Keys)
    /\ UNCHANGED inflight

\* The per-generation and per-key counters start again from zero.
InvalidateAll ==
    /\ globalRevision < MaxRevision
    /\ globalRevision' = globalRevision + 1
    /\ generationRevisions' = [g \in Generations |-> 0]
    /\ keyRevisions' = [k \in Keys |-> 0]
    /\ cache' = [k \in Keys |-> NoEntry]
    /\ request' = Tainted(Keys)
    /\ UNCHANGED inflight

\* The caller's context is done while it reviews or waits.
ContextDone(r) ==
    /\ request[r].pc \in {"waiting", "reviewing"}
    /\ ~ request[r].left
    /\ request' = [request EXCEPT ![r] = [@ EXCEPT !.left = TRUE]]
    /\ UNCHANGED <<cache, inflight, revisions>>

\* The TTL of a cached decision elapses.
Expire(k) ==
    /\ cache[k].decision # "none"
    /\ ~ cache[k].expired
    /\ cache' = [cache EXCEPT ![k] = [@ EXCEPT !.expired = TRUE]]
    /\ UNCHANGED <<inflight, revisions, request>>

Review(r) == \E d \in Decisions : Reviewed(r, d)

Next ==
    \/ \E r \in Requests : \/ CheckHits(r) \/ CheckReviews(r) \/ Review(r) \/ Answered(r)
                           \/ Abandoned(r) \/ RevalidateRefuses(r) \/ RevalidatePasses(r)
                           \/ OperationEnds(r) \/ OperationForbidden(r) \/ ContextDone(r)
    \/ \E r, c \in Requests : CheckJoins(r, c)
    \/ \E g \in Generations : InvalidateGeneration(g)
    \/ InvalidateAll
    \/ \E k \in Keys : Expire(k)

\* The reviewer answers: it is a unary Kubernetes call under the client's
\* timeout.  A caller whose channel is ready proceeds.
Fairness == \A r \in Requests : WF_vars(Review(r)) /\ WF_vars(Answered(r))

Spec == Init /\ [][Next]_vars /\ Fairness

-----------------------------------------------------------------------------
(* Properties *)

\* A decision in the cache comes from a review that nobody invalidated while
\* it was in flight: a late result never revives what InvalidateAll,
\* InvalidateGeneration or a 403 removed.  A cancelled review leaves nothing.
CachedSound ==
    \A k \in Keys : ~ cache[k].tainted /\ cache[k].decision # "canceled"

\* A request never takes a decision, cached or in flight, that was already
\* invalidated when it arrived.
NeverStale == \A r \in Requests : ~ request[r].stale

\* An operation that changes the cluster runs only on an allowed answer of a
\* review, never on a cached or unknown one.
MutationReviewed ==
    \A r \in Requests : request[r].pc = "operating" /\ request[r].kind = "mutation" =>
        request[r].decision = "allowed" /\ ~ request[r].cached

\* Overlapping requests share: one review per key at a time, unless the older
\* one was invalidated.
OneLiveReview ==
    \A r, c \in Requests :
        (/\ request[r].pc = "reviewing" /\ request[c].pc = "reviewing"
         /\ request[r].key = request[c].key
         /\ ~ request[r].tainted /\ ~ request[c].tainted) => r = c

\* Decisions are sound: neither the cache nor a caller holds one that was
\* invalidated before it was asked for or while it was reviewed, a mutation has
\* one of its own, and overlapping requests share theirs.
DecisionsSound == CachedSound /\ NeverStale /\ MutationReviewed /\ OneLiveReview

\* A request that waits for a review is decided.
CallersDecided ==
    \A r \in Requests : request[r].pc \in {"waiting", "reviewing"} ~> request[r].pc = "decided"
=============================================================================
