------------------------- MODULE AuthorizationProof -------------------------
(***************************************************************************)
(* Proofs about Authorization, for any requests, keys and generations and  *)
(* any number of invalidations.                                            *)
(***************************************************************************)
EXTENDS Authorization, TLAPS

\* The stamp s cannot become the revision R again: the global counter only
\* grows, and the other two only grow while the global one stands.
Behind(s, R) ==
    /\ s.global <= R.global
    /\ s.global = R.global => s.generation <= R.generation /\ s.key <= R.key

\* A review in flight is in the map, and its stamp is the current revision
\* exactly when nothing invalidated it.
FlightInv ==
    \A r \in Requests :
        /\ r \in inflight <=> request[r].pc = "reviewing"
        /\ request[r].tainted => request[r].pc = "reviewing"
        /\ request[r].pc = "reviewing" =>
              /\ Behind(request[r].stamp, Revision(request[r].key))
              /\ request[r].tainted <=> request[r].stamp # Revision(request[r].key)

\* What a mutation decided on did not come from the cache, and passed.
PolicyInv ==
    \A r \in Requests :
        /\ request[r].cached => request[r].kind = "read"
        /\ request[r].pc = "decided" => request[r].decision # "none"
        /\ request[r].pc = "operating" /\ request[r].kind = "mutation" =>
              request[r].decision = "allowed"

\* With TypeOK, the inductive invariant.
AuthInv == FlightInv /\ PolicyInv /\ CachedSound /\ NeverStale /\ OneLiveReview

-----------------------------------------------------------------------------
(* Type correctness *)

\* The fields of a request.
LEMMA Fields ==
    ASSUME NEW o \in Request
    PROVE  /\ o.kind \in {"read", "mutation"} /\ o.key \in Keys /\ o.on \in Requests
           /\ o.stamp \in Stamp /\ o.left \in BOOLEAN /\ o.tainted \in BOOLEAN
           /\ o.decision \in Decisions \cup {"none"} /\ o.result \in Decisions \cup {"none"}
           /\ o.cached \in BOOLEAN /\ o.stale \in BOOLEAN
           /\ o.pc \in {"idle", "waiting", "reviewing", "decided", "operating", "done"}
  BY DEF Request

\* A stamp is a record of three naturals.
LEMMA StampFields ==
    ASSUME NEW s \in Stamp
    PROVE  s.global \in Nat /\ s.generation \in Nat /\ s.key \in Nat
  BY DEF Stamp

\* The revision of a key is a stamp.
LEMMA RevisionStamp ==
    ASSUME TypeOK, NEW k \in Keys
    PROVE  /\ Revision(k) \in Stamp
           /\ Revision(k).global = globalRevision
           /\ Revision(k).generation = generationRevisions[GenOf[k]]
           /\ Revision(k).key = keyRevisions[k]
  <1>1. GenOf[k] \in Generations
    BY AuthorizationAssumption
  <1> QED BY <1>1 DEF TypeOK, Revision, Stamp

\* The updates the actions make to a request.
LEMMA HitUpdate ==
    ASSUME NEW o \in Request, NEW d \in Decisions \cup {"none"}, NEW t \in BOOLEAN
    PROVE  [o EXCEPT !.pc = "decided", !.decision = d, !.cached = TRUE, !.stale = t] \in Request
  BY DEF Request
LEMMA JoinUpdate ==
    ASSUME NEW o \in Request, NEW c \in Requests, NEW t \in BOOLEAN
    PROVE  [o EXCEPT !.pc = "waiting", !.on = c, !.stale = t] \in Request
  BY DEF Request
LEMMA ReviewUpdate ==
    ASSUME NEW o \in Request, NEW s \in Stamp
    PROVE  [o EXCEPT !.pc = "reviewing", !.stamp = s] \in Request
  BY DEF Request
LEMMA ReviewedUpdate ==
    ASSUME NEW o \in Request, NEW d \in Decisions
    PROVE  [o EXCEPT !.pc = "decided", !.decision = d, !.result = d, !.stamp = NoStamp,
                     !.tainted = FALSE, !.left = FALSE] \in Request
  BY DEF Request, NoStamp, Stamp
LEMMA WaitUpdate ==
    ASSUME NEW o \in Request, NEW d \in Decisions \cup {"none"}, NEW c \in Requests
    PROVE  [o EXCEPT !.pc = "decided", !.decision = d, !.on = c, !.left = FALSE] \in Request
  BY DEF Request
LEMMA DoneUpdate ==
    ASSUME NEW o \in Request
    PROVE  /\ [o EXCEPT !.pc = "done", !.decision = "none", !.cached = FALSE] \in Request
           /\ [o EXCEPT !.pc = "operating"] \in Request
  BY DEF Request
LEMMA FlagUpdate ==
    ASSUME NEW o \in Request
    PROVE  [o EXCEPT !.left = TRUE] \in Request /\ [o EXCEPT !.tainted = TRUE] \in Request
  BY DEF Request

\* A function stays typed when one of its values is replaced by a typed one.
LEMMA Replaced == ASSUME NEW S, NEW T, NEW f \in [S -> T], NEW s \in S, NEW v \in T
                  PROVE  [f EXCEPT ![s] = v] \in [S -> T]
  OBVIOUS

\* The empty entry, and the entries of Reviewed and Expire.
LEMMA Entries ==
    /\ NoEntry \in Entry
    /\ \A d \in Decisions, t \in BOOLEAN :
          [decision |-> d, expired |-> FALSE, tainted |-> t] \in Entry
    /\ \A e \in Entry : [e EXCEPT !.expired = TRUE] \in Entry
    /\ \A e \in Entry : e.decision \in Decisions \cup {"none"} /\ e.tainted \in BOOLEAN
  BY DEF NoEntry, Entry

\* Tainting keeps the types and touches nothing but the history.
LEMMA TaintedFacts ==
    ASSUME TypeOK, NEW ks
    PROVE  /\ Tainted(ks) \in [Requests -> Request]
           /\ \A c \in Requests :
                /\ Tainted(ks)[c].pc = request[c].pc /\ Tainted(ks)[c].kind = request[c].kind
                /\ Tainted(ks)[c].key = request[c].key /\ Tainted(ks)[c].stamp = request[c].stamp
                /\ Tainted(ks)[c].decision = request[c].decision
                /\ Tainted(ks)[c].cached = request[c].cached
                /\ Tainted(ks)[c].stale = request[c].stale
                /\ Tainted(ks)[c].tainted = (request[c].tainted \/
                       (request[c].pc = "reviewing" /\ request[c].key \in ks))
  <1>1. ASSUME NEW c \in Requests PROVE request[c] \in Request
    BY DEF TypeOK
  <1>2. Tainted(ks) \in [Requests -> Request]
    BY <1>1, FlagUpdate DEF Tainted
  <1>3. ASSUME NEW c \in Requests
        PROVE  /\ Tainted(ks)[c].pc = request[c].pc /\ Tainted(ks)[c].kind = request[c].kind
               /\ Tainted(ks)[c].key = request[c].key /\ Tainted(ks)[c].stamp = request[c].stamp
               /\ Tainted(ks)[c].decision = request[c].decision
               /\ Tainted(ks)[c].cached = request[c].cached
               /\ Tainted(ks)[c].stale = request[c].stale
               /\ Tainted(ks)[c].tainted = (request[c].tainted \/
                       (request[c].pc = "reviewing" /\ request[c].key \in ks))
    <2>1. CASE request[c].pc = "reviewing" /\ request[c].key \in ks
      <3>1. Tainted(ks)[c] = [request[c] EXCEPT !.tainted = TRUE]
        BY <2>1 DEF Tainted
      <3> QED BY <1>1, <2>1, <3>1 DEF Request
    <2>2. CASE ~ (request[c].pc = "reviewing" /\ request[c].key \in ks)
      <3>1. Tainted(ks)[c] = request[c]
        BY <2>2 DEF Tainted
      <3>2. request[c].tainted \in BOOLEAN
        BY <1>1, Fields
      <3> QED BY <2>2, <3>1, <3>2
    <2> QED BY <2>1, <2>2
  <1> QED BY <1>2, <1>3

\* Every step keeps the types.
LEMMA TypesStep == TypeOK /\ [Next]_vars => TypeOK'
  <1> SUFFICES ASSUME TypeOK, [Next]_vars PROVE TypeOK'
    OBVIOUS
  <1>0. /\ request \in [Requests -> Request] /\ cache \in [Keys -> Entry]
        /\ inflight \subseteq Requests
        /\ \A r \in Requests : request[r] \in Request
        /\ \A k \in Keys : cache[k] \in Entry
    BY DEF TypeOK
  <1>1. ASSUME NEW r \in Requests, CheckHits(r) PROVE TypeOK'
    <2> DEFINE e == cache[request[r].key]
               v == [request[r] EXCEPT !.pc = "decided", !.decision = e.decision,
                                       !.cached = TRUE, !.stale = e.tainted]
    <2>1. request' = [request EXCEPT ![r] = v]
      BY <1>1 DEF CheckHits
    <2>2. e \in Entry /\ request[r] \in Request
      BY <1>0, Fields
    <2>3. v \in Request
      BY <2>2, Entries, HitUpdate
    <2> HIDE DEF v
    <2>4. request' \in [Requests -> Request]
      BY <1>0, <2>1, <2>3, Replaced
    <2> QED BY <1>1, <2>4 DEF CheckHits, TypeOK, revisions
  <1>2. ASSUME NEW r \in Requests, NEW c \in Requests, CheckJoins(r, c) PROVE TypeOK'
    <2> DEFINE t == request[c].tainted
               v == [request[r] EXCEPT !.pc = "waiting", !.on = c, !.stale = t]
    <2>1. request' = [request EXCEPT ![r] = v]
      BY <1>2 DEF CheckJoins
    <2>2. v \in Request
      <3>1. t \in BOOLEAN /\ request[r] \in Request
        BY <1>0, Fields
      <3> QED BY <3>1, JoinUpdate
    <2>3. request[r].key \in Keys
      BY <1>0, Fields
    <2> HIDE DEF v
    <2>4. request' \in [Requests -> Request]
      BY <1>0, <2>1, <2>2, Replaced
    <2>5. cache' \in [Keys -> Entry]
      <3>1. cache' = [cache EXCEPT ![request[r].key] = NoEntry]
        BY <1>2 DEF CheckJoins, Dropped
      <3> QED BY <1>0, <2>3, <3>1, Entries, Replaced
    <2> QED BY <1>2, <2>4, <2>5 DEF CheckJoins, TypeOK, revisions
  <1>3. ASSUME NEW r \in Requests, CheckReviews(r) PROVE TypeOK'
    <2> DEFINE v == [request[r] EXCEPT !.pc = "reviewing", !.stamp = Revision(request[r].key)]
    <2>1. request' = [request EXCEPT ![r] = v]
      BY <1>3 DEF CheckReviews
    <2>2. request[r].key \in Keys
      BY <1>0, Fields
    <2>3. v \in Request
      BY <1>0, <2>2, RevisionStamp, ReviewUpdate
    <2> HIDE DEF v
    <2>4. request' \in [Requests -> Request]
      BY <1>0, <2>1, <2>3, Replaced
    <2>5. cache' \in [Keys -> Entry]
      <3>1. cache' = [cache EXCEPT ![request[r].key] = NoEntry]
        BY <1>3 DEF CheckReviews, Dropped
      <3> QED BY <1>0, <2>2, <3>1, Entries, Replaced
    <2> QED BY <1>3, <2>4, <2>5 DEF CheckReviews, TypeOK, revisions
  <1>4. ASSUME NEW r \in Requests, NEW d \in Decisions, Reviewed(r, d) PROVE TypeOK'
    <2> DEFINE v == [request[r] EXCEPT !.pc = "decided", !.decision = d, !.result = d,
                        !.stamp = NoStamp, !.tainted = FALSE, !.left = FALSE]
               e == [decision |-> d, expired |-> FALSE, tainted |-> request[r].tainted]
    <2>1. /\ request' = [request EXCEPT ![r] = v]
          /\ cache' = cache \/ cache' = [cache EXCEPT ![request[r].key] = e]
      BY <1>4 DEF Reviewed
    <2>2. request[r].key \in Keys /\ request[r].tainted \in BOOLEAN
      BY <1>0, Fields
    <2>3. v \in Request /\ e \in Entry
      BY <1>0, <2>2, ReviewedUpdate, Entries
    <2> HIDE DEF v, e
    <2>4. request' \in [Requests -> Request]
      BY <1>0, <2>1, <2>3, Replaced
    <2>5. cache' \in [Keys -> Entry]
      BY <1>0, <2>1, <2>2, <2>3, Replaced
    <2> QED BY <1>4, <2>4, <2>5 DEF Reviewed, TypeOK, revisions
  <1>5. ASSUME NEW r \in Requests, Answered(r) \/ Abandoned(r) PROVE TypeOK'
    <2>1. PICK d \in Decisions \cup {"none"} : request' = [request EXCEPT ![r] =
             [request[r] EXCEPT !.pc = "decided", !.decision = d, !.on = r, !.left = FALSE]]
      <3>1. request[r].on \in Requests
        BY <1>0, Fields
      <3>2. request[request[r].on].result \in Decisions \cup {"none"}
        BY <1>0, <3>1, Fields
      <3>3. "canceled" \in Decisions
        BY DEF Decisions
      <3> QED BY <1>5, <3>2, <3>3 DEF Answered, Abandoned
    <2> DEFINE v == [request[r] EXCEPT !.pc = "decided", !.decision = d, !.on = r,
                                       !.left = FALSE]
    <2>2. v \in Request
      BY <1>0, WaitUpdate
    <2>3. request' = [request EXCEPT ![r] = v]
      BY <2>1
    <2> HIDE DEF v
    <2>4. request' \in [Requests -> Request]
      BY <1>0, <2>2, <2>3, Replaced
    <2> QED BY <1>5, <2>4 DEF Answered, Abandoned, TypeOK, revisions
  <1>6. ASSUME NEW r \in Requests,
               RevalidateRefuses(r) \/ RevalidatePasses(r) \/ OperationEnds(r) \/ ContextDone(r)
        PROVE  TypeOK'
    <2>1. PICK v : v \in Request /\ request' = [request EXCEPT ![r] = v]
      BY <1>0, <1>6, DoneUpdate, FlagUpdate
         DEF RevalidateRefuses, RevalidatePasses, OperationEnds, ContextDone
    <2>2. request' \in [Requests -> Request]
      BY <1>0, <2>1, Replaced
    <2> QED BY <1>6, <2>2 DEF RevalidateRefuses, RevalidatePasses, OperationEnds, ContextDone,
                              TypeOK, revisions
  <1>7. ASSUME NEW r \in Requests, OperationForbidden(r) PROVE TypeOK'
    <2> DEFINE k == request[r].key
               f == Tainted({k})
    <2>1. k \in Keys /\ f \in [Requests -> Request]
      BY <1>0, Fields, TaintedFacts
    <2>2. request' = [f EXCEPT ![r] =
                         [f[r] EXCEPT !.pc = "done", !.decision = "none", !.cached = FALSE]]
      BY <1>7 DEF OperationForbidden
    <2> HIDE DEF f
    <2>3. request' \in [Requests -> Request]
      BY <2>1, <2>2, DoneUpdate, Replaced
    <2>4. cache' \in [Keys -> Entry]
      BY <1>0, <1>7, <2>1, Entries, Replaced DEF OperationForbidden
    <2>5. keyRevisions' \in [Keys -> Nat]
      BY <1>7, <2>1 DEF OperationForbidden, TypeOK
    <2> QED BY <1>7, <2>3, <2>4, <2>5 DEF OperationForbidden, TypeOK
  <1>8. ASSUME NEW g \in Generations, InvalidateGeneration(g) PROVE TypeOK'
    <2>1. request' \in [Requests -> Request]
      BY <1>8, TaintedFacts DEF InvalidateGeneration
    <2>2. cache' \in [Keys -> Entry]
      BY <1>0, <1>8, Entries DEF InvalidateGeneration
    <2>3. generationRevisions' \in [Generations -> Nat]
      BY <1>8 DEF InvalidateGeneration, TypeOK
    <2> QED BY <1>8, <2>1, <2>2, <2>3 DEF InvalidateGeneration, TypeOK
  <1>9. CASE InvalidateAll
    <2>1. request' \in [Requests -> Request]
      BY <1>9, TaintedFacts DEF InvalidateAll
    <2>2. cache' \in [Keys -> Entry]
      BY <1>9, Entries DEF InvalidateAll
    <2> QED BY <1>9, <2>1, <2>2 DEF InvalidateAll, TypeOK
  <1>10. ASSUME NEW k \in Keys, Expire(k) PROVE TypeOK'
    <2>1. cache' \in [Keys -> Entry]
      BY <1>0, <1>10, Entries, Replaced DEF Expire
    <2> QED BY <1>10, <2>1 DEF Expire, TypeOK, revisions
  <1>11. CASE UNCHANGED vars
    BY <1>11 DEF vars, TypeOK
  <1>12. ASSUME NEW r \in Requests, Review(r) PROVE TypeOK'
    BY <1>4, <1>12 DEF Review
  <1> QED BY <1>1, <1>2, <1>3, <1>5, <1>6, <1>7, <1>8, <1>9, <1>10, <1>11, <1>12, Zenon DEF Next

\* The initial state is well typed.
LEMMA InitTypes == Init => TypeOK
  <1> SUFFICES ASSUME Init PROVE TypeOK
    OBVIOUS
  <1>1. request \in [Requests -> Request]
    <2>1. PICK kind \in [Requests -> {"read", "mutation"}], key \in [Requests -> Keys] :
             request = [r \in Requests |->
                [pc |-> "idle", kind |-> kind[r], key |-> key[r], on |-> r, stamp |-> NoStamp,
                 left |-> FALSE, decision |-> "none", cached |-> FALSE,
                 result |-> "none", tainted |-> FALSE, stale |-> FALSE]]
      BY DEF Init
    <2>2. NoStamp \in Stamp
      BY DEF NoStamp, Stamp
    <2> HIDE DEF NoStamp, Stamp
    <2> QED BY <2>1, <2>2 DEF Request
  <1>2. cache \in [Keys -> Entry]
    BY Entries DEF Init
  <1> QED BY <1>1, <1>2 DEF Init, TypeOK

\* The service's state keeps its type under every interleaving of requests,
\* reviews and invalidations.
THEOREM AuthTypes == Spec => []TypeOK
  BY InitTypes, TypesStep, PTL DEF Spec

-----------------------------------------------------------------------------
(* The inductive invariant *)

\* A step that neither starts nor ends a review and invalidates nothing keeps
\* what is known of the reviews in flight.
LEMMA FlightsKept ==
    ASSUME FlightInv, OneLiveReview, inflight' = inflight, UNCHANGED revisions,
           \A c \in Requests :
              /\ request'[c].pc = "reviewing" <=> request[c].pc = "reviewing"
              /\ request'[c].key = request[c].key /\ request'[c].stamp = request[c].stamp
              /\ request'[c].tainted = request[c].tainted
    PROVE  FlightInv' /\ OneLiveReview'
  <1>1. \A k : Revision(k)' = Revision(k)
    BY DEF Revision, revisions
  <1>2. FlightInv'
    BY <1>1 DEF FlightInv, Behind
  <1>3. OneLiveReview'
    BY DEF OneLiveReview
  <1> QED BY <1>2, <1>3

\* A request that ends its check, its policy or its operation.
LEMMA QuietKeeps ==
    ASSUME TypeOK, TypeOK', AuthInv, NEW r \in Requests,
           Answered(r) \/ Abandoned(r) \/ RevalidateRefuses(r) \/ RevalidatePasses(r)
             \/ OperationEnds(r) \/ ContextDone(r)
    PROVE  AuthInv'
  <1>0. request[r] \in Request
    BY DEF TypeOK
  <1>1. /\ cache' = cache /\ inflight' = inflight /\ UNCHANGED revisions
        /\ \A c \in Requests \ {r} : request'[c] = request[c]
    BY DEF Answered, Abandoned, RevalidateRefuses, RevalidatePasses, OperationEnds,
           ContextDone, TypeOK
  <1>2. /\ request'[r].pc = "reviewing" <=> request[r].pc = "reviewing"
        /\ request'[r].key = request[r].key /\ request'[r].stamp = request[r].stamp
        /\ request'[r].tainted = request[r].tainted /\ request'[r].kind = request[r].kind
        /\ request'[r].stale = request[r].stale
        /\ request'[r].cached => request[r].cached
        /\ request'[r].pc = "operating" =>
              /\ request'[r].decision = request[r].decision /\ ~ Refuses(r)
              /\ request[r].pc = "decided"
        /\ request'[r].pc = "decided" => request'[r].decision # "none"
    <2>1. CASE Answered(r)
      BY <1>0, <2>1 DEF Answered, TypeOK, Request
    <2>2. CASE Abandoned(r)
      BY <1>0, <2>2 DEF Abandoned, TypeOK, Request
    <2>3. CASE RevalidateRefuses(r)
      BY <1>0, <2>3 DEF RevalidateRefuses, TypeOK, Request
    <2>4. CASE RevalidatePasses(r)
      BY <1>0, <2>4 DEF RevalidatePasses, TypeOK, Request
    <2>5. CASE OperationEnds(r)
      BY <1>0, <2>5 DEF OperationEnds, TypeOK, Request
    <2>6. CASE ContextDone(r)
      BY <1>0, <2>6 DEF ContextDone, TypeOK, Request
    <2> QED BY <2>1, <2>2, <2>3, <2>4, <2>5, <2>6
  <1>3. FlightInv' /\ OneLiveReview'
    BY <1>1, <1>2, FlightsKept DEF AuthInv
  <1>4. PolicyInv'
    <2>1. ASSUME NEW c \in Requests
          PROVE  /\ request'[c].cached => request'[c].kind = "read"
                 /\ request'[c].pc = "decided" => request'[c].decision # "none"
                 /\ request'[c].pc = "operating" /\ request'[c].kind = "mutation" =>
                       request'[c].decision = "allowed"
      <3>1. CASE c = r
        <4>1. request'[r].decision \in Decisions \cup {"none"}
          BY Fields DEF TypeOK
        <4> QED BY <1>2, <3>1, <4>1 DEF AuthInv, PolicyInv, Refuses, Decisions
      <3>2. CASE c # r
        BY <1>1, <3>2 DEF AuthInv, PolicyInv
      <3> QED BY <3>1, <3>2
    <2> QED BY <2>1 DEF PolicyInv
  <1>5. CachedSound'
    BY <1>1 DEF AuthInv, CachedSound
  <1>6. NeverStale'
    BY <1>1, <1>2 DEF AuthInv, NeverStale
  <1> QED BY <1>3, <1>4, <1>5, <1>6 DEF AuthInv

\* A cached decision is taken: it is sound, and a mutation never takes one.
LEMMA HitsKeeps ==
    ASSUME TypeOK, TypeOK', AuthInv, NEW r \in Requests, CheckHits(r)
    PROVE  AuthInv'
  <1>0. request[r] \in Request /\ request[r].key \in Keys
    BY Fields DEF TypeOK
  <1> DEFINE e == cache[request[r].key]
  <1>1. /\ cache' = cache /\ inflight' = inflight /\ UNCHANGED revisions
        /\ \A c \in Requests \ {r} : request'[c] = request[c]
    BY DEF CheckHits, TypeOK
  <1>2. /\ request[r].pc = "idle" /\ request'[r].pc = "decided"
        /\ request'[r].key = request[r].key /\ request'[r].stamp = request[r].stamp
        /\ request'[r].tainted = request[r].tainted /\ request'[r].kind = request[r].kind
        /\ request'[r].stale = e.tainted /\ request'[r].decision = e.decision
        /\ Hit(r)
    BY <1>0 DEF CheckHits, TypeOK, Request
  <1>3. FlightInv' /\ OneLiveReview'
    BY <1>1, <1>2, FlightsKept DEF AuthInv
  <1>4. PolicyInv'
    <2> SUFFICES ASSUME NEW c \in Requests
                 PROVE  /\ request'[c].cached => request'[c].kind = "read"
                        /\ request'[c].pc = "decided" => request'[c].decision # "none"
                        /\ request'[c].pc = "operating" /\ request'[c].kind = "mutation" =>
                              request'[c].decision = "allowed"
      BY DEF PolicyInv
    <2>1. request[r].kind = "read" /\ e.decision # "none"
      BY <1>0, <1>2, Fields DEF Hit, Bypass
    <2> QED BY <1>1, <1>2, <2>1 DEF AuthInv, PolicyInv
  <1>5. CachedSound'
    BY <1>1 DEF AuthInv, CachedSound
  <1>6. NeverStale'
    BY <1>0, <1>1, <1>2 DEF AuthInv, NeverStale, CachedSound
  <1> QED BY <1>3, <1>4, <1>5, <1>6 DEF AuthInv

\* A joined review carries the current revision, so nothing invalidated it.
LEMMA JoinsKeeps ==
    ASSUME TypeOK, TypeOK', AuthInv, NEW r \in Requests, NEW d \in Requests, CheckJoins(r, d)
    PROVE  AuthInv'
  <1>0. request[r] \in Request /\ request[r].key \in Keys /\ request[d] \in Request
    BY Fields DEF TypeOK
  <1>1. /\ cache' = [cache EXCEPT ![request[r].key] = NoEntry]
        /\ inflight' = inflight /\ UNCHANGED revisions
        /\ \A c \in Requests \ {r} : request'[c] = request[c]
    BY DEF CheckJoins, Dropped, TypeOK
  <1>2. /\ request[r].pc = "idle" /\ request'[r].pc = "waiting"
        /\ request'[r].key = request[r].key /\ request'[r].stamp = request[r].stamp
        /\ request'[r].tainted = request[r].tainted /\ request'[r].kind = request[r].kind
        /\ request'[r].stale = request[d].tainted
        /\ request'[r].cached = request[r].cached
        /\ Shares(r, d)
    BY <1>0 DEF CheckJoins, TypeOK, Request
  <1>3. FlightInv' /\ OneLiveReview'
    BY <1>1, <1>2, FlightsKept DEF AuthInv
  <1>4. PolicyInv'
    <2> SUFFICES ASSUME NEW c \in Requests
                 PROVE  /\ request'[c].cached => request'[c].kind = "read"
                        /\ request'[c].pc = "decided" => request'[c].decision # "none"
                        /\ request'[c].pc = "operating" /\ request'[c].kind = "mutation" =>
                              request'[c].decision = "allowed"
      BY DEF PolicyInv
    <2> QED BY <1>1, <1>2 DEF AuthInv, PolicyInv
  <1>5. CachedSound'
    BY <1>0, <1>1 DEF AuthInv, CachedSound, TypeOK, NoEntry
  <1>6. NeverStale'
    <2>1. request[d].pc = "reviewing" /\ request[d].stamp = Revision(request[d].key)
      BY <1>2 DEF Shares, AuthInv, FlightInv
    <2>2. ~ request[d].tainted
      BY <2>1 DEF AuthInv, FlightInv
    <2> QED BY <1>1, <1>2, <2>2 DEF AuthInv, NeverStale
  <1> QED BY <1>3, <1>4, <1>5, <1>6 DEF AuthInv

\* A new review is the only one of its key with the current revision.
LEMMA ReviewsKeeps ==
    ASSUME TypeOK, TypeOK', AuthInv, NEW r \in Requests, CheckReviews(r)
    PROVE  AuthInv'
  <1>0. request[r] \in Request /\ request[r].key \in Keys
    BY Fields DEF TypeOK
  <1>1. /\ cache' = [cache EXCEPT ![request[r].key] = NoEntry]
        /\ inflight' = inflight \cup {r} /\ UNCHANGED revisions
        /\ \A c \in Requests \ {r} : request'[c] = request[c]
        /\ \A c \in Requests : ~ Shares(r, c)
    BY DEF CheckReviews, Dropped, TypeOK
  <1>2. /\ request[r].pc = "idle" /\ request'[r].pc = "reviewing"
        /\ request'[r].key = request[r].key
        /\ request'[r].stamp = Revision(request[r].key)
        /\ request'[r].tainted = request[r].tainted /\ request'[r].kind = request[r].kind
        /\ request'[r].stale = request[r].stale /\ request'[r].cached = request[r].cached
    BY <1>0 DEF CheckReviews, TypeOK, Request
  <1>3. \A k : Revision(k)' = Revision(k)
    BY <1>1 DEF Revision, revisions
  <1>33. ~ request[r].tainted
    BY <1>2 DEF AuthInv, FlightInv
  <1>4. FlightInv'
    <2> SUFFICES ASSUME NEW c \in Requests
                 PROVE  /\ c \in inflight' <=> request'[c].pc = "reviewing"
                        /\ request'[c].tainted => request'[c].pc = "reviewing"
                        /\ request'[c].pc = "reviewing" =>
                             /\ Behind(request'[c].stamp, Revision(request'[c].key))
                             /\ request'[c].tainted <=>
                                   request'[c].stamp # Revision(request'[c].key)
      BY <1>3 DEF FlightInv, Behind
    <2>1. CASE c = r
      <3>1. Behind(Revision(request[r].key), Revision(request[r].key))
        BY <1>0, RevisionStamp, StampFields DEF Behind
      <3> QED BY <1>1, <1>2, <1>33, <2>1, <3>1
    <2>2. CASE c # r
      BY <1>1, <2>2 DEF AuthInv, FlightInv
    <2> QED BY <2>1, <2>2
  <1>5. OneLiveReview'
    <2>1. ASSUME NEW c \in Requests \ {r}, request[c].pc = "reviewing",
                 request[c].key = request[r].key
          PROVE  request[c].tainted
      <3>1. c \in inflight /\ request[c].stamp # Revision(request[r].key)
        BY <1>1, <2>1 DEF AuthInv, FlightInv, Shares
      <3> QED BY <2>1, <3>1 DEF AuthInv, FlightInv
    <2>2. ASSUME NEW a \in Requests, NEW b \in Requests,
                 request'[a].pc = "reviewing", request'[b].pc = "reviewing",
                 request'[a].key = request'[b].key,
                 ~ request'[a].tainted, ~ request'[b].tainted
          PROVE  a = b
      <3>1. CASE a # r /\ b # r
        BY <1>1, <2>2, <3>1 DEF AuthInv, OneLiveReview
      <3>2. CASE a = r /\ b # r
        BY <1>1, <1>2, <2>1, <2>2, <3>2
      <3>3. CASE a # r /\ b = r
        BY <1>1, <1>2, <2>1, <2>2, <3>3
      <3> QED BY <3>1, <3>2, <3>3
    <2> QED BY <2>2 DEF OneLiveReview
  <1>6. PolicyInv'
    <2> SUFFICES ASSUME NEW c \in Requests
                 PROVE  /\ request'[c].cached => request'[c].kind = "read"
                        /\ request'[c].pc = "decided" => request'[c].decision # "none"
                        /\ request'[c].pc = "operating" /\ request'[c].kind = "mutation" =>
                              request'[c].decision = "allowed"
      BY DEF PolicyInv
    <2> QED BY <1>1, <1>2 DEF AuthInv, PolicyInv
  <1>7. CachedSound'
    BY <1>0, <1>1 DEF AuthInv, CachedSound, TypeOK, NoEntry
  <1>8. NeverStale'
    BY <1>1, <1>2 DEF AuthInv, NeverStale
  <1> QED BY <1>4, <1>5, <1>6, <1>7, <1>8 DEF AuthInv

\* A result reaches the cache only under an unchanged revision.
LEMMA ReviewedKeeps ==
    ASSUME TypeOK, TypeOK', AuthInv, NEW r \in Requests, NEW d \in Decisions, Reviewed(r, d)
    PROVE  AuthInv'
  <1>0. request[r] \in Request /\ request[r].key \in Keys
    BY Fields DEF TypeOK
  <1>1. /\ inflight' = inflight \ {r} /\ UNCHANGED revisions
        /\ \A c \in Requests \ {r} : request'[c] = request[c]
    BY DEF Reviewed, TypeOK
  <1>2. /\ request[r].pc = "reviewing" /\ request'[r].pc = "decided"
        /\ request'[r].decision = d /\ request'[r].tainted = FALSE
        /\ request'[r].kind = request[r].kind
        /\ request'[r].stale = request[r].stale /\ request'[r].cached = request[r].cached
    BY <1>0 DEF Reviewed, TypeOK, Request
  <1>3. \A k : Revision(k)' = Revision(k)
    BY <1>1 DEF Revision, revisions
  <1>4. FlightInv'
    <2> SUFFICES ASSUME NEW c \in Requests
                 PROVE  /\ c \in inflight' <=> request'[c].pc = "reviewing"
                        /\ request'[c].tainted => request'[c].pc = "reviewing"
                        /\ request'[c].pc = "reviewing" =>
                             /\ Behind(request'[c].stamp, Revision(request'[c].key))
                             /\ request'[c].tainted <=>
                                   request'[c].stamp # Revision(request'[c].key)
      BY <1>3 DEF FlightInv, Behind
    <2>1. CASE c = r
      BY <1>1, <1>2, <2>1
    <2>2. CASE c # r
      BY <1>1, <2>2 DEF AuthInv, FlightInv
    <2> QED BY <2>1, <2>2
  <1>5. OneLiveReview'
    BY <1>1, <1>2 DEF AuthInv, OneLiveReview
  <1>6. PolicyInv'
    <2> SUFFICES ASSUME NEW c \in Requests
                 PROVE  /\ request'[c].cached => request'[c].kind = "read"
                        /\ request'[c].pc = "decided" => request'[c].decision # "none"
                        /\ request'[c].pc = "operating" /\ request'[c].kind = "mutation" =>
                              request'[c].decision = "allowed"
      BY DEF PolicyInv
    <2>1. d # "none"
      BY DEF Decisions
    <2> QED BY <1>1, <1>2, <2>1 DEF AuthInv, PolicyInv
  <1>7. CachedSound'
    <2>1. CASE Cacheable(r, d)
      <3>1. cache' = [cache EXCEPT ![request[r].key] =
                         [decision |-> d, expired |-> FALSE, tainted |-> request[r].tainted]]
        BY <2>1 DEF Reviewed
      <3>2. ~ request[r].tainted /\ d # "canceled"
        BY <1>2, <2>1 DEF Cacheable, AuthInv, FlightInv
      <3> QED BY <1>0, <3>1, <3>2 DEF AuthInv, CachedSound, TypeOK
    <2>2. CASE ~ Cacheable(r, d)
      BY <2>2 DEF Reviewed, AuthInv, CachedSound
    <2> QED BY <2>1, <2>2
  <1>8. NeverStale'
    BY <1>1, <1>2 DEF AuthInv, NeverStale
  <1> QED BY <1>4, <1>5, <1>6, <1>7, <1>8 DEF AuthInv

\* An invalidation of the keys ks moves their revision past every stamp in
\* flight, and taints exactly the reviews it covers.
LEMMA Invalidated ==
    ASSUME TypeOK, TypeOK', FlightInv, OneLiveReview, NEW ks, inflight' = inflight,
           \A c \in Requests :
              /\ request'[c].pc = "reviewing" <=> request[c].pc = "reviewing"
              /\ request'[c].key = request[c].key /\ request'[c].stamp = request[c].stamp
              /\ request'[c].tainted = (request[c].tainted \/
                     (request[c].pc = "reviewing" /\ request[c].key \in ks)),
           \A k \in Keys : k \notin ks => Revision(k)' = Revision(k),
           \A k \in Keys, s \in Stamp : k \in ks /\ Behind(s, Revision(k)) =>
              Behind(s, Revision(k)') /\ s # Revision(k)'
    PROVE  FlightInv' /\ OneLiveReview'
  <1>1. ASSUME NEW c \in Requests
        PROVE  /\ c \in inflight' <=> request'[c].pc = "reviewing"
               /\ request'[c].tainted => request'[c].pc = "reviewing"
               /\ request'[c].pc = "reviewing" =>
                    /\ Behind(request'[c].stamp, Revision(request[c].key)')
                    /\ request'[c].tainted <=> request'[c].stamp # Revision(request[c].key)'
    <2>1. request[c].key \in Keys /\ request[c].stamp \in Stamp
      BY Fields DEF TypeOK
    <2>2. PICK k \in Keys : k = request[c].key
      BY <2>1
    <2>3. request'[c].key = k
      BY <2>2
    <2>4. /\ c \in inflight <=> request[c].pc = "reviewing"
          /\ request[c].tainted => request[c].pc = "reviewing"
          /\ request[c].pc = "reviewing" =>
               /\ Behind(request[c].stamp, Revision(k))
               /\ request[c].tainted <=> request[c].stamp # Revision(k)
      BY <2>2 DEF FlightInv
    <2>5. request[c].pc = "reviewing" =>
               /\ Behind(request'[c].stamp, Revision(k)')
               /\ request'[c].tainted <=> request'[c].stamp # Revision(k)'
      <3>1. CASE k \in ks
        BY <2>1, <2>2, <2>4, <3>1
      <3>2. CASE k \notin ks
        BY <2>1, <2>2, <2>4, <3>2
      <3> QED BY <3>1, <3>2
    <2>6. Revision(k)' = Revision(request[c].key)'
      BY <2>2, <2>3 DEF Revision
    <2> QED BY <2>4, <2>5, <2>6
  <1>2. FlightInv'
    BY <1>1 DEF FlightInv, Behind
  <1>3. OneLiveReview'
    BY DEF OneLiveReview
  <1> QED BY <1>2, <1>3

\* A 403 moves the key's own counter.
LEMMA ForbiddenKeeps ==
    ASSUME TypeOK, TypeOK', AuthInv, NEW r \in Requests, OperationForbidden(r)
    PROVE  AuthInv'
  <1>0. PICK k \in Keys : k = request[r].key
    BY Fields DEF TypeOK
  <1> DEFINE f == Tainted({k})
  <1>1. /\ request[r].pc = "operating"
        /\ keyRevisions' = [keyRevisions EXCEPT ![k] = @ + 1]
        /\ globalRevision' = globalRevision /\ generationRevisions' = generationRevisions
        /\ cache' = [cache EXCEPT ![k] = NoEntry] /\ inflight' = inflight
        /\ request' = [f EXCEPT ![r] =
                         [f[r] EXCEPT !.pc = "done", !.decision = "none", !.cached = FALSE]]
    BY <1>0 DEF OperationForbidden
  <1>2. /\ f \in [Requests -> Request]
        /\ \A c \in Requests :
             /\ f[c].pc = request[c].pc /\ f[c].kind = request[c].kind
             /\ f[c].key = request[c].key /\ f[c].stamp = request[c].stamp
             /\ f[c].decision = request[c].decision /\ f[c].cached = request[c].cached
             /\ f[c].stale = request[c].stale
             /\ f[c].tainted = (request[c].tainted \/
                    (request[c].pc = "reviewing" /\ request[c].key \in {k}))
    BY TaintedFacts
  <1> HIDE DEF f
  <1>3. /\ \A c \in Requests \ {r} : request'[c] = f[c]
        /\ request'[r].pc = "done" /\ request'[r].kind = f[r].kind
        /\ request'[r].key = f[r].key /\ request'[r].stamp = f[r].stamp
        /\ request'[r].cached = FALSE /\ request'[r].stale = f[r].stale
        /\ request'[r].tainted = f[r].tainted
    BY <1>1, <1>2 DEF Request
  <1>4. FlightInv' /\ OneLiveReview'
    <2>1. \A c \in Requests :
              /\ request'[c].pc = "reviewing" <=> request[c].pc = "reviewing"
              /\ request'[c].key = request[c].key /\ request'[c].stamp = request[c].stamp
              /\ request'[c].tainted = (request[c].tainted \/
                     (request[c].pc = "reviewing" /\ request[c].key \in {k}))
      BY <1>1, <1>2, <1>3
    <2>2. \A j \in Keys : j \notin {k} => Revision(j)' = Revision(j)
      BY <1>1 DEF Revision, TypeOK
    <2>3. ASSUME NEW s \in Stamp, Behind(s, Revision(k))
          PROVE  Behind(s, Revision(k)') /\ s # Revision(k)'
      <3>1. /\ Revision(k)'.global = Revision(k).global
            /\ Revision(k)'.generation = Revision(k).generation
            /\ Revision(k)'.key = Revision(k).key + 1
        BY <1>1 DEF Revision, TypeOK
      <3>2. Revision(k) \in Stamp
        BY RevisionStamp
      <3> QED BY <2>3, <3>1, <3>2, StampFields DEF Behind
    <2>4. \A j \in Keys, s \in Stamp : j \in {k} /\ Behind(s, Revision(j)) =>
              Behind(s, Revision(j)') /\ s # Revision(j)'
      BY <2>3
    <2>5. FlightInv /\ OneLiveReview
      BY DEF AuthInv
    <2> QED BY <1>1, <2>1, <2>2, <2>4, <2>5, Invalidated
  <1>5. PolicyInv'
    <2> SUFFICES ASSUME NEW c \in Requests
                 PROVE  /\ request'[c].cached => request'[c].kind = "read"
                        /\ request'[c].pc = "decided" => request'[c].decision # "none"
                        /\ request'[c].pc = "operating" /\ request'[c].kind = "mutation" =>
                              request'[c].decision = "allowed"
      BY DEF PolicyInv
    <2> QED BY <1>2, <1>3 DEF AuthInv, PolicyInv
  <1>6. CachedSound'
    BY <1>1 DEF AuthInv, CachedSound, TypeOK, NoEntry
  <1>7. NeverStale'
    BY <1>2, <1>3 DEF AuthInv, NeverStale
  <1> QED BY <1>4, <1>5, <1>6, <1>7 DEF AuthInv

\* An invalidation of a generation moves its counter.
LEMMA GenerationKeeps ==
    ASSUME TypeOK, TypeOK', AuthInv, NEW g \in Generations, InvalidateGeneration(g)
    PROVE  AuthInv'
  <1> DEFINE ks == {k \in Keys : GenOf[k] = g}
  <1>1. /\ generationRevisions' = [generationRevisions EXCEPT ![g] = @ + 1]
        /\ globalRevision' = globalRevision /\ keyRevisions' = keyRevisions
        /\ cache' = [k \in Keys |-> IF k \in ks THEN NoEntry ELSE cache[k]]
        /\ inflight' = inflight /\ request' = Tainted(ks)
    BY DEF InvalidateGeneration
  <1>2. \A c \in Requests :
             /\ request'[c].pc = request[c].pc /\ request'[c].kind = request[c].kind
             /\ request'[c].key = request[c].key /\ request'[c].stamp = request[c].stamp
             /\ request'[c].decision = request[c].decision
             /\ request'[c].cached = request[c].cached
             /\ request'[c].stale = request[c].stale
             /\ request'[c].tainted = (request[c].tainted \/
                    (request[c].pc = "reviewing" /\ request[c].key \in ks))
    BY <1>1, TaintedFacts
  <1>3. FlightInv' /\ OneLiveReview'
    <2>1. \A j \in Keys : j \notin ks => Revision(j)' = Revision(j)
      BY <1>1, AuthorizationAssumption DEF Revision, TypeOK
    <2>2. ASSUME NEW k \in Keys, NEW s \in Stamp, k \in ks, Behind(s, Revision(k))
          PROVE  Behind(s, Revision(k)') /\ s # Revision(k)'
      <3>1. /\ Revision(k)'.global = Revision(k).global
            /\ Revision(k)'.generation = Revision(k).generation + 1
            /\ Revision(k)'.key = Revision(k).key
        BY <1>1, <2>2 DEF Revision, TypeOK
      <3>2. Revision(k) \in Stamp
        BY RevisionStamp
      <3> QED BY <2>2, <3>1, <3>2, StampFields DEF Behind
    <2>3. FlightInv /\ OneLiveReview
      BY DEF AuthInv
    <2> HIDE DEF ks
    <2> QED BY <1>1, <1>2, <2>1, <2>2, <2>3, Invalidated
  <1>4. PolicyInv'
    <2> SUFFICES ASSUME NEW c \in Requests
                 PROVE  /\ request'[c].cached => request'[c].kind = "read"
                        /\ request'[c].pc = "decided" => request'[c].decision # "none"
                        /\ request'[c].pc = "operating" /\ request'[c].kind = "mutation" =>
                              request'[c].decision = "allowed"
      BY DEF PolicyInv
    <2> QED BY <1>2 DEF AuthInv, PolicyInv
  <1>5. CachedSound'
    BY <1>1 DEF AuthInv, CachedSound, NoEntry
  <1>6. NeverStale'
    BY <1>2 DEF AuthInv, NeverStale
  <1> QED BY <1>3, <1>4, <1>5, <1>6 DEF AuthInv

\* InvalidateAll restarts the other counters, but moves the global one.
LEMMA AllKeeps ==
    ASSUME TypeOK, TypeOK', AuthInv, InvalidateAll
    PROVE  AuthInv'
  <1>1. /\ globalRevision' = globalRevision + 1
        /\ cache' = [k \in Keys |-> NoEntry]
        /\ inflight' = inflight /\ request' = Tainted(Keys)
    BY DEF InvalidateAll
  <1>2. \A c \in Requests :
             /\ request'[c].pc = request[c].pc /\ request'[c].kind = request[c].kind
             /\ request'[c].key = request[c].key /\ request'[c].stamp = request[c].stamp
             /\ request'[c].decision = request[c].decision
             /\ request'[c].cached = request[c].cached
             /\ request'[c].stale = request[c].stale
             /\ request'[c].tainted = (request[c].tainted \/
                    (request[c].pc = "reviewing" /\ request[c].key \in Keys))
    BY <1>1, TaintedFacts
  <1>3. FlightInv' /\ OneLiveReview'
    <2>1. ASSUME NEW k \in Keys, NEW s \in Stamp, Behind(s, Revision(k))
          PROVE  Behind(s, Revision(k)') /\ s # Revision(k)'
      <3>1. Revision(k)'.global = Revision(k).global + 1
        BY <1>1 DEF Revision
      <3>2. Revision(k) \in Stamp
        BY RevisionStamp
      <3> QED BY <2>1, <3>1, <3>2, StampFields DEF Behind
    <2>2. FlightInv /\ OneLiveReview
      BY DEF AuthInv
    <2> QED BY <1>1, <1>2, <2>1, <2>2, Invalidated
  <1>4. PolicyInv'
    <2> SUFFICES ASSUME NEW c \in Requests
                 PROVE  /\ request'[c].cached => request'[c].kind = "read"
                        /\ request'[c].pc = "decided" => request'[c].decision # "none"
                        /\ request'[c].pc = "operating" /\ request'[c].kind = "mutation" =>
                              request'[c].decision = "allowed"
      BY DEF PolicyInv
    <2> QED BY <1>2 DEF AuthInv, PolicyInv
  <1>5. CachedSound'
    BY <1>1 DEF CachedSound, NoEntry
  <1>6. NeverStale'
    BY <1>2 DEF AuthInv, NeverStale
  <1> QED BY <1>3, <1>4, <1>5, <1>6 DEF AuthInv

\* The end of a TTL.
LEMMA ExpireKeeps ==
    ASSUME TypeOK, TypeOK', AuthInv, NEW k \in Keys, Expire(k)
    PROVE  AuthInv'
  <1>1. /\ inflight' = inflight /\ request' = request /\ UNCHANGED revisions
        /\ cache' = [cache EXCEPT ![k] = [cache[k] EXCEPT !.expired = TRUE]]
        /\ cache[k] \in Entry
    BY DEF Expire, TypeOK
  <1>2. FlightInv' /\ OneLiveReview'
    BY <1>1, FlightsKept DEF AuthInv
  <1>3. PolicyInv' /\ NeverStale'
    BY <1>1 DEF AuthInv, PolicyInv, NeverStale
  <1>4. CachedSound'
    BY <1>1 DEF AuthInv, CachedSound, TypeOK, Entry
  <1> QED BY <1>2, <1>3, <1>4 DEF AuthInv

\* Nothing is in flight and nothing is cached at first.
LEMMA InitInv == Init => AuthInv
  <1> SUFFICES ASSUME Init PROVE AuthInv
    OBVIOUS
  <1>1. \A r \in Requests : /\ request[r].pc = "idle" /\ ~ request[r].tainted
                            /\ ~ request[r].stale /\ ~ request[r].cached
    <2>1. PICK kind \in [Requests -> {"read", "mutation"}], key \in [Requests -> Keys] :
             request = [r \in Requests |->
                [pc |-> "idle", kind |-> kind[r], key |-> key[r], on |-> r, stamp |-> NoStamp,
                 left |-> FALSE, decision |-> "none", cached |-> FALSE,
                 result |-> "none", tainted |-> FALSE, stale |-> FALSE]]
      BY DEF Init
    <2> QED BY <2>1
  <1>2. FlightInv /\ PolicyInv /\ NeverStale /\ OneLiveReview
    BY <1>1 DEF Init, FlightInv, PolicyInv, NeverStale, OneLiveReview
  <1>3. CachedSound
    BY DEF Init, CachedSound, NoEntry
  <1> QED BY <1>2, <1>3 DEF AuthInv

\* The inductive invariant of the decision service: a stamp equals the
\* current revision exactly while nothing has invalidated its review.
THEOREM AuthHolds == Spec => [](TypeOK /\ AuthInv)
  <1>1. TypeOK /\ AuthInv /\ [Next]_vars => (TypeOK /\ AuthInv)'
    <2> SUFFICES ASSUME TypeOK, AuthInv, [Next]_vars PROVE TypeOK' /\ AuthInv'
      OBVIOUS
    <2>0. TypeOK'
      BY TypesStep
    <2>1. ASSUME NEW r \in Requests, CheckHits(r) PROVE AuthInv'
      BY <2>0, <2>1, HitsKeeps
    <2>2. ASSUME NEW r \in Requests, NEW c \in Requests, CheckJoins(r, c) PROVE AuthInv'
      BY <2>0, <2>2, JoinsKeeps
    <2>3. ASSUME NEW r \in Requests, CheckReviews(r) PROVE AuthInv'
      BY <2>0, <2>3, ReviewsKeeps
    <2>4. ASSUME NEW r \in Requests, Review(r) PROVE AuthInv'
      BY <2>0, <2>4, ReviewedKeeps DEF Review
    <2>5. ASSUME NEW r \in Requests,
                 Answered(r) \/ Abandoned(r) \/ RevalidateRefuses(r) \/ RevalidatePasses(r)
                   \/ OperationEnds(r) \/ ContextDone(r)
          PROVE  AuthInv'
      BY <2>0, <2>5, QuietKeeps
    <2>6. ASSUME NEW r \in Requests, OperationForbidden(r) PROVE AuthInv'
      BY <2>0, <2>6, ForbiddenKeeps
    <2>7. ASSUME NEW g \in Generations, InvalidateGeneration(g) PROVE AuthInv'
      BY <2>0, <2>7, GenerationKeeps
    <2>8. ASSUME InvalidateAll PROVE AuthInv'
      BY <2>0, <2>8, AllKeeps
    <2>9. ASSUME NEW k \in Keys, Expire(k) PROVE AuthInv'
      BY <2>0, <2>9, ExpireKeeps
    <2>10. ASSUME UNCHANGED vars PROVE AuthInv'
      <3>1. /\ inflight' = inflight /\ request' = request /\ cache' = cache
            /\ UNCHANGED revisions
        BY <2>10 DEF vars, revisions
      <3>2. FlightInv' /\ OneLiveReview'
        BY <3>1, FlightsKept DEF AuthInv
      <3> QED BY <3>1, <3>2 DEF AuthInv, PolicyInv, NeverStale, CachedSound
    <2> QED BY <2>0, <2>1, <2>2, <2>3, <2>4, <2>5, <2>6, <2>7, <2>8, <2>9, <2>10, Zenon DEF Next
  <1> QED BY InitTypes, InitInv, <1>1, PTL DEF Spec

\* A late review never revives a decision that InvalidateAll,
\* InvalidateGeneration or a 403 removed.
THEOREM AuthCachedSound == Spec => []CachedSound
  <1>1. AuthInv => CachedSound
    BY DEF AuthInv
  <1> QED BY AuthHolds, <1>1, PTL

\* No request is answered, from the cache or by joining a review, with what
\* was already invalidated when it arrived.
THEOREM AuthNeverStale == Spec => []NeverStale
  <1>1. AuthInv => NeverStale
    BY DEF AuthInv
  <1> QED BY AuthHolds, <1>1, PTL

\* Guard runs a mutation only on the allowed answer of a live review.
THEOREM AuthMutationReviewed == Spec => []MutationReviewed
  <1>1. TypeOK /\ AuthInv => MutationReviewed
    <2> SUFFICES ASSUME TypeOK, AuthInv, NEW r \in Requests, request[r].pc = "operating",
                        request[r].kind = "mutation"
                 PROVE  request[r].decision = "allowed" /\ ~ request[r].cached
      BY DEF MutationReviewed
    <2>1. PolicyInv
      BY DEF AuthInv
    <2> QED BY <2>1 DEF PolicyInv
  <1> QED BY AuthHolds, <1>1, PTL

\* Overlapping requests send one review per key and revision.
THEOREM AuthOneLiveReview == Spec => []OneLiveReview
  <1>1. AuthInv => OneLiveReview
    BY DEF AuthInv
  <1> QED BY AuthHolds, <1>1, PTL

\* No decision outlives its invalidation, no mutation runs without a review of
\* its own, and overlapping requests share one.
THEOREM AuthDecisionsSound == Spec => []DecisionsSound
  <1>1. CachedSound /\ NeverStale /\ MutationReviewed /\ OneLiveReview => DecisionsSound
    BY DEF DecisionsSound
  <1> QED BY <1>1, AuthCachedSound, AuthNeverStale, AuthMutationReviewed, AuthOneLiveReview, PTL
=============================================================================
