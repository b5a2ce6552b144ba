------------------------- MODULE ResourceCacheProof -------------------------
(***************************************************************************)
(* The snapshot cache, for any keys, generations, subscriptions, snapshot  *)
(* sizes and budgets, and above one of its cells the watch worker and its  *)
(* readers (Watch), for any number of objects, workers, readers, versions  *)
(* and failures and any length of queue.                                   *)
(***************************************************************************)
EXTENDS ResourceCache, Watch, FiniteSetTheorems, SequenceTheorems, TLAPS

\* The subscriptions that hold a reference to k: Close gives it back only
\* under the lock, after the closed flag was set.
Live(k) == {s \in Subs : sub[s].pc \in {"open", "closing"} /\ sub[s].key = k}

\* The reference counts are exact.
RefsInv == \A k \in Keys : refs[k] = Cardinality(Live(k))

\* InvalidateGeneration walks cache.keys: nothing cached and nothing that can
\* still be committed is missing there.
KnownInv ==
    /\ Cached \subseteq known
    /\ \A s \in Subs : sub[s].pc \in {"open", "closing"} => sub[s].key \in known

\* The token of an open subscription never runs ahead of the epochs, and a
\* token that equals both of them is the newest refresh of its key and newer
\* than its last invalidation.
TokenSound(t, k) ==
    LET g == GenerationOf[k] IN
    /\ t.keyEpoch <= keyEpoch[k]
    /\ t.generationEpoch <= generationEpoch[g]
    /\ (t.keyEpoch = keyEpoch[k] /\ t.generationEpoch = generationEpoch[g]) =>
           t.issue = issued[k] /\ t.issue > cut[k]

TokenInv ==
    \A s \in Subs : (sub[s].pc = "open" /\ sub[s].token.issue > 0) =>
                        TokenSound(sub[s].token, sub[s].key)

\* An invalidation is never newer than the history of its key.
CutInv == \A k \in Keys : cut[k] <= issued[k]

\* A subscription that was never opened has no refresh token.
RestInv == \A s \in Subs : sub[s].pc = "none" => sub[s].token = NoToken

\* With TypeOK, the inductive invariant.
CacheInv ==
    RefsInv /\ KnownInv /\ TokenInv /\ CutInv /\ RestInv /\ InvalidatedStaysOut

-----------------------------------------------------------------------------
(* Type correctness *)

\* The updates of single fields that the actions make to an entry keep its
\* type and its origin.
LEMMA EntryUpdates ==
    ASSUME NEW e \in Entry, NEW n \in Nat, NEW b \in BOOLEAN
    PROVE  /\ [e EXCEPT !.lastUsed = n] \in Entry
           /\ [e EXCEPT !.refreshing = b] \in Entry
           /\ [e EXCEPT !.refreshing = b, !.lastUsed = n] \in Entry
           /\ [e EXCEPT !.freshUntil = n, !.refreshing = b] \in Entry
           /\ [e EXCEPT !.lastUsed = n].issue = e.issue
           /\ [e EXCEPT !.refreshing = b].issue = e.issue
           /\ [e EXCEPT !.refreshing = b, !.lastUsed = n].issue = e.issue
           /\ [e EXCEPT !.freshUntil = n, !.refreshing = b].issue = e.issue
  BY DEF Entry

\* A committed snapshot is an entry that carries its refresh.
LEMMA CommittedType ==
    ASSUME NEW k \in Keys, NEW size \in Sizes, NEW i \in Nat, clock \in Nat
    PROVE  Committed(k, size, i) \in Entry /\ Committed(k, size, i).issue = i
  BY ResourceCacheAssumption DEF Committed, Entry

\* The updates the actions make to a subscription.
LEMMA SubscriptionUpdates ==
    ASSUME NEW o \in Subscription
    PROVE  /\ \A pc \in {"none", "open", "closing", "closed"} :
                /\ [o EXCEPT !.pc = pc] \in Subscription
                /\ \A n \in Nat : [o EXCEPT !.pc = pc, !.generationEpoch = n] \in Subscription
           /\ \A t \in Token : [o EXCEPT !.token = t] \in Subscription
  BY DEF Subscription

\* The absence of a token is a token.
LEMMA NoTokenType == NoToken \in Token /\ NoToken.issue = 0
  BY DEF Token, NoToken

\* The types of what a subscription holds.
LEMMA SubscriptionFields ==
    ASSUME NEW o \in Subscription
    PROVE  /\ o.key \in Keys /\ o.generationEpoch \in Nat /\ o.token \in Token
           /\ o.token.issue \in Nat /\ o.token.keyEpoch \in Nat
           /\ o.token.generationEpoch \in Nat
  BY DEF Subscription, Token

\* The fields a step leaves alone.
LEMMA SubscriptionKeeps ==
    ASSUME NEW o \in Subscription
    PROVE  /\ \A pc : LET p == [o EXCEPT !.pc = pc] IN
                p.pc = pc /\ p.key = o.key /\ p.token = o.token
           /\ \A t : LET p == [o EXCEPT !.token = t] IN
                p.pc = o.pc /\ p.key = o.key /\ p.token = t
           /\ \A pc, n : LET p == [o EXCEPT !.pc = pc, !.generationEpoch = n] IN
                p.pc = pc /\ p.key = o.key /\ p.token = o.token
  BY DEF Subscription

\* Init is well typed.
LEMMA InitTypes == Init => TypeOK
  <1> SUFFICES ASSUME Init PROVE TypeOK
    OBVIOUS
  <1>1. sub \in [Subs -> Subscription]
    <2>1. {NoToken} \subseteq Token
      BY DEF Token, NoToken
    <2>2. [pc : {"none"}, key : Keys, generationEpoch : {0}, token : {NoToken}]
              \subseteq Subscription
      BY <2>1 DEF Subscription
    <2> QED BY <2>2 DEF Init
  <1> QED BY <1>1 DEF Init, TypeOK

\* The steps of one subscription keep the types.
LEMMA SubscriberTypes ==
    ASSUME TypeOK, NEW s \in Subs,
           \/ Subscribe(s) \/ Load(s) \/ BeginRefresh(s) \/ Commit(s)
           \/ AbortRefresh(s) \/ MarkStale(s) \/ CloseFlag(s) \/ CloseRelease(s)
    PROVE  TypeOK'
  <1> DEFINE k == KeyOf(s)
  <1>1. sub[s] \in Subscription
    BY DEF TypeOK
  <1>2. k \in Keys /\ GenerationOf[k] \in Generations
    BY <1>1, SubscriptionFields, ResourceCacheAssumption DEF KeyOf
  <1>3. entries[k] # NoEntry => entries[k] \in Entry
    BY <1>2 DEF TypeOK
  <1> HIDE DEF k
  <1>0. /\ sub[s] \in Subscription /\ k \in Keys /\ GenerationOf[k] \in Generations
        /\ clock \in Nat /\ keyEpoch[k] \in Nat /\ refs[k] \in Nat /\ issued[k] \in Nat
        /\ generationEpoch[GenerationOf[k]] \in Nat
        /\ sub[s].generationEpoch \in Nat /\ sub[s].token.issue \in Nat
        /\ entries[k] # NoEntry => entries[k] \in Entry
    BY <1>1, <1>2, <1>3, SubscriptionFields DEF TypeOK
  <1>4. CASE Subscribe(s)
    <2>1. sub' \in [Subs -> Subscription]
      BY <1>0, <1>4, SubscriptionUpdates DEF Subscribe, k, TypeOK
    <2>2. refs' \in [Keys -> Nat] /\ known' \subseteq Keys
      BY <1>0, <1>4 DEF Subscribe, k, TypeOK
    <2> QED BY <1>4, <2>1, <2>2 DEF Subscribe, TypeOK
  <1>5. CASE Load(s)
    <2>1. entries' \in [Keys -> Entry \cup {NoEntry}]
      BY <1>0, <1>5, EntryUpdates DEF Load, EntryOf, k, TypeOK
    <2> QED BY <1>5, <2>1 DEF Load, TypeOK
  <1>6. CASE BeginRefresh(s)
    <2>1. entries' \in [Keys -> Entry \cup {NoEntry}]
      BY <1>0, <1>6, EntryUpdates DEF BeginRefresh, k, TypeOK
    <2>2. [generationEpoch |-> sub[s].generationEpoch, keyEpoch |-> keyEpoch[k] + 1,
           issue |-> issued[k] + 1] \in Token
      BY <1>0 DEF Token
    <2>3. sub' \in [Subs -> Subscription]
      BY <1>0, <1>6, <2>2, SubscriptionUpdates DEF BeginRefresh, k, TypeOK
    <2>4. keyEpoch' \in [Keys -> Nat] /\ issued' \in [Keys -> Nat]
      BY <1>0, <1>6 DEF BeginRefresh, k, TypeOK
    <2> QED BY <1>6, <2>1, <2>3, <2>4 DEF BeginRefresh, TypeOK
  <1>7. ASSUME NEW size \in Sizes, CommitStores(s, size) PROVE TypeOK'
    <2>1. PICK gone \in SUBSET Evictable(k) :
            /\ entries' = [j \in Keys |-> IF j = k THEN Committed(k, size, sub[s].token.issue)
                                          ELSE IF j \in gone THEN NoEntry ELSE entries[j]]
            /\ known' = known \ Forgotten(gone)
            /\ keyEpoch' = [j \in Keys |-> IF j \in Forgotten(gone) THEN 0 ELSE keyEpoch[j]]
      BY <1>7 DEF CommitStores, k
    <2>2. Committed(k, size, sub[s].token.issue) \in Entry
      BY <1>0, CommittedType
    <2>3. entries' \in [Keys -> Entry \cup {NoEntry}]
      BY <2>1, <2>2 DEF TypeOK
    <2>4. sub' \in [Subs -> Subscription]
      BY <1>0, <1>7, NoTokenType, SubscriptionUpdates DEF CommitStores, TypeOK
    <2>5. keyEpoch' \in [Keys -> Nat] /\ known' \subseteq Keys
      BY <2>1 DEF TypeOK
    <2> QED BY <1>7, <2>3, <2>4, <2>5 DEF CommitStores, TypeOK
  <1>8. ASSUME NEW size \in Sizes, CommitFull(s, size) PROVE TypeOK'
    <2>1. entries' \in [Keys -> Entry \cup {NoEntry}]
      BY <1>0, <1>8, EntryUpdates DEF CommitFull, k, TypeOK
    <2> QED BY <1>8, <2>1 DEF CommitFull, TypeOK
  <1>9. CASE AbortRefresh(s)
    <2>1. entries' \in [Keys -> Entry \cup {NoEntry}]
      BY <1>0, <1>9, EntryUpdates DEF AbortRefresh, EntryOf, k, TypeOK
    <2>2. sub' \in [Subs -> Subscription]
      BY <1>0, <1>9, NoTokenType, SubscriptionUpdates DEF AbortRefresh, TypeOK
    <2> QED BY <1>9, <2>1, <2>2 DEF AbortRefresh, TypeOK
  <1>10. CASE MarkStale(s)
    <2>1. entries' \in [Keys -> Entry \cup {NoEntry}]
      BY <1>0, <1>10, EntryUpdates DEF MarkStale, EntryOf, k, TypeOK
    <2> QED BY <1>10, <2>1 DEF MarkStale, TypeOK
  <1>11. CASE CloseFlag(s)
    BY <1>0, <1>11, SubscriptionUpdates DEF CloseFlag, TypeOK
  <1>12. CASE CloseRelease(s)
    <2>1. sub' \in [Subs -> Subscription]
      BY <1>0, <1>12, SubscriptionUpdates DEF CloseRelease, TypeOK
    <2>2. /\ refs' \in [Keys -> Nat] /\ known' \subseteq Keys
          /\ keyEpoch' \in [Keys -> Nat]
      BY <1>0, <1>12 DEF CloseRelease, k, TypeOK
    <2> QED BY <1>12, <2>1, <2>2 DEF CloseRelease, TypeOK
  <1> QED BY <1>4, <1>5, <1>6, <1>7, <1>8, <1>9, <1>10, <1>11, <1>12 DEF Commit

\* The steps of the cache itself keep the types.
LEMMA CacheTypes ==
    ASSUME TypeOK,
           \/ \E k \in Keys : Invalidate(k)
           \/ \E g \in Generations : InvalidateGeneration(g)
           \/ EvictInactive \/ Tick
    PROVE  TypeOK'
  <1>1. ASSUME NEW k \in Keys, Invalidate(k) PROVE TypeOK'
    BY <1>1 DEF Invalidate, TypeOK
  <1>2. ASSUME NEW g \in Generations, InvalidateGeneration(g) PROVE TypeOK'
    <2>1. entries' \in [Keys -> Entry \cup {NoEntry}] /\ keyEpoch' \in [Keys -> Nat]
      BY <1>2 DEF InvalidateGeneration, TypeOK
    <2>2. issued' \in [Keys -> Nat] /\ cut' \in [Keys -> Nat]
      BY <1>2 DEF InvalidateGeneration, TypeOK
    <2>3. /\ generationEpoch' \in [Generations -> Nat] /\ known' \subseteq Keys
          /\ invalidated' \subseteq Generations
      BY <1>2 DEF InvalidateGeneration, TypeOK
    <2> QED BY <1>2, <2>1, <2>2, <2>3 DEF InvalidateGeneration, TypeOK
  <1>3. CASE EvictInactive
    BY <1>3 DEF EvictInactive, TypeOK
  <1>4. CASE Tick
    BY <1>4 DEF Tick, TypeOK
  <1> QED BY <1>1, <1>2, <1>3, <1>4

\* Every step keeps the types.
LEMMA TypesStep == TypeOK /\ [Next]_vars => TypeOK'
  <1> SUFFICES ASSUME TypeOK, [Next]_vars PROVE TypeOK'
    OBVIOUS
  <1>1. CASE Next
    BY <1>1, SubscriberTypes, CacheTypes, Zenon DEF Next
  <1>2. CASE UNCHANGED vars
    BY <1>2 DEF vars, TypeOK
  <1> QED BY <1>1, <1>2

\* The cache's maps, epochs and subscriptions keep their types under every
\* interleaving of cache.go's methods.
THEOREM CacheTypeCorrect == Spec => []TypeOK
  BY InitTypes, TypesStep, PTL DEF Spec

-----------------------------------------------------------------------------
(* References *)

\* The subscriptions of a key are finitely many.
LEMMA LiveFinite ==
    ASSUME NEW k \in Keys
    PROVE  IsFiniteSet(Live(k)) /\ Cardinality(Live(k)) \in Nat
  <1>1. Live(k) \in SUBSET Subs
    BY DEF Live
  <1>2. IsFiniteSet(Live(k))
    BY <1>1, FS_Subset, ResourceCacheAssumption
  <1> QED BY <1>2, FS_CardinalityType

\* A key some subscription holds is referenced, and a single reference is
\* held by a single subscription.
LEMMA RefHeld ==
    ASSUME TypeOK, RefsInv, NEW s \in Subs, sub[s].pc \in {"open", "closing"}
    PROVE  /\ sub[s].key \in Keys
           /\ refs[sub[s].key] > 0
           /\ refs[sub[s].key] <= 1 =>
                \A q \in Subs : (sub[q].pc \in {"open", "closing"} /\ sub[q].key = sub[s].key)
                                    => q = s
  <1> DEFINE k == sub[s].key
  <1>1. k \in Keys
    BY SubscriptionFields DEF TypeOK
  <1> HIDE DEF k
  <1>2. s \in Live(k)
    BY DEF Live, k
  <1>3. IsFiniteSet(Live(k)) /\ Cardinality(Live(k)) \in Nat
    BY <1>1, LiveFinite
  <1>4. Cardinality(Live(k)) # 0
    BY <1>2, <1>3, FS_EmptySet
  <1>5. refs[k] = Cardinality(Live(k))
    BY <1>1 DEF RefsInv
  <1>6. refs[k] > 0
    BY <1>3, <1>4, <1>5
  <1>7. ASSUME refs[k] <= 1, NEW q \in Live(k) PROVE q = s
    <2>1. Cardinality(Live(k)) = 1
      BY <1>3, <1>5, <1>6, <1>7
    <2>2. PICK x : Live(k) = {x}
      BY <1>3, <2>1, FS_Singleton
    <2> QED BY <1>2, <1>7, <2>2
  <1> QED BY <1>1, <1>6, <1>7 DEF Live, k

\* The entries whose key is forgotten have no open or closing subscription.
LEMMA ForgottenUnheld ==
    ASSUME TypeOK, RefsInv, NEW gone, NEW s \in Subs, sub[s].pc \in {"open", "closing"}
    PROVE  sub[s].key \notin Forgotten(gone)
  BY RefHeld DEF Forgotten, TypeOK

\* A step that moves no subscription into or out of Live keeps it.
LEMMA LiveSame ==
    ASSUME RefsInv, refs' = refs,
           \A q \in Subs : /\ sub'[q].key = sub[q].key
                           /\ sub'[q].pc \in {"open", "closing"} <=>
                                sub[q].pc \in {"open", "closing"}
    PROVE  RefsInv'
  <1> SUFFICES ASSUME NEW k \in Keys PROVE refs'[k] = Cardinality(Live(k)')
    BY DEF RefsInv
  <1>1. Live(k)' = Live(k)
    BY DEF Live
  <1> QED BY <1>1 DEF RefsInv

\* A step of s changes no other subscription and not its key.
Moved(s, pc, t) ==
    /\ sub'[s].pc = pc /\ sub'[s].key = sub[s].key /\ sub'[s].token = t
    /\ \A q \in Subs \ {s} : sub'[q] = sub[q]

\* How each action moves its subscription.
LEMMA Moves ==
    ASSUME TypeOK, NEW s \in Subs
    PROVE  /\ Subscribe(s) => Moved(s, "open", sub[s].token)
           /\ BeginRefresh(s) =>
                Moved(s, "open", [generationEpoch |-> sub[s].generationEpoch,
                                  keyEpoch |-> keyEpoch[KeyOf(s)] + 1,
                                  issue |-> issued[KeyOf(s)] + 1])
           /\ \A size \in Sizes : CommitStores(s, size) => Moved(s, "open", NoToken)
           /\ AbortRefresh(s) => Moved(s, sub[s].pc, NoToken)
           /\ CloseFlag(s) => Moved(s, "closing", sub[s].token)
           /\ CloseRelease(s) => Moved(s, "closed", sub[s].token)
  <1>0. sub[s] \in Subscription
    BY DEF TypeOK
  <1>1. ASSUME Subscribe(s) PROVE Moved(s, "open", sub[s].token)
    <2>1. /\ sub'[s] = [sub[s] EXCEPT !.pc = "open",
                           !.generationEpoch = generationEpoch[GenerationOf[KeyOf(s)]]]
          /\ \A q \in Subs \ {s} : sub'[q] = sub[q]
      BY <1>1 DEF Subscribe, TypeOK
    <2> QED BY <1>0, <2>1, SubscriptionKeeps DEF Moved
  <1>2. ASSUME NEW t, sub' = [sub EXCEPT ![s] = [@ EXCEPT !.token = t]]
        PROVE  Moved(s, sub[s].pc, t)
    <2>1. /\ sub'[s] = [sub[s] EXCEPT !.token = t]
          /\ \A q \in Subs \ {s} : sub'[q] = sub[q]
      BY <1>2 DEF TypeOK
    <2> QED BY <1>0, <2>1, SubscriptionKeeps DEF Moved
  <1>3. ASSUME NEW pc, sub' = [sub EXCEPT ![s] = [@ EXCEPT !.pc = pc]]
        PROVE  Moved(s, pc, sub[s].token)
    <2>1. /\ sub'[s] = [sub[s] EXCEPT !.pc = pc]
          /\ \A q \in Subs \ {s} : sub'[q] = sub[q]
      BY <1>3 DEF TypeOK
    <2> QED BY <1>0, <2>1, SubscriptionKeeps DEF Moved
  <1>4. ASSUME BeginRefresh(s)
        PROVE  Moved(s, "open", [generationEpoch |-> sub[s].generationEpoch,
                                 keyEpoch |-> keyEpoch[KeyOf(s)] + 1,
                                 issue |-> issued[KeyOf(s)] + 1])
    BY <1>2, <1>4 DEF BeginRefresh
  <1>5. ASSUME NEW size \in Sizes, CommitStores(s, size) PROVE Moved(s, "open", NoToken)
    BY <1>2, <1>5 DEF CommitStores
  <1> QED BY <1>1, <1>2, <1>3, <1>4, <1>5 DEF AbortRefresh, CloseFlag, CloseRelease

\* The reference counts stay exact.
LEMMA RefsStep ==
    ASSUME TypeOK, RefsInv, Next PROVE RefsInv'
  <1>1. ASSUME NEW s \in Subs, Subscribe(s) PROVE RefsInv'
    <2> DEFINE k == KeyOf(s)
    <2>1. sub[s] \in Subscription /\ sub[s].pc = "none" /\ k = sub[s].key /\ k \in Keys
      BY <1>1, SubscriptionFields DEF Subscribe, TypeOK, KeyOf
    <2>2. /\ sub'[s].pc = "open" /\ sub'[s].key = k
          /\ \A q \in Subs \ {s} : sub'[q] = sub[q]
      BY <1>1, <2>1, Moves DEF Moved
    <2>3. refs' = [refs EXCEPT ![k] = @ + 1]
      BY <1>1 DEF Subscribe
    <2> SUFFICES ASSUME NEW j \in Keys PROVE refs'[j] = Cardinality(Live(j)')
      BY DEF RefsInv
    <2> HIDE DEF k
    <2>4. CASE j = k
      <3>1. Live(j)' = Live(j) \cup {s} /\ s \notin Live(j)
        BY <2>1, <2>2, <2>4 DEF Live
      <3>2. Cardinality(Live(j)') = Cardinality(Live(j)) + 1
        BY <3>1, LiveFinite, FS_AddElement
      <3> QED BY <2>3, <2>4, <3>2 DEF RefsInv, TypeOK
    <2>5. CASE j # k
      <3>1. Live(j)' = Live(j)
        BY <2>1, <2>2, <2>5 DEF Live
      <3> QED BY <2>3, <2>5, <3>1 DEF RefsInv, TypeOK
    <2> QED BY <2>4, <2>5
  <1>2. ASSUME NEW s \in Subs, CloseRelease(s) PROVE RefsInv'
    <2> DEFINE k == KeyOf(s)
    <2>1. sub[s] \in Subscription /\ sub[s].pc = "closing" /\ k = sub[s].key /\ k \in Keys
      BY <1>2, SubscriptionFields DEF CloseRelease, TypeOK, KeyOf
    <2>2. /\ sub'[s].pc = "closed" /\ sub'[s].key = k
          /\ \A q \in Subs \ {s} : sub'[q] = sub[q]
      BY <1>2, <2>1, Moves DEF Moved
    <2>3. refs' = [refs EXCEPT ![k] = IF @ > 1 THEN @ - 1 ELSE 0]
      BY <1>2 DEF CloseRelease
    <2>4. refs[k] > 0 /\ refs[k] \in Nat
      BY <2>1, RefHeld DEF TypeOK
    <2> SUFFICES ASSUME NEW j \in Keys PROVE refs'[j] = Cardinality(Live(j)')
      BY DEF RefsInv
    <2> HIDE DEF k
    <2>5. CASE j = k
      <3>1. Live(j)' = Live(j) \ {s} /\ s \in Live(j)
        BY <2>1, <2>2, <2>5 DEF Live
      <3>2. Cardinality(Live(j)') = Cardinality(Live(j)) - 1
        BY <3>1, LiveFinite, FS_RemoveElement
      <3>3. refs'[j] = refs[j] - 1
        BY <2>1, <2>3, <2>4, <2>5 DEF TypeOK
      <3> QED BY <3>2, <3>3 DEF RefsInv
    <2>6. CASE j # k
      <3>1. Live(j)' = Live(j)
        BY <2>1, <2>2, <2>6 DEF Live
      <3> QED BY <2>3, <2>6, <3>1 DEF RefsInv, TypeOK
    <2> QED BY <2>5, <2>6
  <1>3. ASSUME NEW s \in Subs, CloseFlag(s) PROVE RefsInv'
    BY <1>3, Moves, LiveSame DEF CloseFlag, Moved
  <1>4. ASSUME NEW s \in Subs, BeginRefresh(s) \/ Commit(s) \/ AbortRefresh(s)
        PROVE  RefsInv'
    <2>1. refs' = refs
      BY <1>4 DEF BeginRefresh, Commit, CommitStores, CommitFull, AbortRefresh
    <2>2. CASE BeginRefresh(s)
      BY <2>1, <2>2, Moves, LiveSame, ZenonT(60) DEF BeginRefresh, Moved
    <2>3. ASSUME NEW size \in Sizes, CommitStores(s, size) PROVE RefsInv'
      BY <2>1, <2>3, Moves, LiveSame DEF CommitStores, Moved
    <2>4. ASSUME NEW size \in Sizes, CommitFull(s, size) PROVE RefsInv'
      BY <2>1, <2>4, LiveSame DEF CommitFull
    <2>5. CASE AbortRefresh(s)
      BY <2>1, <2>5, Moves, LiveSame DEF Moved
    <2> QED BY <1>4, <2>2, <2>3, <2>4, <2>5 DEF Commit
  <1>5. ASSUME NEW s \in Subs, Load(s) \/ MarkStale(s) PROVE RefsInv'
    BY <1>5, LiveSame DEF Load, MarkStale
  <1>6. ASSUME NEW k \in Keys, Invalidate(k) PROVE RefsInv'
    BY <1>6, LiveSame DEF Invalidate
  <1>7. ASSUME NEW g \in Generations, InvalidateGeneration(g) PROVE RefsInv'
    BY <1>7, LiveSame DEF InvalidateGeneration
  <1>8. CASE EvictInactive \/ Tick
    BY <1>8, LiveSame DEF EvictInactive, Tick
  <1> QED BY <1>1, <1>2, <1>3, <1>4, <1>5, <1>6, <1>7, <1>8, Zenon DEF Next

-----------------------------------------------------------------------------
(* The fence *)

\* A step that neither stores nor drops an entry, nor changes where one came
\* from.
Quiet ==
    \A j \in Keys : /\ entries'[j] = NoEntry <=> entries[j] = NoEntry
                    /\ entries[j] # NoEntry => entries'[j].issue = entries[j].issue

\* Reading, refreshing flags, freshness and reference counts are quiet.
LEMMA QuietSteps ==
    ASSUME TypeOK,
           \/ \E s \in Subs : \/ Subscribe(s) \/ Load(s) \/ BeginRefresh(s) \/ AbortRefresh(s)
                              \/ MarkStale(s) \/ CloseFlag(s) \/ CloseRelease(s)
                              \/ \E size \in Sizes : CommitFull(s, size)
           \/ Tick
    PROVE  Quiet
  <1>1. ASSUME NEW k \in Keys, NEW e \in Entry, e.issue = entries[k].issue,
               entries[k] # NoEntry, entries' = [entries EXCEPT ![k] = e]
        PROVE  Quiet
    BY <1>1, ResourceCacheAssumption DEF Quiet, TypeOK
  <1>2. CASE entries' = entries
    BY <1>2 DEF Quiet
  <1>3. ASSUME NEW s \in Subs,
               \/ Subscribe(s) \/ Load(s) \/ BeginRefresh(s) \/ AbortRefresh(s)
               \/ MarkStale(s) \/ CloseFlag(s) \/ CloseRelease(s)
               \/ \E size \in Sizes : CommitFull(s, size),
               entries' # entries
        PROVE  Quiet
    <2> DEFINE k == KeyOf(s)
    <2>1. k \in Keys /\ clock \in Nat
      BY SubscriptionFields, SMTT(30) DEF TypeOK, KeyOf
    <2> HIDE DEF k
    <2>2. entries[k] # NoEntry
      BY <1>3 DEF Subscribe, Load, BeginRefresh, AbortRefresh, MarkStale, CloseFlag,
                  CloseRelease, CommitFull, EntryOf, k
    <2>3. entries[k] \in Entry
      BY <2>1, <2>2, SMTT(30) DEF TypeOK
    <2>4. \/ entries' = [entries EXCEPT ![k] = [entries[k] EXCEPT !.lastUsed = clock]]
          \/ entries' = [entries EXCEPT ![k] = [entries[k] EXCEPT !.refreshing = TRUE,
                                                                  !.lastUsed = clock]]
          \/ entries' = [entries EXCEPT ![k] = [entries[k] EXCEPT !.refreshing = FALSE]]
          \/ entries' = [entries EXCEPT ![k] = [entries[k] EXCEPT !.freshUntil = clock,
                                                                  !.refreshing = FALSE]]
      BY <1>3, <2>1 DEF Subscribe, Load, BeginRefresh, AbortRefresh, MarkStale, CloseFlag,
                  CloseRelease, CommitFull, EntryOf, k, TypeOK
    <2> QED BY <1>1, <2>1, <2>2, <2>3, <2>4, EntryUpdates
  <1> QED BY <1>2, <1>3 DEF Tick

\* Nothing cached or committable is missing from cache.keys.
LEMMA KnownStep ==
    ASSUME TypeOK, RefsInv, KnownInv, Next PROVE KnownInv'
  <1> DEFINE Holds(q) == sub[q].pc \in {"open", "closing"}
  <1>1. ASSUME NEW s \in Subs, Subscribe(s) PROVE KnownInv'
    <2>1. entries' = entries /\ known' = known \cup {sub[s].key}
      BY <1>1 DEF Subscribe, KeyOf
    <2>2. sub'[s].key = sub[s].key /\ \A q \in Subs \ {s} : sub'[q] = sub[q]
      BY <1>1, Moves DEF Moved
    <2> QED BY <2>1, <2>2 DEF KnownInv, Cached
  <1>2. ASSUME NEW s \in Subs, Load(s) \/ MarkStale(s) \/ BeginRefresh(s) \/ AbortRefresh(s)
                  \/ CloseFlag(s) \/ \E size \in Sizes : CommitFull(s, size)
        PROVE  KnownInv'
    <2>1. Quiet
      BY <1>2, QuietSteps
    <2>2. known' = known
      BY <1>2 DEF Load, MarkStale, BeginRefresh, AbortRefresh, CloseFlag, CommitFull
    <2>3. \A q \in Subs : sub'[q].key = sub[q].key /\ (Holds(q)' => Holds(q))
      <3>1. CASE sub' = sub
        BY <3>1
      <3>2. CASE BeginRefresh(s) \/ AbortRefresh(s) \/ CloseFlag(s)
        BY <3>2, Moves DEF Moved, BeginRefresh, CloseFlag
      <3> QED BY <1>2, <3>1, <3>2 DEF Load, MarkStale, CommitFull
    <2> QED BY <2>1, <2>2, <2>3 DEF KnownInv, Cached, Quiet
  <1>3. ASSUME NEW s \in Subs, NEW size \in Sizes, CommitStores(s, size) PROVE KnownInv'
    <2> DEFINE k == KeyOf(s)
    <2>0. sub[s].pc = "open" /\ k = sub[s].key
      BY <1>3 DEF CommitStores, KeyOf
    <2>1. PICK gone \in SUBSET Evictable(k) :
            /\ entries' = [j \in Keys |-> IF j = k THEN Committed(k, size, sub[s].token.issue)
                                          ELSE IF j \in gone THEN NoEntry ELSE entries[j]]
            /\ known' = known \ Forgotten(gone)
      BY <1>3 DEF CommitStores
    <2>2. /\ \A q \in Subs : sub'[q].key = sub[q].key /\ (Holds(q)' => Holds(q))
      BY <1>3, <2>0, Moves DEF Moved
    <2>3. \A q \in Subs : Holds(q)' => sub'[q].key \in known'
      BY <2>1, <2>2, ForgottenUnheld DEF KnownInv
    <2>4. k \in known'
      BY <2>0, <2>1, ForgottenUnheld DEF KnownInv
    <2>5. Cached' \subseteq known'
      BY <2>1, <2>4 DEF KnownInv, Cached, Forgotten
    <2> QED BY <2>3, <2>5 DEF KnownInv
  <1>4. ASSUME NEW s \in Subs, CloseRelease(s) PROVE KnownInv'
    <2>1. entries' = entries /\ sub[s].pc = "closing"
      BY <1>4 DEF CloseRelease
    <2>2. \A q \in Subs : sub'[q].key = sub[q].key /\ (Holds(q)' => Holds(q) /\ q # s)
      BY <1>4, Moves DEF Moved
    <2>3. CASE known' = known
      BY <2>1, <2>2, <2>3 DEF KnownInv, Cached
    <2>4. CASE /\ known' = known \ {sub[s].key} /\ refs[sub[s].key] <= 1
               /\ entries[sub[s].key] = NoEntry
      <3>1. \A q \in Subs : Holds(q)' => sub'[q].key # sub[s].key
        BY <2>1, <2>2, <2>4, RefHeld
      <3> QED BY <2>1, <2>2, <2>4, <3>1 DEF KnownInv, Cached
    <2> QED BY <1>4, <2>3, <2>4 DEF CloseRelease, KeyOf
  <1>5. ASSUME NEW gone, known' = known \ Forgotten(gone), sub' = sub,
               \A j \in Keys : entries'[j] = entries[j] \/ entries'[j] = NoEntry,
               \A j \in gone \cap Cached : entries'[j] = NoEntry
        PROVE  KnownInv'
    BY <1>5, ForgottenUnheld DEF KnownInv, Cached, Forgotten
  <1>6. ASSUME NEW k \in Keys, Invalidate(k) PROVE KnownInv'
    BY <1>5, <1>6 DEF Invalidate, TypeOK, Cached
  <1>7. ASSUME NEW g \in Generations, InvalidateGeneration(g) PROVE KnownInv'
    BY <1>5, <1>7 DEF InvalidateGeneration, Cached
  <1>8. CASE EvictInactive
    BY <1>5, <1>8 DEF EvictInactive, Cached
  <1>9. CASE Tick
    BY <1>9 DEF Tick, KnownInv, Cached
  <1> QED BY <1>1, <1>2, <1>3, <1>4, <1>6, <1>7, <1>8, <1>9 DEF Next, Commit

\* An unopened subscription still has no token, and no cut runs ahead.
LEMMA RestCutStep ==
    ASSUME TypeOK, RestInv, CutInv, Next PROVE RestInv' /\ CutInv'
  <1>1. RestInv'
    <2>1. ASSUME NEW s \in Subs, AbortRefresh(s) PROVE RestInv'
      BY <2>1, Moves DEF RestInv, Moved
    <2>2. ASSUME NEW s \in Subs, Subscribe(s) \/ BeginRefresh(s) \/ CloseFlag(s)
                                 \/ CloseRelease(s)
          PROVE  RestInv'
      BY <2>2, Moves DEF RestInv, Moved
    <2>3. ASSUME NEW s \in Subs, NEW size \in Sizes, CommitStores(s, size) PROVE RestInv'
      BY <2>3, Moves DEF RestInv, Moved
    <2>4. CASE sub' = sub
      BY <2>4 DEF RestInv
    <2>5. ASSUME NEW s \in Subs, Load(s) \/ MarkStale(s)
                                 \/ \E size \in Sizes : CommitFull(s, size)
          PROVE  RestInv'
      BY <2>4, <2>5 DEF Load, MarkStale, CommitFull
    <2> QED BY <2>1, <2>2, <2>3, <2>4, <2>5
            DEF Next, Commit, Invalidate, InvalidateGeneration, EvictInactive, Tick
  <1>2. CutInv'
    <2>1. ASSUME NEW j \in Keys, cut'[j] = cut[j], issued'[j] \in {issued[j], issued[j] + 1}
          PROVE  cut'[j] <= issued'[j]
      BY <2>1 DEF CutInv, TypeOK
    <2>2. CASE cut' = cut /\ issued' = issued
      BY <2>1, <2>2 DEF CutInv
    <2>3. ASSUME NEW s \in Subs, BeginRefresh(s) PROVE CutInv'
      BY <2>1, <2>3 DEF CutInv, TypeOK, BeginRefresh
    <2>4. ASSUME NEW k \in Keys, Invalidate(k) PROVE CutInv'
      BY <2>1, <2>4 DEF CutInv, TypeOK, Invalidate
    <2>5. ASSUME NEW g \in Generations, InvalidateGeneration(g) PROVE CutInv'
      BY <2>1, <2>5 DEF CutInv, TypeOK, InvalidateGeneration
    <2> QED BY <2>2, <2>3, <2>4, <2>5
            DEF Next, Subscribe, Load, Commit, CommitStores, CommitFull, AbortRefresh,
                MarkStale, CloseFlag, CloseRelease, EvictInactive, Tick
  <1> QED BY <1>1, <1>2

\* A token that survives a step stays sound if the step keeps its key's
\* epochs and history, or moves one of the epochs past it.
LEMMA SoundSame ==
    ASSUME TypeOK, TokenInv, NEW q \in Subs, sub'[q] = sub[q],
           sub[q].key \in Keys,
           keyEpoch'[sub[q].key] = keyEpoch[sub[q].key],
           generationEpoch' = generationEpoch,
           issued'[sub[q].key] = issued[sub[q].key], cut'[sub[q].key] = cut[sub[q].key],
           sub[q].pc = "open", sub[q].token.issue > 0
    PROVE  TokenSound(sub[q].token, sub[q].key)'
  BY DEF TokenInv, TokenSound

\* The token of an open subscription is the newest one or is fenced.
LEMMA TokenStep ==
    ASSUME TypeOK, RefsInv, CutInv, RestInv, TokenInv, Next PROVE TokenInv'
  <1> SUFFICES ASSUME NEW q \in Subs, sub'[q].pc = "open", sub'[q].token.issue > 0
               PROVE  TokenSound(sub[q].token, sub[q].key)'
    BY DEF TokenInv
  <1> DEFINE kq == sub[q].key
  <1>0. kq \in Keys /\ sub[q] \in Subscription /\ keyEpoch[kq] \in Nat /\ issued[kq] \in Nat
        /\ cut[kq] \in Nat
    BY SubscriptionFields DEF TypeOK
  <1>1. GenerationOf[kq] \in Generations /\ generationEpoch[GenerationOf[kq]] \in Nat
    BY <1>0, ResourceCacheAssumption DEF TypeOK
  <1>2. /\ sub[q].token.keyEpoch \in Nat /\ sub[q].token.generationEpoch \in Nat
        /\ sub[q].token.issue \in Nat
    BY <1>0, SubscriptionFields
  <1> HIDE DEF kq
  <1>3. ASSUME NEW s \in Subs, Subscribe(s) PROVE TokenSound(sub[q].token, sub[q].key)'
    <2>1. Moved(s, "open", sub[s].token) /\ sub[s].pc = "none"
      BY <1>3, Moves DEF Subscribe
    <2>2. sub[s].token = NoToken
      BY <2>1 DEF RestInv
    <2>3. sub'[q] = sub[q]
      BY <2>1, <2>2, NoTokenType DEF Moved
    <2>4. /\ keyEpoch' = keyEpoch /\ generationEpoch' = generationEpoch
          /\ issued' = issued /\ cut' = cut
      BY <1>3 DEF Subscribe
    <2> QED BY <1>0, <2>3, <2>4, SoundSame DEF kq
  <1>4. ASSUME NEW s \in Subs, Load(s) \/ MarkStale(s) \/ \E size \in Sizes : CommitFull(s, size)
        PROVE  TokenSound(sub[q].token, sub[q].key)'
    BY <1>0, <1>4, SoundSame DEF Load, MarkStale, CommitFull, kq
  <1>5. ASSUME NEW s \in Subs, BeginRefresh(s) PROVE TokenSound(sub[q].token, sub[q].key)'
    <2>1. CASE q = s
      <3>1. /\ sub'[q].key = kq
            /\ sub'[q].token.generationEpoch = generationEpoch[GenerationOf[kq]]
            /\ sub'[q].token.keyEpoch = keyEpoch[kq] + 1
            /\ sub'[q].token.issue = issued[kq] + 1
        <4>1. /\ sub'[s].key = sub[s].key
              /\ sub'[s].token = [generationEpoch |-> sub[s].generationEpoch,
                                  keyEpoch |-> keyEpoch[KeyOf(s)] + 1,
                                  issue |-> issued[KeyOf(s)] + 1]
          BY <1>5, Moves DEF Moved
        <4>2. sub[s].generationEpoch = generationEpoch[GenerationOf[KeyOf(s)]]
          BY <1>5 DEF BeginRefresh, Current
        <4> QED BY <2>1, <4>1, <4>2 DEF KeyOf, kq
      <3>2. /\ keyEpoch'[kq] = keyEpoch[kq] + 1 /\ issued'[kq] = issued[kq] + 1
            /\ generationEpoch' = generationEpoch /\ cut' = cut
        BY <1>0, <1>5, <2>1 DEF BeginRefresh, KeyOf, kq, TypeOK
      <3>3. cut[kq] <= issued[kq]
        BY <1>0 DEF CutInv
      <3> QED BY <1>0, <1>1, <3>1, <3>2, <3>3 DEF TokenSound
    <2>2. CASE q # s /\ kq # KeyOf(s)
      <3>1. sub'[q] = sub[q]
        BY <1>5, <2>2, Moves DEF Moved
      <3>2. /\ keyEpoch'[kq] = keyEpoch[kq] /\ issued'[kq] = issued[kq]
            /\ generationEpoch' = generationEpoch /\ cut' = cut
        BY <1>0, <1>5, <2>2 DEF BeginRefresh, TypeOK
      <3> QED BY <1>0, <3>1, <3>2, SoundSame DEF kq
    <2>3. CASE q # s /\ kq = KeyOf(s)
      <3>1. sub'[q] = sub[q]
        BY <1>5, <2>3, Moves DEF Moved
      <3>2. keyEpoch'[kq] = keyEpoch[kq] + 1 /\ generationEpoch' = generationEpoch
        BY <1>0, <1>5, <2>3 DEF BeginRefresh, TypeOK
      <3>3. sub[q].token.keyEpoch <= keyEpoch[kq]
            /\ sub[q].token.generationEpoch <= generationEpoch[GenerationOf[kq]]
        BY <3>1 DEF TokenInv, TokenSound, kq
      <3> QED BY <1>0, <1>2, <3>1, <3>2, <3>3 DEF TokenSound, kq
    <2> QED BY <2>1, <2>2, <2>3
  <1>6. ASSUME NEW s \in Subs, NEW size \in Sizes, CommitStores(s, size)
        PROVE  TokenSound(sub[q].token, sub[q].key)'
    <2>0. Moved(s, "open", NoToken)
      BY <1>6, Moves
    <2>1. sub'[q] = sub[q]
      BY <2>0, NoTokenType DEF Moved
    <2>2. PICK gone : keyEpoch' = [j \in Keys |-> IF j \in Forgotten(gone) THEN 0 ELSE keyEpoch[j]]
      BY <1>6 DEF CommitStores
    <2>3. keyEpoch'[kq] = keyEpoch[kq]
      BY <1>0, <2>1, <2>2, ForgottenUnheld DEF kq
    <2> QED BY <1>0, <1>6, <2>1, <2>3, SoundSame DEF CommitStores, kq
  <1>7. ASSUME NEW s \in Subs, AbortRefresh(s) \/ CloseFlag(s)
        PROVE  TokenSound(sub[q].token, sub[q].key)'
    <2>0. Moved(s, sub[s].pc, NoToken) \/ Moved(s, "closing", sub[s].token)
      BY <1>7, Moves
    <2>1. sub'[q] = sub[q]
      BY <2>0, NoTokenType DEF Moved
    <2> QED BY <1>0, <1>7, <2>1, SoundSame DEF AbortRefresh, CloseFlag, kq
  <1>8. ASSUME NEW s \in Subs, CloseRelease(s)
        PROVE  TokenSound(sub[q].token, sub[q].key)'
    <2>1. sub'[q] = sub[q] /\ q # s /\ sub[s].pc = "closing"
      BY <1>8, Moves DEF Moved, CloseRelease
    <2>2. CASE keyEpoch' = keyEpoch
      BY <1>0, <1>8, <2>1, <2>2, SoundSame DEF CloseRelease, kq
    <2>3. CASE keyEpoch' = [keyEpoch EXCEPT ![KeyOf(s)] = 0] /\ refs[KeyOf(s)] <= 1
      <3>1. kq # KeyOf(s)
        BY <2>1, <2>3, RefHeld DEF KeyOf, kq
      <3>2. keyEpoch'[kq] = keyEpoch[kq]
        BY <1>0, <2>3, <3>1 DEF TypeOK
      <3> QED BY <1>0, <1>8, <2>1, <3>2, SoundSame DEF CloseRelease, kq
    <2> QED BY <1>8, <2>2, <2>3 DEF CloseRelease
  <1>9. ASSUME NEW k \in Keys, Invalidate(k) PROVE TokenSound(sub[q].token, sub[q].key)'
    <2>1. sub' = sub /\ generationEpoch' = generationEpoch
      BY <1>9 DEF Invalidate
    <2>2. CASE kq # k
      <3>1. keyEpoch'[kq] = keyEpoch[kq] /\ issued'[kq] = issued[kq] /\ cut'[kq] = cut[kq]
        BY <1>0, <1>9, <2>2 DEF Invalidate, TypeOK
      <3> QED BY <1>0, <2>1, <3>1, SoundSame DEF kq
    <2>3. CASE kq = k
      <3>1. k \notin Forgotten({k})
        BY <2>1, <2>3, ForgottenUnheld DEF kq
      <3>2. keyEpoch'[kq] = keyEpoch[kq] + 1
        BY <1>0, <1>9, <2>3, <3>1 DEF Invalidate, TypeOK
      <3>3. sub[q].token.keyEpoch <= keyEpoch[kq]
            /\ sub[q].token.generationEpoch <= generationEpoch[GenerationOf[kq]]
        BY <2>1 DEF TokenInv, TokenSound, kq
      <3> QED BY <1>0, <1>2, <2>1, <3>2, <3>3 DEF TokenSound, kq
    <2> QED BY <2>2, <2>3
  <1>10. ASSUME NEW g \in Generations, InvalidateGeneration(g)
        PROVE  TokenSound(sub[q].token, sub[q].key)'
    <2>1. sub' = sub
      BY <1>10 DEF InvalidateGeneration
    <2>2. sub[q].token.keyEpoch <= keyEpoch[kq]
          /\ sub[q].token.generationEpoch <= generationEpoch[GenerationOf[kq]]
      BY <2>1 DEF TokenInv, TokenSound, kq
    <2>3. kq \notin Forgotten({j \in known : GenerationOf[j] = g})
      BY <2>1, ForgottenUnheld DEF kq
    <2>4. CASE GenerationOf[kq] = g
      <3>1. keyEpoch'[kq] \in {keyEpoch[kq], keyEpoch[kq] + 1}
        BY <1>0, <1>10, <2>3 DEF InvalidateGeneration
      <3>2. generationEpoch'[GenerationOf[kq]] = generationEpoch[GenerationOf[kq]] + 1
        BY <1>1, <1>10, <2>4 DEF InvalidateGeneration, TypeOK
      <3> QED BY <1>0, <1>1, <1>2, <2>1, <2>2, <3>1, <3>2 DEF TokenSound, kq
    <2>5. CASE GenerationOf[kq] # g
      <3>1. keyEpoch'[kq] = keyEpoch[kq] /\ issued'[kq] = issued[kq] /\ cut'[kq] = cut[kq]
        BY <1>0, <1>10, <2>3, <2>5 DEF InvalidateGeneration, Forgotten
      <3>2. generationEpoch'[GenerationOf[kq]] = generationEpoch[GenerationOf[kq]]
        BY <1>1, <1>10, <2>5 DEF InvalidateGeneration, TypeOK
      <3>3. TokenSound(sub[q].token, kq)
        BY <2>1 DEF TokenInv, kq
      <3> QED BY <2>1, <3>1, <3>2, <3>3 DEF TokenSound, kq
    <2> QED BY <2>4, <2>5
  <1>11. CASE EvictInactive
    <2>1. keyEpoch'[kq] = keyEpoch[kq]
      BY <1>0, <1>11, ForgottenUnheld DEF EvictInactive, kq
    <2> QED BY <1>0, <1>11, <2>1, SoundSame DEF EvictInactive, kq
  <1>12. CASE Tick
    BY <1>0, <1>12, SoundSame DEF Tick, kq
  <1> QED BY <1>3, <1>4, <1>5, <1>6, <1>7, <1>8, <1>9, <1>10, <1>11, <1>12 DEF Next, Commit

-----------------------------------------------------------------------------
(* What the fence gives *)

\* The commit of s stores the newest refresh of its key, begun after the last
\* invalidation, and drops only unreferenced entries.
LEMMA CommitNewest ==
    ASSUME TypeOK, TokenInv, NEW s \in Subs, NEW size \in Sizes, CommitStores(s, size)
    PROVE  \E k \in Keys, gone \in SUBSET Keys, e \in Entry :
             /\ k = sub[s].key /\ gone \subseteq Evictable(k)
             /\ entries' = [j \in Keys |-> IF j = k THEN e
                                           ELSE IF j \in gone THEN NoEntry ELSE entries[j]]
             /\ e.issue = issued[k] /\ e.issue > cut[k]
             /\ issued' = issued /\ cut' = cut
  <1> DEFINE k == KeyOf(s)
             e == Committed(k, size, sub[s].token.issue)
  <1>1. /\ sub[s].pc = "open" /\ sub[s].token.issue > 0
        /\ sub[s].token.generationEpoch = generationEpoch[GenerationOf[k]]
        /\ sub[s].token.keyEpoch = keyEpoch[k]
        /\ issued' = issued /\ cut' = cut
    BY DEF CommitStores, TokenHolds
  <1>2. k \in Keys /\ k = sub[s].key /\ sub[s].token.issue \in Nat
    BY SubscriptionFields DEF TypeOK, KeyOf
  <1>3. TokenSound(sub[s].token, k)
    BY <1>1, <1>2 DEF TokenInv
  <1>4. sub[s].token.issue = issued[k] /\ sub[s].token.issue > cut[k]
    BY <1>1, <1>3 DEF TokenSound
  <1>5. e \in Entry /\ e.issue = sub[s].token.issue
    BY <1>2, CommittedType DEF TypeOK
  <1>6. PICK gone \in SUBSET Keys : gone \subseteq Evictable(k) /\
          entries' = [j \in Keys |-> IF j = k THEN e
                                     ELSE IF j \in gone THEN NoEntry ELSE entries[j]]
    BY DEF CommitStores, Evictable, Cached
  <1> HIDE DEF k, e
  <1> QED BY <1>1, <1>2, <1>4, <1>5, <1>6

\* What a step may do to one entry: keep it, change its bookkeeping, store
\* the newest refresh, drop it by invalidation, or drop it unreferenced.
EntryStep(j) ==
    \/ /\ entries'[j] = NoEntry <=> entries[j] = NoEntry
       /\ entries[j] # NoEntry => entries'[j].issue = entries[j].issue
       /\ entries[j] # NoEntry => cut'[j] = cut[j]
    \/ entries'[j] # NoEntry /\ entries'[j].issue = issued[j] /\ issued[j] > cut[j]
       /\ cut'[j] = cut[j]
    \/ entries'[j] = NoEntry /\ cut'[j] # cut[j]
    \/ entries'[j] = NoEntry /\ refs[j] = 0

\* Every action is one of these on every key.
LEMMA EntrySteps ==
    ASSUME TypeOK, RefsInv, KnownInv, CutInv, TokenInv, Next, NEW j \in Keys
    PROVE  EntryStep(j)
  <1>1. CASE Quiet /\ cut' = cut
    BY <1>1 DEF Quiet, EntryStep
  <1>2. ASSUME NEW s \in Subs,
               \/ Subscribe(s) \/ Load(s) \/ BeginRefresh(s) \/ AbortRefresh(s)
               \/ MarkStale(s) \/ CloseFlag(s) \/ CloseRelease(s)
               \/ \E size \in Sizes : CommitFull(s, size)
        PROVE  EntryStep(j)
    <2>1. cut' = cut
      BY <1>2 DEF Subscribe, Load, BeginRefresh, AbortRefresh, MarkStale, CloseFlag,
                  CloseRelease, CommitFull
    <2> QED BY <1>1, <1>2, <2>1, QuietSteps
  <1>3. ASSUME NEW s \in Subs, NEW size \in Sizes, CommitStores(s, size) PROVE EntryStep(j)
    <2>1. PICK k \in Keys, gone \in SUBSET Keys, e \in Entry :
             /\ gone \subseteq Evictable(k)
             /\ entries' = [i \in Keys |-> IF i = k THEN e
                                           ELSE IF i \in gone THEN NoEntry ELSE entries[i]]
             /\ e.issue = issued[k] /\ e.issue > cut[k]
             /\ cut' = cut
      BY <1>3, CommitNewest
    <2>2. e # NoEntry
      BY ResourceCacheAssumption
    <2>3. CASE j = k
      BY <2>1, <2>2, <2>3 DEF EntryStep
    <2>4. CASE j # k /\ j \in gone
      <3>1. refs[j] = 0
        BY <2>1, <2>4 DEF Evictable
      <3> QED BY <2>1, <2>4, <3>1 DEF EntryStep
    <2>5. CASE j # k /\ j \notin gone
      BY <2>1, <2>5 DEF EntryStep
    <2> QED BY <2>3, <2>4, <2>5
  <1>4. ASSUME NEW k \in Keys, Invalidate(k) PROVE EntryStep(j)
    <2>1. CASE j = k
      <3>1. entries'[j] = NoEntry /\ cut'[j] = issued[j] + 1
        BY <1>4, <2>1 DEF Invalidate, TypeOK
      <3>2. cut'[j] # cut[j]
        BY <3>1 DEF CutInv, TypeOK
      <3> QED BY <3>1, <3>2 DEF EntryStep
    <2>2. CASE j # k
      BY <1>4, <2>2 DEF Invalidate, TypeOK, EntryStep
    <2> QED BY <2>1, <2>2
  <1>5. ASSUME NEW g \in Generations, InvalidateGeneration(g) PROVE EntryStep(j)
    <2>1. CASE GenerationOf[j] = g
      <3>1. cut'[j] = issued[j] + 1
        BY <1>5, <2>1 DEF InvalidateGeneration
      <3>2. cut'[j] # cut[j]
        BY <3>1 DEF CutInv, TypeOK
      <3>3. entries'[j] = NoEntry
        BY <1>5, <2>1 DEF InvalidateGeneration, KnownInv, Cached
      <3> QED BY <3>2, <3>3 DEF EntryStep
    <2>2. CASE GenerationOf[j] # g
      BY <1>5, <2>2 DEF InvalidateGeneration, EntryStep
    <2> QED BY <2>1, <2>2
  <1>6. CASE EvictInactive
    BY <1>6 DEF EvictInactive, EntryStep
  <1>7. CASE Tick
    BY <1>1, <1>7, QuietSteps DEF Tick
  <1> QED BY <1>2, <1>3, <1>4, <1>5, <1>6, <1>7 DEF Next, Commit

\* What was invalidated stays out.
LEMMA OutStep ==
    ASSUME TypeOK, RefsInv, KnownInv, CutInv, TokenInv, InvalidatedStaysOut, Next
    PROVE  InvalidatedStaysOut'
  <1> SUFFICES ASSUME NEW j \in Keys, entries'[j] # NoEntry
               PROVE  entries'[j].issue > cut'[j]
    BY DEF InvalidatedStaysOut
  <1> QED BY EntrySteps DEF EntryStep, InvalidatedStaysOut

\* The inductive invariant holds initially.
LEMMA InitInv == Init => CacheInv
  <1> SUFFICES ASSUME Init PROVE CacheInv
    OBVIOUS
  <1>1. \A s \in Subs : sub[s].pc = "none" /\ sub[s].token = NoToken
    BY DEF Init
  <1>2. RefsInv
    <2> SUFFICES ASSUME NEW k \in Keys PROVE refs[k] = Cardinality(Live(k))
      BY DEF RefsInv
    <2>1. Live(k) = {}
      BY <1>1 DEF Live
    <2> QED BY <2>1, FS_EmptySet DEF Init
  <1>3. KnownInv /\ TokenInv /\ CutInv /\ RestInv /\ InvalidatedStaysOut
    BY <1>1 DEF Init, KnownInv, Cached, TokenInv, CutInv, RestInv, InvalidatedStaysOut
  <1> QED BY <1>2, <1>3 DEF CacheInv

\* The inductive invariant is kept by every step.
LEMMA InvStep == TypeOK /\ CacheInv /\ [Next]_vars => CacheInv'
  <1> SUFFICES ASSUME TypeOK, CacheInv, [Next]_vars PROVE CacheInv'
    OBVIOUS
  <1>1. CASE Next
    BY <1>1, RefsStep, KnownStep, TokenStep, RestCutStep, OutStep DEF CacheInv
  <1>2. CASE UNCHANGED vars
    <2>1. RefsInv'
      BY <1>2, LiveSame DEF vars, CacheInv
    <2>2. KnownInv' /\ CutInv' /\ RestInv' /\ InvalidatedStaysOut'
      BY <1>2 DEF vars, CacheInv, KnownInv, Cached, CutInv, RestInv, InvalidatedStaysOut
    <2>3. TokenInv'
      BY <1>2 DEF vars, CacheInv, TokenInv, TokenSound
    <2> QED BY <2>1, <2>2, <2>3 DEF CacheInv
  <1> QED BY <1>1, <1>2

\* Exact reference counts, a complete key index and sound refresh tokens: the
\* bookkeeping under cache.mu that the fence of Commit rests on.
THEOREM CacheFenced == Spec => []CacheInv
  BY InitTypes, TypesStep, InitInv, InvStep, PTL DEF Spec

\* Whatever Invalidate or InvalidateGeneration removed is never stored again
\* by a refresh that began before it.
THEOREM CacheInvalidatedStaysOut == Spec => []InvalidatedStaysOut
  <1>1. CacheInv => InvalidatedStaysOut
    BY DEF CacheInv
  <1> QED BY <1>1, CacheFenced, PTL

\* Commit stores a snapshot only for the newest refresh of its key, although
\* Close and eviction delete epochs that later start again from zero.
THEOREM CacheNewestRefreshWins == Spec => NewestRefreshWins
  <1>1. ASSUME TypeOK, CacheInv, [Next]_vars
        PROVE  [\A k \in Keys :
                 (entries'[k] # NoEntry
                    /\ (entries[k] = NoEntry \/ entries'[k].issue # entries[k].issue))
                 => entries'[k].issue = issued[k]]_vars
    <2>1. CASE UNCHANGED vars
      BY <2>1
    <2>2. CASE Next
      <3> SUFFICES ASSUME NEW k \in Keys, entries'[k] # NoEntry,
                          entries[k] = NoEntry \/ entries'[k].issue # entries[k].issue
                   PROVE  entries'[k].issue = issued[k]
        BY Zenon
      <3>1. EntryStep(k)
        BY <1>1, <2>2, EntrySteps DEF CacheInv
      <3> QED BY <3>1 DEF EntryStep
    <2> QED BY <1>1, <2>1, <2>2
  <1> QED BY <1>1, InitTypes, TypesStep, InitInv, InvStep, PTL DEF Spec, NewestRefreshWins

\* An entry that an open or closing subscription uses is dropped only by an
\* invalidation, never by the eviction of Commit or by EvictInactive.
THEOREM CacheReferencedStays == Spec => ReferencedStays
  <1>1. ASSUME TypeOK, CacheInv, [Next]_vars
        PROVE  [\A k \in Keys :
                 (entries[k] # NoEntry /\ entries'[k] = NoEntry
                    /\ \E s \in Subs : sub[s].pc \in {"open", "closing"} /\ sub[s].key = k)
                 => cut'[k] # cut[k]]_vars
    <2>1. CASE UNCHANGED vars
      BY <2>1
    <2>2. CASE Next
      <3> SUFFICES ASSUME NEW k \in Keys, entries[k] # NoEntry, entries'[k] = NoEntry,
                          NEW s \in Subs, sub[s].pc \in {"open", "closing"}, sub[s].key = k
                   PROVE  cut'[k] # cut[k]
        BY Zenon
      <3>1. refs[k] > 0 /\ refs[k] \in Nat
        BY <1>1, RefHeld DEF CacheInv, TypeOK
      <3>2. EntryStep(k)
        BY <1>1, <2>2, EntrySteps DEF CacheInv
      <3> QED BY <3>1, <3>2 DEF EntryStep
    <2> QED BY <1>1, <2>1, <2>2
  <1> QED BY <1>1, InitTypes, TypesStep, InitInv, InvStep, PTL DEF Spec, ReferencedStays

\* The newest refresh of a key wins and what was invalidated stays out.
THEOREM CacheFreshWins == Spec => FreshWins
  BY CacheInvalidatedStaysOut, CacheNewestRefreshWins DEF FreshWins

-----------------------------------------------------------------------------
(* The cell of a key *)

\* Every cell is empty at first.
LEMMA CellStarts == Init => \A k \in Keys : Cell(k)!CellInit
  BY ResourceCacheAssumption DEF Init, Cell!CellInit

\* An entry keeps its origin and its freshness: the cell stutters.
LEMMA CellStutters ==
    ASSUME NEW j \in Keys, entries'[j] = NoEntry <=> entries[j] = NoEntry,
           entries[j] # NoEntry => /\ entries'[j].issue = entries[j].issue
                                   /\ (clock' < entries'[j].freshUntil) = (clock < entries[j].freshUntil),
           issued'[j] = issued[j], (GenerationOf[j] \in invalidated') = (GenerationOf[j] \in invalidated)
    PROVE  UNCHANGED Cell(j)!cellVars
  BY DEF Cell!cellVars

CellDatum(b, i) == [data |-> "snapshot", fresh |-> b, issue |-> i]

\* What a cell holds is something.
LEMMA SnapshotHeld ==
    ASSUME NEW b \in BOOLEAN, NEW i \in Nat
    PROVE  CellDatum(b, i) # NoEntry
  BY ResourceCacheAssumption DEF CellDatum

LEMMA SnapshotStales ==
    \A b, i, v : v = FALSE => CellDatum(v, i) = [CellDatum(b, i) EXCEPT !.fresh = FALSE]
  <1> TAKE b, i, v
  <1>1. CellDatum(v, i) = [CellDatum(b, i) EXCEPT !.fresh = v]
    BY DEF CellDatum
  <1> HAVE v = FALSE
  <1> QED BY <1>1, Zenon

LEMMA EntryFields ==
    ASSUME TypeOK, NEW j \in Keys, entries[j] # NoEntry
    PROVE  entries[j] \in Entry /\ entries[j].issue \in Nat /\ entries[j].freshUntil \in Nat
  BY DEF TypeOK, Entry

\* An entry that is no longer fresh.
LEMMA CellStales ==
    ASSUME TypeOK, NEW j \in Keys, entries[j] # NoEntry, entries'[j] # NoEntry,
           entries'[j].issue = entries[j].issue, ~ (clock' < entries'[j].freshUntil),
           issued'[j] = issued[j], invalidated' = invalidated
    PROVE  Cell(j)!Stale
  <1> DEFINE b == clock < entries[j].freshUntil
             c == clock' < entries'[j].freshUntil
             i == entries[j].issue
  <1>1. b \in BOOLEAN /\ i \in Nat /\ c = FALSE
    BY EntryFields
  <1>2. entries'[j].issue = i
    OBVIOUS
  <1> HIDE DEF b, c, i
  <1>3. CellDatum(b, i) # NoEntry
    BY <1>1, SnapshotHeld
  <1>4. CellDatum(c, i) = [CellDatum(b, i) EXCEPT !.fresh = FALSE]
    <2>1. c = FALSE
      BY <1>1
    <2> QED BY ONLY <2>1, SnapshotStales, Zenon
  <1> QED BY <1>2, <1>3, <1>4 DEF Cell!Stale, CellDatum, b, c, i

LEMMA CellDrops ==
    ASSUME NEW j \in Keys, entries'[j] = NoEntry, issued'[j] = issued[j], invalidated' = invalidated
    PROVE  Cell(j)!Drop
  BY DEF Cell!Drop

LEMMA CellVoids ==
    ASSUME NEW j \in Keys, entries'[j] = NoEntry, issued'[j] = issued[j] + 1, invalidated' = invalidated
    PROVE  Cell(j)!Void
  BY DEF Cell!Void

LEMMA CellKilled ==
    ASSUME NEW j \in Keys, entries'[j] = NoEntry, issued'[j] = issued[j] + 1, GenerationOf[j] \in invalidated'
    PROVE  Cell(j)!Kill
  BY DEF Cell!Kill

LEMMA CellBegins ==
    ASSUME NEW j \in Keys, entries'[j] = NoEntry <=> entries[j] = NoEntry,
           entries[j] # NoEntry => entries'[j].issue = entries[j].issue /\ entries'[j].freshUntil = entries[j].freshUntil,
           clock' = clock, issued'[j] = issued[j] + 1, invalidated' = invalidated, GenerationOf[j] \notin invalidated
    PROVE  Cell(j)!Begin
  BY DEF Cell!Begin

LEMMA CellInstalls ==
    ASSUME NEW j \in Keys, entries'[j] # NoEntry, entries'[j].issue = issued[j],
           clock' < entries'[j].freshUntil, issued'[j] = issued[j], invalidated' = invalidated, GenerationOf[j] \notin invalidated
    PROVE  Cell(j)!Install(issued[j], "snapshot")
  <1>1. (clock' < entries'[j].freshUntil) = TRUE
    OBVIOUS
  <1> QED BY <1>1 DEF Cell!Install

\* The freshness of an entry changes only where it is set.
LEMMA EntryFreshness ==
    ASSUME NEW e \in Entry, NEW n \in Nat, NEW b \in BOOLEAN
    PROVE  /\ [e EXCEPT !.lastUsed = n].freshUntil = e.freshUntil
           /\ [e EXCEPT !.refreshing = b].freshUntil = e.freshUntil
           /\ [e EXCEPT !.refreshing = b, !.lastUsed = n].freshUntil = e.freshUntil
           /\ [e EXCEPT !.freshUntil = n, !.refreshing = b].freshUntil = n
  BY DEF Entry

\* An action that leaves an entry where it was and as fresh.
LEMMA CellSame ==
    ASSUME NEW j \in Keys, entries'[j] = entries[j], clock' = clock, issued'[j] = issued[j],
           (GenerationOf[j] \in invalidated') = (GenerationOf[j] \in invalidated)
    PROVE  UNCHANGED Cell(j)!cellVars
  BY CellStutters

\* A refresh that begins leaves the snapshot as it is.
LEMMA RefreshingEntry ==
    ASSUME NEW e \in Entry, NEW n \in Nat, NEW f, f = [e EXCEPT !.refreshing = TRUE, !.lastUsed = n]
    PROVE  f \in Entry /\ f.issue = e.issue /\ f.freshUntil = e.freshUntil
  BY DEF Entry

LEMMA CellTouched ==
    ASSUME TypeOK, NEW j \in Keys, NEW k \in Keys, NEW e \in Entry, entries[k] # NoEntry,
           e.issue = entries[k].issue, e.freshUntil = entries[k].freshUntil,
           entries' = [entries EXCEPT ![k] = e], UNCHANGED <<clock, issued, invalidated>>
    PROVE  UNCHANGED Cell(j)!cellVars
  <1>1. CASE j = k
    <2>1. entries'[j] = e /\ e # NoEntry
      BY <1>1, ResourceCacheAssumption DEF TypeOK
    <2>2. entries'[j].issue = entries[j].issue /\ (clock' < entries'[j].freshUntil) = (clock < entries[j].freshUntil)
      BY <1>1, <2>1
    <2> QED BY <1>1, <2>1, <2>2, CellStutters
  <1>2. CASE j # k
    <2>1. entries'[j] = entries[j]
      BY <1>2 DEF TypeOK
    <2> QED BY <2>1, CellSame
  <1> QED BY <1>1, <1>2

CellStep(j) == Cell(j)!CellNext \/ UNCHANGED Cell(j)!cellVars

LEMMA SubscriberCells ==
    ASSUME TypeOK, CacheInv, NEW j \in Keys, NEW s \in Subs,
           \/ Subscribe(s) \/ Load(s) \/ AbortRefresh(s) \/ CloseFlag(s) \/ CloseRelease(s)
           \/ \E size \in Sizes : CommitFull(s, size)
    PROVE  CellStep(j)
  <1> DEFINE k == KeyOf(s)
  <1>1. k \in Keys /\ clock \in Nat
    BY SubscriptionFields DEF TypeOK, KeyOf
  <1>2. UNCHANGED <<clock, issued, invalidated>>
    BY DEF Subscribe, Load, AbortRefresh, CloseFlag, CloseRelease, CommitFull
  <1>3. CASE entries' = entries
    BY <1>2, <1>3, CellSame DEF CellStep
  <1>4. CASE entries' # entries
    <2>1. /\ entries[k] # NoEntry
          /\ \/ entries' = [entries EXCEPT ![k] = [entries[k] EXCEPT !.lastUsed = clock]]
             \/ entries' = [entries EXCEPT ![k] = [entries[k] EXCEPT !.refreshing = FALSE]]
      BY <1>1, <1>4 DEF Subscribe, Load, AbortRefresh, CloseFlag, CloseRelease, CommitFull, EntryOf, TypeOK
    <2>2. entries[k] \in Entry
      BY <1>1, <2>1, EntryFields
    <2> HIDE DEF k
    <2>3. PICK e \in Entry : e.issue = entries[k].issue /\ e.freshUntil = entries[k].freshUntil /\ entries' = [entries EXCEPT ![k] = e]
      BY <1>1, <2>1, <2>2, EntryUpdates, EntryFreshness
    <2> QED BY <1>1, <1>2, <2>1, <2>3, CellTouched DEF CellStep
  <1> QED BY <1>3, <1>4

LEMMA BeginCells ==
    ASSUME TypeOK, CacheInv, NEW j \in Keys, NEW s \in Subs, BeginRefresh(s)
    PROVE  CellStep(j)
  <1> DEFINE k == KeyOf(s)
  <1>1. k \in Keys /\ clock \in Nat
    BY SubscriptionFields DEF TypeOK, KeyOf
  <1>2. UNCHANGED <<clock, invalidated>> /\ GenerationOf[k] \notin invalidated /\ issued' = [issued EXCEPT ![k] = @ + 1]
    BY DEF BeginRefresh, Current
  <1>3. \/ entries' = entries
        \/ /\ entries[k] # NoEntry
           /\ entries' = [entries EXCEPT ![k] = [entries[k] EXCEPT !.refreshing = TRUE, !.lastUsed = clock]]
    BY <1>1 DEF BeginRefresh, TypeOK
  <1> HIDE DEF k
  <1>4. /\ entries'[k] = NoEntry <=> entries[k] = NoEntry
        /\ entries[k] # NoEntry => entries'[k].issue = entries[k].issue /\ entries'[k].freshUntil = entries[k].freshUntil
    <2>1. CASE entries' = entries
      BY <2>1
    <2>2. CASE entries' # entries
      <3>1. entries[k] # NoEntry /\ entries[k] \in Entry
        BY <1>1, <1>3, <2>2, EntryFields
      <3>2. entries'[k] = [entries[k] EXCEPT !.refreshing = TRUE, !.lastUsed = clock]
        BY <1>1, <1>3, <2>2 DEF TypeOK
      <3>3. entries'[k] \in Entry /\ entries'[k].issue = entries[k].issue /\ entries'[k].freshUntil = entries[k].freshUntil
        BY <1>1, <3>1, <3>2, RefreshingEntry, ZenonT(60)
      <3> QED BY <3>1, <3>3, ResourceCacheAssumption
    <2> QED BY <2>1, <2>2
  <1>5. CASE j = k
    <2>1. issued'[k] = issued[k] + 1
      BY <1>1, <1>2 DEF TypeOK
    <2>2. Cell(j)!Begin
      BY <1>1, <1>2, <1>4, <1>5, <2>1, CellBegins
    <2> QED BY <2>2 DEF CellStep, Cell!CellNext
  <1>6. CASE j # k
    <2>1. entries'[j] = entries[j] /\ issued'[j] = issued[j]
      BY <1>2, <1>3, <1>6 DEF TypeOK
    <2> QED BY <1>2, <2>1, CellSame DEF CellStep
  <1> QED BY <1>5, <1>6

LEMMA StaleCells ==
    ASSUME TypeOK, CacheInv, NEW j \in Keys, NEW s \in Subs, MarkStale(s)
    PROVE  CellStep(j)
  <1> DEFINE k == KeyOf(s)
  <1>1. k \in Keys /\ clock \in Nat
    BY SubscriptionFields DEF TypeOK, KeyOf
  <1>2. /\ UNCHANGED <<clock, invalidated, issued>> /\ entries[k] # NoEntry
        /\ entries' = [entries EXCEPT ![k] = [entries[k] EXCEPT !.freshUntil = clock, !.refreshing = FALSE]]
    BY <1>1 DEF MarkStale, EntryOf, TypeOK
  <1> HIDE DEF k
  <1>3. CASE j = k
    <2>1. entries[k] \in Entry /\ entries'[k] = [entries[k] EXCEPT !.freshUntil = clock, !.refreshing = FALSE]
      BY <1>1, <1>2, EntryFields DEF TypeOK
    <2>2. entries'[k] \in Entry /\ entries'[k].issue = entries[k].issue /\ entries'[k].freshUntil = clock
      <3> DEFINE e == entries[k]
                 f == entries'[k]
      <3>1. e \in Entry /\ f = [e EXCEPT !.freshUntil = clock, !.refreshing = FALSE]
        BY <2>1
      <3> HIDE DEF e, f
      <3>2. f \in Entry /\ f.issue = e.issue /\ f.freshUntil = clock
        BY <1>1, <3>1 DEF Entry
      <3> QED BY <3>2 DEF e, f
    <2>3. ~ (clock' < entries'[k].freshUntil) /\ entries'[k] # NoEntry
      BY <1>1, <1>2, <2>2, ResourceCacheAssumption
    <2>4. Cell(j)!Stale
      BY <1>2, <1>3, <2>2, <2>3, CellStales
    <2> QED BY <2>4 DEF CellStep, Cell!CellNext
  <1>4. CASE j # k
    <2>1. entries'[j] = entries[j]
      BY <1>2, <1>4 DEF TypeOK
    <2> QED BY <1>2, <2>1, CellSame DEF CellStep
  <1> QED BY <1>3, <1>4

LEMMA CommitCells ==
    ASSUME TypeOK, CacheInv, NEW j \in Keys, NEW s \in Subs, NEW size \in Sizes, CommitStores(s, size)
    PROVE  CellStep(j)
  <1> DEFINE k == KeyOf(s)
             e == Committed(k, size, sub[s].token.issue)
  <1>1. /\ k \in Keys /\ clock \in Nat /\ sub[s].token.issue \in Nat /\ k = sub[s].key
    BY SubscriptionFields DEF TypeOK, KeyOf
  <1>2. UNCHANGED <<clock, invalidated, issued>> /\ GenerationOf[k] \notin invalidated
    BY DEF CommitStores, Current
  <1>3. PICK gone \in SUBSET Keys :
          entries' = [i \in Keys |-> IF i = k THEN e ELSE IF i \in gone THEN NoEntry ELSE entries[i]]
    BY DEF CommitStores, Evictable, Cached
  <1>4. e \in Entry /\ e.issue = sub[s].token.issue /\ e.freshUntil = clock + FreshFor
    BY <1>1, CommittedType DEF Committed
  <1>5. e.issue = issued[k]
    <2>1. /\ sub[s].pc = "open" /\ sub[s].token.issue > 0
          /\ sub[s].token.generationEpoch = generationEpoch[GenerationOf[k]]
          /\ sub[s].token.keyEpoch = keyEpoch[k]
      BY DEF CommitStores, TokenHolds
    <2>2. TokenSound(sub[s].token, k)
      BY <1>1, <2>1 DEF CacheInv, TokenInv
    <2> HIDE DEF k, e
    <2> QED BY <1>4, <2>1, <2>2 DEF TokenSound
  <1> HIDE DEF k, e
  <1>6. clock < e.freshUntil /\ e # NoEntry
    BY <1>1, <1>4, ResourceCacheAssumption
  <1>7. CASE j = k
    <2>1. entries'[j] = e
      BY <1>3, <1>7
    <2>2. Cell(j)!Install(issued[j], "snapshot")
      BY <1>2, <1>5, <1>6, <1>7, <2>1, CellInstalls
    <2> QED BY <2>2 DEF CellStep, Cell!CellNext
  <1>8. CASE j # k /\ j \in gone
    <2>1. entries'[j] = NoEntry
      BY <1>3, <1>8
    <2>2. Cell(j)!Drop
      BY <1>2, <2>1, CellDrops
    <2> QED BY <2>2 DEF CellStep, Cell!CellNext
  <1>9. CASE j # k /\ j \notin gone
    <2>1. entries'[j] = entries[j]
      BY <1>3, <1>9
    <2> QED BY <1>2, <2>1, CellSame DEF CellStep
  <1> QED BY <1>7, <1>8, <1>9

LEMMA CacheCells ==
    ASSUME TypeOK, CacheInv, NEW j \in Keys,
           (\E k \in Keys : Invalidate(k)) \/ (\E g \in Generations : InvalidateGeneration(g)) \/ EvictInactive \/ Tick
    PROVE  CellStep(j)
  <1>1. ASSUME NEW k \in Keys, Invalidate(k) PROVE CellStep(j)
    <2>1. CASE j = k
      <3>1. entries'[j] = NoEntry /\ issued'[j] = issued[j] + 1 /\ invalidated' = invalidated
        BY <1>1, <2>1 DEF Invalidate, TypeOK
      <3>2. Cell(j)!Void
        BY <3>1, CellVoids
      <3> QED BY <3>2 DEF CellStep, Cell!CellNext
    <2>2. CASE j # k
      <3>1. entries'[j] = entries[j] /\ issued'[j] = issued[j] /\ invalidated' = invalidated /\ clock' = clock
        BY <1>1, <2>2 DEF Invalidate, TypeOK
      <3> QED BY <3>1, CellSame DEF CellStep
    <2> QED BY <2>1, <2>2
  <1>2. ASSUME NEW g \in Generations, InvalidateGeneration(g) PROVE CellStep(j)
    <2>1. CASE GenerationOf[j] = g
      <3>1. entries'[j] = NoEntry /\ issued'[j] = issued[j] + 1 /\ GenerationOf[j] \in invalidated'
        BY <1>2, <2>1 DEF InvalidateGeneration, CacheInv, KnownInv, Cached
      <3>2. Cell(j)!Kill
        BY <3>1, CellKilled
      <3> QED BY <3>2 DEF CellStep, Cell!CellNext
    <2>2. CASE GenerationOf[j] # g
      <3>1. entries'[j] = entries[j] /\ issued'[j] = issued[j] /\ clock' = clock
        BY <1>2, <2>2 DEF InvalidateGeneration
      <3>2. (GenerationOf[j] \in invalidated') = (GenerationOf[j] \in invalidated)
        BY <1>2, <2>2 DEF InvalidateGeneration
      <3> QED BY <3>1, <3>2, CellSame DEF CellStep
    <2> QED BY <2>1, <2>2
  <1>3. CASE EvictInactive
    <2>0. invalidated' = invalidated /\ issued' = issued /\ clock' = clock
      BY <1>3 DEF EvictInactive
    <2>1. entries'[j] = entries[j] \/ entries'[j] = NoEntry
      BY <1>3 DEF EvictInactive
    <2>2. CASE entries'[j] = NoEntry
      <3>1. Cell(j)!Drop
        BY <2>0, <2>2, CellDrops
      <3> QED BY <3>1 DEF CellStep, Cell!CellNext
    <2>3. CASE entries'[j] = entries[j]
      BY <2>0, <2>3, CellSame DEF CellStep
    <2> QED BY <2>1, <2>2, <2>3
  <1>4. CASE Tick
    <2>1. entries' = entries /\ issued' = issued /\ invalidated' = invalidated /\ clock' = clock + 1 /\ clock \in Nat
      BY <1>4 DEF Tick, TypeOK
    <2>2. CASE entries[j] = NoEntry
      <3>1. UNCHANGED Cell(j)!cellVars
        BY <2>1, <2>2, CellStutters
      <3> QED BY <3>1 DEF CellStep
    <2>3. CASE entries[j] # NoEntry /\ clock + 1 < entries[j].freshUntil
      <3>1. clock < entries[j].freshUntil
        BY <2>1, <2>3, EntryFields
      <3>2. (clock' < entries'[j].freshUntil) = (clock < entries[j].freshUntil)
        BY <2>1, <2>3, <3>1
      <3>3. UNCHANGED Cell(j)!cellVars
        BY <2>1, <3>2, CellStutters
      <3> QED BY <3>3 DEF CellStep
    <2>4. CASE entries[j] # NoEntry /\ ~ (clock + 1 < entries[j].freshUntil)
      <3>1. Cell(j)!Stale
        BY <2>1, <2>4, CellStales
      <3> QED BY <3>1 DEF CellStep, Cell!CellNext
    <2> QED BY <2>2, <2>3, <2>4
  <1> QED BY <1>1, <1>2, <1>3, <1>4

\* The cache implements, for every key, the cell that its users rely on: one
\* that holds the data of the newest refresh or nothing, whatever happens to
\* the other keys.
THEOREM CacheImplementsCells == Spec => ImplementsCells
  <1>1. Init => \A k \in Keys : Cell(k)!CellInit
    BY CellStarts
  <1>2. ASSUME TypeOK, CacheInv, [Next]_vars
        PROVE  [\A k \in Keys : Cell(k)!CellNext \/ UNCHANGED Cell(k)!cellVars]_vars
    <2>1. CASE UNCHANGED vars
      BY <2>1
    <2>2. CASE Next
      <3>1. ASSUME NEW k \in Keys PROVE CellStep(k)
        BY <1>2, <2>2, SubscriberCells, BeginCells, StaleCells, CommitCells, CacheCells, Zenon DEF Next, Commit
      <3> QED BY <3>1, Zenon DEF CellStep
    <2> QED BY <1>2, <2>1, <2>2
  <1> QED BY <1>1, <1>2, InitTypes, TypesStep, InitInv, InvStep, PTL DEF Spec, ImplementsCells

-----------------------------------------------------------------------------
(* The watch worker and its readers: the inductive invariant *)

\* A snapshot that is kept is the collection at its version.
Genuine(snap) == snap # None => snap.rv \in 1..Len(cluster) /\ cluster[snap.rv] = snap.items

\* A version changes at most one object.
ClusterInv ==
    /\ cluster \in Seq(Items) /\ Len(cluster) \in 1..MaxRV
    /\ \A v \in 1..(Len(cluster) - 1) : \A o, p \in Objects :
          cluster[v + 1][o] # cluster[v][o] /\ cluster[v + 1][p] # cluster[v][p] => o = p

CellInv == CellTypeOK /\ (held # None => Genuine(held.data))

\* A worker watches from the version of its snapshot, sends only what its
\* snapshot already holds, and has sent all of it before it watches on.
Works(r) ==
    /\ r \in Worker
    /\ Genuine(r.snap) /\ Genuine(r.got) /\ Genuine(r.flushed)
    /\ r.pc \in {"connect", "stream", "notify"} => r.snap # None /\ r.rv = r.snap.rv
    /\ r.pc = "send" => r.snap # None /\ r.out # <<>>
    /\ r.pc = "notify" => Len(r.out) = 1
    /\ r.pc \notin {"send", "notify"} => r.out = <<>>
    /\ r.pc \in {"commit", "install"} => r.got # None
    /\ r.flush \in {"begin", "commit"} => r.flushed # None
    /\ r.snap # None => \A o \in Objects : Says(r.snap.items[o], r.out, o, r.snap.items[o])

Alive(r) == r.pc \notin {"none", "done"}

\* A reader's queue decides what it will know, and what its worker still sends
\* turns that into the worker's snapshot.
Follows(x, r) ==
    \A o \in Objects : \E seen \in 0..MaxRV :
        /\ Says(x.view[o], x.queue, o, seen)
        /\ r.snap # None => Says(seen, r.out, o, r.snap.items[o])

Reads(x) ==
    /\ x \in Reader
    /\ x.of # None => ~ x.closed /\ Len(x.queue) <= QueueEvents
    /\ ~ x.used => x = NewReader

ManagerInv ==
    /\ current \in Workers \cup {None} /\ closed \in BOOLEAN /\ unsupported \in BOOLEAN
    /\ current # None => Alive(worker[current])

WorkersInv == worker \in [Workers -> Worker] /\ \A w \in Workers : Works(worker[w])

ReadersInv ==
    /\ subs \in [Readers -> Reader]
    /\ \A s \in Readers : /\ Reads(subs[s])
                          /\ subs[s].of # None => /\ Alive(worker[subs[s].of])
                                                  /\ Follows(subs[s], worker[subs[s].of])

WatchInv == ClusterInv /\ CellInv /\ ManagerInv /\ WorkersInv /\ ReadersInv

-----------------------------------------------------------------------------
(* What events say *)

LEMMA EventFields ==
    ASSUME NEW e \in StreamEvent, NEW o \in Objects, Decides(e, o)
    PROVE  Word(e, o) \in 0..MaxRV
  BY DEF StreamEvent, Decides, Word, Items

LEMMA SaysNothing ==
    ASSUME NEW was, NEW o \in Objects PROVE Says(was, <<>>, o, was)
  BY DEF Says

LEMMA SaysNothingNew ==
    ASSUME NEW was, NEW v, NEW o \in Objects, Says(was, <<>>, o, v) PROVE v = was
  BY DEF Says

LEMMA SaysOne ==
    ASSUME NEW was, NEW e, NEW o \in Objects
    PROVE  Says(was, <<e>>, o, IF Decides(e, o) THEN Word(e, o) ELSE was)
  BY DEF Says

\* Taking the first event: what the reader knows moves on, the rest says the same.
LEMMA SaysTail ==
    ASSUME NEW q \in Seq(StreamEvent), q # <<>>, NEW o \in Objects, NEW was, NEW v,
           Says(was, q, o, v)
    PROVE  Says(IF Decides(Head(q), o) THEN Word(Head(q), o) ELSE was, Tail(q), o, v)
<1>1. /\ Tail(q) \in Seq(StreamEvent) /\ Len(Tail(q)) = Len(q) - 1 /\ Head(q) = q[1] /\ Len(q) \in Nat \ {0}
      /\ DOMAIN q = 1..Len(q) /\ DOMAIN Tail(q) = 1..(Len(q) - 1)
      /\ \A i \in 1..(Len(q) - 1) : Tail(q)[i] = q[i + 1]
  OBVIOUS
<1>2. CASE v = was /\ \A i \in DOMAIN q : ~ Decides(q[i], o)
  <2>1. ~ Decides(Head(q), o) /\ \A i \in DOMAIN Tail(q) : ~ Decides(Tail(q)[i], o)
    BY <1>1, <1>2
  <2>2. QED  BY <1>2, <2>1 DEF Says
<1>3. CASE \E i \in DOMAIN q : /\ Decides(q[i], o) /\ v = Word(q[i], o)
                               /\ \A j \in DOMAIN q : j > i => ~ Decides(q[j], o)
  <2>1. PICK i \in 1..Len(q) : /\ Decides(q[i], o) /\ v = Word(q[i], o)
                               /\ \A j \in 1..Len(q) : j > i => ~ Decides(q[j], o)
    BY <1>1, <1>3
  <2>2. CASE i = 1
    <3>1. \A j \in DOMAIN Tail(q) : ~ Decides(Tail(q)[j], o)
      BY <1>1, <2>1, <2>2
    <3>2. QED  BY <1>1, <2>1, <2>2, <3>1 DEF Says
  <2>3. CASE i # 1
    <3>1. /\ i - 1 \in DOMAIN Tail(q) /\ Tail(q)[i - 1] = q[i]
      BY <1>1, <2>3
    <3>2. \A j \in DOMAIN Tail(q) : j > i - 1 => ~ Decides(Tail(q)[j], o)
      BY <1>1, <2>1
    <3>3. QED  BY <2>1, <3>1, <3>2 DEF Says
  <2>4. QED  BY <2>2, <2>3
<1>4. QED  BY <1>2, <1>3 DEF Says

\* Whoever knows what the events end with loses nothing by missing the first.
LEMMA SaysTailSame ==
    ASSUME NEW q \in Seq(StreamEvent), q # <<>>, NEW o \in Objects, NEW v, Says(v, q, o, v)
    PROVE  Says(v, Tail(q), o, v)
<1> DEFINE u == IF Decides(Head(q), o) THEN Word(Head(q), o) ELSE v
<1>1. Says(u, Tail(q), o, v)
  BY SaysTail
<1>2. CASE \E i \in DOMAIN Tail(q) : Decides(Tail(q)[i], o)
  BY <1>1, <1>2 DEF Says
<1>3. CASE \A i \in DOMAIN Tail(q) : ~ Decides(Tail(q)[i], o)
  BY <1>3 DEF Says
<1>4. QED  BY <1>2, <1>3

LEMMA PushTyped ==
    ASSUME NEW q \in Seq(StreamEvent), NEW e \in StreamEvent
    PROVE  /\ Push(q, e) \in Seq(StreamEvent)
           /\ PushFits(q, e) /\ Len(q) <= QueueEvents => Len(Push(q, e)) <= QueueEvents
<1>1. CASE Coalesced(q, e) = {}
  <2>1. Push(q, e) = Append(q, e)
    BY <1>1 DEF Push
  <2>2. QED  BY <1>1, <2>1, WatchAssumption DEF PushFits
<1>2. CASE Coalesced(q, e) # {}
  <2> DEFINE n == [i \in 1..Len(q) |-> IF i \in Coalesced(q, e) THEN e ELSE q[i]]
  <2>1. Push(q, e) = n
    BY <1>2 DEF Push
  <2>2. n \in Seq(StreamEvent) /\ Len(n) = Len(q)
    <3>1. \A i \in 1..Len(q) : n[i] \in StreamEvent
      OBVIOUS
    <3>2. QED  BY <3>1
  <2>3. QED  BY <2>1, <2>2
<1>3. QED  BY <1>1, <1>2

\* Appending an event or putting it in the place of the older word about its
\* object comes to the same.
LEMMA PushSays ==
    ASSUME NEW q \in Seq(StreamEvent), NEW e \in StreamEvent, NEW o \in Objects, NEW was, NEW v,
           Says(was, q, o, v)
    PROVE  Says(was, Push(q, e), o, IF Decides(e, o) THEN Word(e, o) ELSE v)
<1> DEFINE n == Push(q, e)
           u == IF Decides(e, o) THEN Word(e, o) ELSE v
<1>0. DOMAIN q = 1..Len(q) /\ Len(q) \in Nat
  OBVIOUS
<1>1. CASE Coalesced(q, e) = {}
  <2>1. n = Append(q, e)
    BY <1>1 DEF Push
  <2>2. /\ DOMAIN n = 1..(Len(q) + 1) /\ n[Len(q) + 1] = e
        /\ \A i \in 1..Len(q) : n[i] = q[i]
    BY <2>1
  <2>3. CASE Decides(e, o)
    <3>1. \A j \in DOMAIN n : ~ (j > Len(q) + 1)
      BY <1>0, <2>2
    <3>2. Len(q) + 1 \in DOMAIN n
      BY <1>0, <2>2
    <3>3. QED  BY <2>2, <2>3, <3>1, <3>2 DEF Says
  <2>4. CASE ~ Decides(e, o)
    <3>1. CASE v = was /\ \A i \in DOMAIN q : ~ Decides(q[i], o)
      <4>1. \A i \in DOMAIN n : ~ Decides(n[i], o)
        BY <1>0, <2>2, <2>4, <3>1
      <4>2. QED  BY <2>4, <3>1, <4>1 DEF Says
    <3>2. CASE \E i \in DOMAIN q : /\ Decides(q[i], o) /\ v = Word(q[i], o)
                                   /\ \A j \in DOMAIN q : j > i => ~ Decides(q[j], o)
      <4>1. PICK i \in 1..Len(q) : /\ Decides(q[i], o) /\ v = Word(q[i], o)
                                   /\ \A j \in 1..Len(q) : j > i => ~ Decides(q[j], o)
        BY <1>0, <3>2
      <4>2. i \in DOMAIN n /\ n[i] = q[i] /\ \A j \in DOMAIN n : j > i => ~ Decides(n[j], o)
        BY <1>0, <2>2, <2>4, <4>1
      <4>3. QED  BY <2>4, <4>1, <4>2 DEF Says
    <3>3. QED  BY <3>1, <3>2 DEF Says
  <2>5. QED  BY <2>3, <2>4
<1>2. CASE Coalesced(q, e) # {}
  <2>1. PICK k \in 1..Len(q) : /\ SameObject(q[k], e)
                               /\ \A j \in (k + 1)..Len(q) : ~ SameObject(q[j], e) /\ q[j].kind # "snapshot"
    BY <1>0, <1>2 DEF Coalesced
  <2>2. Coalesced(q, e) = {k}
    BY <1>0, <2>1 DEF Coalesced
  <2>3. n = [i \in 1..Len(q) |-> IF i = k THEN e ELSE q[i]]
    BY <1>0, <1>2, <2>2 DEF Push
  <2>4. DOMAIN n = 1..Len(q) /\ n[k] = e /\ \A i \in 1..Len(q) : i # k => n[i] = q[i]
    BY <2>3
  <2>5. e.kind = "delta" /\ q[k].kind = "delta" /\ q[k].object = e.object
    BY <2>1 DEF SameObject, Identity
  <2>6. CASE o = e.object
    <3>1. Decides(e, o)
      BY <2>5, <2>6 DEF Decides
    <3>2. \A j \in DOMAIN n : j > k => ~ Decides(n[j], o)
      <4>1. SUFFICES ASSUME NEW j \in 1..Len(q), j > k PROVE ~ Decides(n[j], o)
        BY <2>4
      <4>2. n[j] = q[j] /\ ~ SameObject(q[j], e) /\ q[j].kind # "snapshot"
        BY <2>1, <2>4, <4>1
      <4>3. QED  BY <2>5, <2>6, <4>2 DEF SameObject, Identity, Decides
    <3>3. QED  BY <2>4, <3>1, <3>2 DEF Says
  <2>7. CASE o # e.object
    <3>1. ~ Decides(e, o) /\ ~ Decides(q[k], o)
      BY <2>5, <2>7 DEF Decides
    <3>2. \A i \in 1..Len(q) : (Decides(n[i], o) <=> Decides(q[i], o)) /\ (i # k => n[i] = q[i])
      BY <2>4, <3>1
    <3>3. CASE v = was /\ \A i \in DOMAIN q : ~ Decides(q[i], o)
      <4>1. \A i \in DOMAIN n : ~ Decides(n[i], o)
        BY <1>0, <2>4, <3>2, <3>3
      <4>2. QED  BY <3>1, <3>3, <4>1 DEF Says
    <3>4. CASE \E i \in DOMAIN q : /\ Decides(q[i], o) /\ v = Word(q[i], o)
                                   /\ \A j \in DOMAIN q : j > i => ~ Decides(q[j], o)
      <4>1. PICK i \in 1..Len(q) : /\ Decides(q[i], o) /\ v = Word(q[i], o)
                                   /\ \A j \in 1..Len(q) : j > i => ~ Decides(q[j], o)
        BY <1>0, <3>4
      <4>2. i # k
        BY <3>1, <4>1
      <4>3. i \in DOMAIN n /\ n[i] = q[i] /\ \A j \in DOMAIN n : j > i => ~ Decides(n[j], o)
        BY <2>4, <3>2, <4>1, <4>2
      <4>4. QED  BY <3>1, <4>1, <4>3 DEF Says
    <3>5. QED  BY <3>3, <3>4 DEF Says
  <2>8. QED  BY <2>6, <2>7
<1>3. QED  BY <1>1, <1>2

\* The chunks of a snapshot tell all of it, whatever was known before.
LEMMA ChunksSay ==
    ASSUME NEW snap \in Snapshot
    PROVE  /\ SnapshotEvents(snap) \in Seq(StreamEvent) /\ SnapshotEvents(snap) # <<>>
           /\ \A o \in Objects : \A was : Says(was, SnapshotEvents(snap), o, snap.items[o])
<1> DEFINE items == snap.items
           q == SnapshotEvents(snap)
           m == Cardinality(Present(items))
           n == Max({1, m})
           Chunk(i) == [p \in Objects |-> IF Place(p, items) = i THEN items[p] ELSE 0]
<1>1. items \in Items /\ \A p \in Objects : items[p] \in 0..MaxRV
  BY DEF Snapshot, Items
<1>2. IsFiniteSet(Present(items)) /\ m \in Nat
  BY FS_Subset, FS_CardinalityType, WatchAssumption DEF Present
<1>3. n \in Nat /\ n >= 1 /\ n >= m
  <2>1. \E x \in {1, m} : \A y \in {1, m} : x >= y
    BY <1>2
  <2>2. QED  BY <1>2, <2>1 DEF Max
<1>4. \A p \in Present(items) : Place(p, items) \in 1..n
  <2>1. SUFFICES ASSUME NEW p \in Present(items) PROVE Place(p, items) \in 1..n
    OBVIOUS
  <2> DEFINE T == {x \in Present(items) : x <= p}
  <2>2. T \subseteq Present(items) /\ p \in T
    BY WatchAssumption DEF Present
  <2>3. IsFiniteSet(T) /\ Cardinality(T) \in Nat /\ Cardinality(T) <= m /\ Cardinality(T) # 0
    BY <1>2, <2>2, FS_Subset, FS_CardinalityType, FS_EmptySet
  <2>4. QED  BY <1>2, <1>3, <2>3 DEF Place
<1>5. \A i \in 1..n : Chunk(i) \in Items
  BY <1>1, WatchAssumption DEF Items
<1>6. q = [i \in 1..n |-> [kind |-> "snapshot", chunk |-> i - 1, items |-> Chunk(i)]]
  BY DEF SnapshotEvents
<1> HIDE DEF q, n, m
<1>7. \A i \in 1..n : q[i] = [kind |-> "snapshot", chunk |-> i - 1, items |-> Chunk(i)]
  BY <1>6
<1>8. \A i \in 1..n : q[i].kind = "snapshot" /\ q[i].chunk = i - 1 /\ q[i].items = Chunk(i)
  <2>1. SUFFICES ASSUME NEW i \in 1..n
                 PROVE  q[i].kind = "snapshot" /\ q[i].chunk = i - 1 /\ q[i].items = Chunk(i)
    OBVIOUS
  <2> DEFINE c == Chunk(i)
  <2>2. q[i] = [kind |-> "snapshot", chunk |-> i - 1, items |-> c]
    BY <1>7
  <2> HIDE DEF c
  <2>3. q[i].kind = "snapshot" /\ q[i].chunk = i - 1 /\ q[i].items = c
    BY <2>2
  <2>4. QED  BY <2>3 DEF c
<1>9. DOMAIN q = 1..n
  BY <1>6
<1>10. \A i \in 1..n : q[i] \in StreamEvent
  <2>1. SUFFICES ASSUME NEW i \in 1..n PROVE q[i] \in StreamEvent
    OBVIOUS
  <2> DEFINE c == Chunk(i)
  <2>2. i - 1 \in Nat /\ c \in Items /\ q[i] = [kind |-> "snapshot", chunk |-> i - 1, items |-> c]
    BY <1>3, <1>5, <1>7
  <2> HIDE DEF c
  <2>3. q[i] \in [kind : {"snapshot"}, chunk : Nat, items : Items]
    BY <2>2
  <2>4. QED  BY <2>3 DEF StreamEvent
<1>11. q \in Seq(StreamEvent) /\ Len(q) = n /\ DOMAIN q = 1..n
  <2>1. q = [i \in 1..n |-> q[i]]
    BY <1>6
  <2> DEFINE f == [i \in 1..n |-> q[i]]
  <2>2. f \in [1..n -> StreamEvent]
    BY <1>10
  <2>3. q \in [1..n -> StreamEvent]
    BY <2>1, <2>2
  <2>4. QED  BY <1>3, <2>3
<1>12. ASSUME NEW o \in Objects, NEW was PROVE Says(was, q, o, items[o])
  <2>1. \A i \in 1..n : /\ Word(q[i], o) = IF Place(o, items) = i THEN items[o] ELSE 0
                        /\ Decides(q[i], o) <=> i = 1 \/ (Place(o, items) = i /\ items[o] # 0)
    <3>1. SUFFICES ASSUME NEW i \in 1..n
                   PROVE  /\ Word(q[i], o) = IF Place(o, items) = i THEN items[o] ELSE 0
                          /\ Decides(q[i], o) <=> i = 1 \/ (Place(o, items) = i /\ items[o] # 0)
      OBVIOUS
    <3>2. /\ q[i].kind = "snapshot" /\ q[i].chunk = i - 1
          /\ q[i].items[o] = IF Place(o, items) = i THEN items[o] ELSE 0
      BY <1>8
    <3>3. QED  BY <1>3, <3>2 DEF Word, Decides
  <2>2. CASE items[o] = 0
    <3>1. \A i \in 1..n : (Decides(q[i], o) <=> i = 1) /\ Word(q[i], o) = 0
      BY <2>1, <2>2
    <3>2. 1 \in DOMAIN q /\ Decides(q[1], o) /\ Word(q[1], o) = items[o]
          /\ \A j \in DOMAIN q : j > 1 => ~ Decides(q[j], o)
      BY <1>3, <1>11, <2>2, <3>1
    <3>3. QED  BY <3>2 DEF Says
  <2>3. CASE items[o] # 0
    <3> DEFINE k == Place(o, items)
    <3>1. k \in 1..n
      BY <1>4, <2>3 DEF Present
    <3>2. k \in DOMAIN q /\ Decides(q[k], o) /\ Word(q[k], o) = items[o]
          /\ \A j \in DOMAIN q : j > k => ~ Decides(q[j], o)
      BY <1>3, <1>11, <2>1, <2>3, <3>1
    <3>3. QED  BY <3>2 DEF Says
  <2>4. QED  BY <2>2, <2>3
<1>13. q # <<>>
  BY <1>3, <1>11
<1>14. QED  BY <1>11, <1>12, <1>13 DEF q

-----------------------------------------------------------------------------
(* Readers *)

LEMMA ReaderTypes == NewReader \in Reader /\ \A o \in Objects : Nothing[o] = 0
  BY WatchAssumption DEF NewReader, Reader, Nothing, Items

LEMMA SignalTyped ==
    ASSUME NEW kind \in {"progress", "refreshed", "reset", "error"}
    PROVE  /\ Signal(kind) \in StreamEvent /\ <<Signal(kind)>> \in Seq(StreamEvent)
           /\ \A o \in Objects : ~ Decides(Signal(kind), o)
<1>1. Signal(kind) \in [kind : {"progress", "refreshed", "reset", "error"}] /\ Signal(kind).kind = kind
  BY DEF Signal
<1>2. Signal(kind) \in StreamEvent
  BY <1>1 DEF StreamEvent
<1>3. QED  BY <1>1, <1>2 DEF Decides

LEMMA TerminatedReads ==
    ASSUME NEW x, Reads(x), x.of # None
    PROVE  Reads(Terminated(x)) /\ Terminated(x).of = None
<1>1. <<Signal("reset")>> \in Seq(StreamEvent) /\ Nothing \in Items
  BY SignalTyped, WatchAssumption DEF Nothing, Items
<1>2. x \in Reader /\ x.used
  BY DEF Reads, NewReader, Reader
<1>3. QED  BY <1>1, <1>2 DEF Reads, Terminated, Reader

LEMMA ClosedReads ==
    ASSUME NEW x, Reads(x), x.of # None
    PROVE  Reads(Closed(x)) /\ Closed(x).of = None
<1>1. <<>> \in Seq(StreamEvent) /\ Nothing \in Items
  BY WatchAssumption DEF Nothing, Items
<1>2. x \in Reader /\ x.used
  BY DEF Reads, NewReader, Reader
<1>3. QED  BY <1>1, <1>2 DEF Reads, Closed, Reader

LEMMA PushedReads ==
    ASSUME NEW x, Reads(x), x.of # None, NEW e \in StreamEvent
    PROVE  /\ Reads(Pushed(x, e))
           /\ Pushed(x, e).of \in {x.of, None}
           /\ Pushed(x, e).of # None => Pushed(x, e) = [x EXCEPT !.queue = Push(@, e)]
<1>1. x \in Reader /\ x.used /\ x.queue \in Seq(StreamEvent)
  BY DEF Reads, NewReader, Reader
<1>2. CASE PushFits(x.queue, e)
  <2> DEFINE p == Push(x.queue, e)
             n == [x EXCEPT !.queue = p]
  <2>1. p \in Seq(StreamEvent) /\ Len(p) <= QueueEvents
    BY <1>1, <1>2, PushTyped DEF Reads
  <2>2. Pushed(x, e) = n
    BY <1>2 DEF Pushed
  <2> HIDE DEF p
  <2>3. n \in Reader /\ n.of = x.of /\ n.closed = x.closed /\ n.used /\ n.queue = p
    BY <1>1, <2>1 DEF Reader
  <2>4. Reads(n) /\ n.of = x.of
    BY <2>1, <2>3 DEF Reads
  <2>5. QED  BY <2>2, <2>4 DEF p
<1>3. CASE ~ PushFits(x.queue, e)
  BY <1>3, TerminatedReads DEF Pushed
<1>4. QED  BY <1>2, <1>3

\* Between r and n the worker sends the event, and who followed r and gets it
\* follows n.
Carries(e, r, n) ==
    n.snap # None =>
        /\ r.snap # None
        /\ \A o \in Objects : \A seen \in 0..MaxRV :
              Says(seen, r.out, o, r.snap.items[o]) =>
                  Says(IF Decides(e, o) THEN Word(e, o) ELSE seen, n.out, o, n.snap.items[o])

Same(r, n) == n.snap = r.snap /\ n.out = r.out

LEMMA SameFollows ==
    ASSUME NEW x, NEW r, NEW n, Follows(x, r), Same(r, n) PROVE Follows(x, n)
  BY DEF Follows, Same

LEMMA SignalCarries ==
    ASSUME NEW kind \in {"progress", "refreshed", "reset", "error"}, NEW r, NEW n,
           Same(r, n) \/ n.snap = None
    PROVE  Carries(Signal(kind), r, n)
  BY SignalTyped DEF Carries, Same

LEMMA HeadCarries ==
    ASSUME NEW r, r.out \in Seq(StreamEvent), r.out # <<>>, NEW n,
           n.snap = r.snap, n.out = Tail(r.out)
    PROVE  Carries(Head(r.out), r, n)
<1>1. SUFFICES ASSUME n.snap # None, NEW o \in Objects, NEW seen \in 0..MaxRV,
                      Says(seen, r.out, o, r.snap.items[o])
               PROVE  Says(IF Decides(Head(r.out), o) THEN Word(Head(r.out), o) ELSE seen, n.out, o, n.snap.items[o])
  BY DEF Carries
<1> DEFINE q == r.out
           v == r.snap.items[o]
<1>2. q \in Seq(StreamEvent) /\ q # <<>> /\ Says(seen, q, o, v)
  BY <1>1
<1> HIDE DEF q, v
<1>3. Says(IF Decides(Head(q), o) THEN Word(Head(q), o) ELSE seen, Tail(q), o, v)
  BY <1>2, SaysTail
<1>4. QED  BY <1>3 DEF q, v

LEMMA PushedFollows ==
    ASSUME NEW x, Reads(x), x.of # None, NEW e \in StreamEvent, NEW r, NEW n,
           Follows(x, r), Carries(e, r, n), Pushed(x, e).of # None
    PROVE  Follows(Pushed(x, e), n)
<1> DEFINE p == Push(x.queue, e)
<1>1. Pushed(x, e) = [x EXCEPT !.queue = p] /\ x \in Reader /\ x.queue \in Seq(StreamEvent)
  BY PushedReads DEF Reads, Reader
<1>2. Pushed(x, e).view = x.view /\ Pushed(x, e).queue = p
  <2> HIDE DEF p
  <2>1. QED  BY <1>1 DEF Reader
<1>3. SUFFICES ASSUME NEW o \in Objects
               PROVE  \E seen \in 0..MaxRV : /\ Says(x.view[o], p, o, seen)
                                             /\ n.snap # None => Says(seen, n.out, o, n.snap.items[o])
  BY <1>2 DEF Follows
<1>4. PICK seen \in 0..MaxRV : /\ Says(x.view[o], x.queue, o, seen)
                               /\ r.snap # None => Says(seen, r.out, o, r.snap.items[o])
  BY DEF Follows
<1> DEFINE u == IF Decides(e, o) THEN Word(e, o) ELSE seen
<1>5. u \in 0..MaxRV
  BY EventFields
<1>6. Says(x.view[o], p, o, u)
  BY <1>1, <1>4, PushSays
<1>7. n.snap # None => Says(u, n.out, o, n.snap.items[o])
  BY <1>4 DEF Carries
<1>8. QED  BY <1>5, <1>6, <1>7

-----------------------------------------------------------------------------
(* Steps of a worker *)

LEMMA RemovalKeeps ==
    ASSUME NEW w \in Workers, NEW r, Works(r), NEW now
    PROVE  /\ Works(AfterRemoval(w, r, now)) /\ Same(r, AfterRemoval(w, r, now))
           /\ AfterRemoval(w, r, now).pc = r.pc
<1> DEFINE n == AfterRemoval(w, r, now)
<1>1. \/ n = r
      \/ n = [r EXCEPT !.timer = TRUE]
      \/ n = [r EXCEPT !.stopping = TRUE, !.flush = IF @ = "no" THEN "copy" ELSE @]
  BY DEF AfterRemoval
<1> HIDE DEF n
<1>2. r \in Worker
  BY DEF Works
<1>3. /\ n \in Worker /\ n.pc = r.pc /\ n.snap = r.snap /\ n.got = r.got /\ n.flushed = r.flushed
      /\ n.rv = r.rv /\ n.out = r.out
      /\ (n.flush \in {"begin", "commit"} => r.flush \in {"begin", "commit"})
  <2>1. CASE n = r
    BY <1>2, <2>1
  <2>2. CASE n = [r EXCEPT !.timer = TRUE]
    <3>1. n \in Worker
      BY <1>2, <2>2, ZenonT(60) DEF Worker
    <3>2. QED  BY <1>2, <2>2, <3>1 DEF Worker
  <2>3. CASE n = [r EXCEPT !.stopping = TRUE, !.flush = IF @ = "no" THEN "copy" ELSE @]
    <3> DEFINE f == IF r.flush = "no" THEN "copy" ELSE r.flush
    <3>1. n = [r EXCEPT !.stopping = TRUE, !.flush = f] /\ f \in {"no", "copy", "begin", "commit"}
          /\ (f \in {"begin", "commit"} => r.flush \in {"begin", "commit"})
      BY <1>2, <2>3 DEF Worker
    <3> HIDE DEF f
    <3>2. n \in Worker
      BY <1>2, <3>1, ZenonT(60) DEF Worker
    <3>3. QED  BY <1>2, <3>1, <3>2 DEF Worker
  <2>4. QED  BY <1>1, <2>1, <2>2, <2>3
<1>4. Works(n) /\ Same(r, n) /\ n.pc = r.pc
  BY <1>3 DEF Works, Same
<1>5. QED  BY <1>4 DEF n

LEMMA ManagerKeeps ==
    ASSUME WatchInv, NEW w \in Workers, NEW r, Move(w, r), Alive(worker[w]) => Alive(r),
           current' \in {current, None}, closed' \in BOOLEAN, unsupported' \in BOOLEAN
    PROVE  ManagerInv'
<1>1. \A v \in Workers : worker'[v] = IF v = w THEN r ELSE worker[v]
  BY DEF WatchInv, WorkersInv, Move
<1>2. QED  BY <1>1 DEF WatchInv, ManagerInv, Alive

LEMMA MoveKeeps ==
    ASSUME WatchInv, NEW w \in Workers, NEW r, Works(r), Move(w, r), Alive(worker[w]) => Alive(r),
           \A s \in Readers : subs[s].of = w => Follows(subs[s], r), subs' = subs, cluster' = cluster
    PROVE  WorkersInv' /\ ReadersInv'
<1>0. worker \in [Workers -> Worker] /\ r \in Worker
  BY DEF WatchInv, WorkersInv, Works
<1>1. worker' \in [Workers -> Worker] /\ \A v \in Workers : worker'[v] = IF v = w THEN r ELSE worker[v]
  BY <1>0 DEF Move
<1>2. \A v \in Workers : Works(worker'[v])
  BY <1>1 DEF WatchInv, WorkersInv
<1>3. WorkersInv'
  BY <1>1, <1>2 DEF WorkersInv, Works, Genuine
<1>4. ASSUME NEW s \in Readers, subs[s].of # None
      PROVE  Alive(worker'[subs[s].of]) /\ Follows(subs[s], worker'[subs[s].of])
  <2>1. subs[s].of \in Workers
    BY <1>4 DEF WatchInv, ReadersInv, Reads, Reader
  <2>2. QED  BY <1>1, <1>4, <2>1 DEF WatchInv, ReadersInv
<1>5. ReadersInv'
  BY <1>4 DEF WatchInv, ReadersInv
<1>6. QED  BY <1>3, <1>5

LEMMA TellKeeps ==
    ASSUME WatchInv, NEW w \in Workers, NEW r, NEW e \in StreamEvent, Works(r), Tell(w, e, r),
           Alive(worker[w]) => Alive(r), Carries(e, worker[w], r), cluster' = cluster
    PROVE  WorkersInv' /\ ReadersInv'
<1> DEFINE n == AfterRemoval(w, r, subs')
<1>0. Works(n) /\ Same(r, n) /\ n.pc = r.pc /\ n \in Worker /\ worker \in [Workers -> Worker]
  BY RemovalKeeps DEF Works, WatchInv, WorkersInv
<1>1. worker' = [worker EXCEPT ![w] = n]
  BY DEF Tell
<1> HIDE DEF n
<1>2. worker' \in [Workers -> Worker] /\ \A v \in Workers : worker'[v] = IF v = w THEN n ELSE worker[v]
  BY <1>0, <1>1
<1>3. \A v \in Workers : Works(worker'[v])
  BY <1>0, <1>2 DEF WatchInv, WorkersInv
<1>4. WorkersInv'
  BY <1>2, <1>3 DEF WorkersInv, Works, Genuine
<1>5. \A s \in Readers : subs'[s] = IF subs[s].of = w THEN Pushed(subs[s], e) ELSE subs[s]
  BY DEF Tell, Broadcast
<1>6. DOMAIN subs' = Readers /\ subs' = [s \in Readers |-> subs'[s]]
  BY DEF Tell, Broadcast
<1>7. ASSUME NEW s \in Readers
      PROVE  /\ subs'[s] \in Reader /\ Reads(subs'[s])
             /\ subs'[s].of # None => Alive(worker'[subs'[s].of]) /\ Follows(subs'[s], worker'[subs'[s].of])
  <2> DEFINE x == subs[s]
  <2>1. /\ Reads(x) /\ x \in Reader /\ x.of \in Workers \cup {None}
        /\ x.of # None => Alive(worker[x.of]) /\ Follows(x, worker[x.of])
    BY DEF WatchInv, ReadersInv, Reads, Reader
  <2>2. CASE x.of = w
    <3>1. x.of # None
      BY <2>2, WatchAssumption
    <3>2. Reads(Pushed(x, e)) /\ Pushed(x, e).of \in {w, None}
      BY <2>1, <2>2, <3>1, PushedReads
    <3>3. Carries(e, worker[w], n)
      BY <1>0 DEF Carries, Same
    <3>4. Pushed(x, e).of # None => Follows(Pushed(x, e), n)
      BY <2>1, <2>2, <3>1, <3>3, PushedFollows
    <3>5. Alive(n)
      BY <1>0, <2>1, <2>2, <3>1 DEF Alive
    <3>6. QED  BY <1>2, <1>5, <2>2, <3>2, <3>4, <3>5 DEF Reads
  <2>3. CASE x.of # w
    BY <1>2, <1>5, <2>1, <2>3
  <2>4. QED  BY <2>2, <2>3
<1>8. ReadersInv'
  <2>1. subs' \in [Readers -> Reader]
    BY <1>6, <1>7
  <2>2. QED  BY <1>7, <2>1 DEF ReadersInv
<1>9. QED  BY <1>4, <1>8

LEMMA TellManager ==
    ASSUME WatchInv, NEW w \in Workers, NEW r, NEW e, Works(r), Tell(w, e, r),
           Alive(worker[w]) => Alive(r), UNCHANGED managerVars
    PROVE  ManagerInv'
<1> DEFINE n == AfterRemoval(w, r, subs')
<1>1. Works(n) /\ n.pc = r.pc /\ Move(w, n)
  BY RemovalKeeps DEF Tell, Move
<1>2. Alive(worker[w]) => Alive(n)
  BY <1>1 DEF Alive
<1> HIDE DEF n
<1>3. current' \in {current, None} /\ closed' \in BOOLEAN /\ unsupported' \in BOOLEAN
  BY DEF managerVars, WatchInv, ManagerInv
<1>4. QED  BY <1>1, <1>2, <1>3, ManagerKeeps

LEMMA CellKeeps ==
    ASSUME WatchInv, cluster' = cluster, begun' \in Nat, dead' \in BOOLEAN,
           \/ held' = held \/ held' = None \/ \E w \in Workers : held' = MarkedStale(w)
           \/ \E snap \in Snapshot, b \in BOOLEAN, i \in Nat :
                 Genuine(snap) /\ held' = [data |-> snap, fresh |-> b, issue |-> i]
    PROVE  CellInv'
<1>1. held \in Held \cup {None} /\ Data = Snapshot /\ None \notin Held /\ (held # None => Genuine(held.data))
  BY WatchAssumption DEF WatchInv, CellInv, CellTypeOK, None
<1>2. CASE \E snap \in Snapshot, b \in BOOLEAN, i \in Nat :
                 Genuine(snap) /\ held' = [data |-> snap, fresh |-> b, issue |-> i]
  BY <1>1, <1>2 DEF CellInv, CellTypeOK, Held, Genuine, None
<1>3. CASE \E w \in Workers : held' = MarkedStale(w)
  <2>1. CASE held' = held
    BY <1>1, <2>1 DEF CellInv, CellTypeOK, Genuine, None
  <2>2. CASE held \in Held /\ held' = [held EXCEPT !.fresh = FALSE]
    <3>1. held' \in Held /\ held'.data = held.data /\ Genuine(held.data)
      BY <1>1, <2>2 DEF Held
    <3>2. QED  BY <3>1 DEF CellInv, CellTypeOK, Genuine, None
  <2>3. QED  BY <1>1, <1>3, <2>1, <2>2 DEF MarkedStale
<1>4. CASE held' = held \/ held' = None
  BY <1>1, <1>4 DEF CellInv, CellTypeOK, Genuine, None
<1>5. QED  BY <1>2, <1>3, <1>4

LEMMA CellMoves ==
    ASSUME WatchInv, cluster' = cluster, UNCHANGED cellVars \/ Begin \/ Void \/ Kill
    PROVE  CellInv'
<1>1. begun \in Nat /\ dead \in BOOLEAN
  BY DEF WatchInv, CellInv, CellTypeOK
<1>2. /\ begun' = begun \/ begun' = begun + 1
      /\ dead' = dead \/ dead' = TRUE
      /\ held' = held \/ held' = None
  BY DEF cellVars, Begin, Void, Kill, None
<1>3. begun' \in Nat
  BY <1>1, <1>2
<1>4. dead' \in BOOLEAN
  BY <1>1, <1>2
<1>5. QED  BY <1>2, <1>3, <1>4, CellKeeps

LEMMA WorkerIs ==
    ASSUME WatchInv, NEW w \in Workers PROVE worker[w] \in Worker /\ Works(worker[w])
  BY DEF WatchInv, WorkersInv

LEMMA FollowsIs ==
    ASSUME WatchInv, NEW w \in Workers, NEW s \in Readers, subs[s].of = w
    PROVE  Reads(subs[s]) /\ Alive(worker[w]) /\ Follows(subs[s], worker[w]) /\ subs[s].of # None
  BY WatchAssumption DEF WatchInv, ReadersInv

LEMMA MoveStep ==
    ASSUME WatchInv, NEW w \in Workers, NEW r, Works(r), Move(w, r), Alive(worker[w]) => Alive(r),
           \A s \in Readers : subs[s].of = w => Follows(subs[s], r), subs' = subs, cluster' = cluster,
           CellInv',
           current' \in {current, None}, closed' \in BOOLEAN, unsupported' \in BOOLEAN
    PROVE  WatchInv'
<1>1. ManagerInv'
  BY ManagerKeeps
<1>2. WorkersInv' /\ ReadersInv'
  BY MoveKeeps
<1>3. ClusterInv'
  BY DEF WatchInv, ClusterInv
<1>4. QED  BY <1>1, <1>2, <1>3 DEF WatchInv

\* A step in which the worker's snapshot and what it sends stay the same.
LEMMA QuietStep ==
    ASSUME WatchInv, NEW w \in Workers, NEW r, Works(r), Move(w, r), Alive(worker[w]) => Alive(r),
           Same(worker[w], r), subs' = subs, cluster' = cluster, CellInv',
           current' \in {current, None}, closed' \in BOOLEAN, unsupported' \in BOOLEAN
    PROVE  WatchInv'
<1>1. \A s \in Readers : subs[s].of = w => Follows(subs[s], r)
  BY FollowsIs, SameFollows
<1>2. QED  BY <1>1, MoveStep

LEMMA TellStep ==
    ASSUME WatchInv, NEW w \in Workers, NEW r, NEW e \in StreamEvent, Works(r), Tell(w, e, r),
           Alive(worker[w]) => Alive(r), Carries(e, worker[w], r), cluster' = cluster, CellInv',
           UNCHANGED managerVars
    PROVE  WatchInv'
<1>1. ManagerInv'
  BY TellManager
<1>2. WorkersInv' /\ ReadersInv'
  BY TellKeeps
<1>3. ClusterInv'
  BY DEF WatchInv, ClusterInv
<1>4. QED  BY <1>1, <1>2, <1>3 DEF WatchInv

LEMMA ManagerSame ==
    ASSUME WatchInv, UNCHANGED managerVars
    PROVE  current' \in {current, None} /\ closed' \in BOOLEAN /\ unsupported' \in BOOLEAN
  BY DEF WatchInv, ManagerInv, managerVars

\* The worker moves on and takes nothing to send.
LEMMA WorksOn ==
    ASSUME NEW r, Works(r), r.pc \notin {"send", "notify"}, NEW n \in Worker, Same(r, n),
           n.flush = r.flush, n.flushed = r.flushed, n.pc \notin {"send", "notify"},
           n.pc \in {"connect", "stream"} => n.snap # None /\ n.rv = n.snap.rv,
           Genuine(n.got), n.pc \in {"commit", "install"} => n.got # None
    PROVE  Works(n)
  BY DEF Works, Same

LEMMA ListedIs == ASSUME WatchInv PROVE Listed \in Snapshot /\ Listed # None /\ Genuine(Listed)
<1>1. cluster \in Seq(Items) /\ Len(cluster) \in 1..MaxRV /\ cluster[Len(cluster)] \in Items
  BY DEF WatchInv, ClusterInv
<1>2. Listed \in Snapshot /\ Listed.rv = Len(cluster) /\ Listed.items = cluster[Len(cluster)]
  BY <1>1 DEF Listed, Snapshot, Last
<1>3. QED  BY <1>1, <1>2, WatchAssumption DEF Genuine


\* The worker moves on in its run, with nothing to send before and after.
Goes(r, n) ==
    /\ n \in Worker /\ Same(r, n) /\ n.flush = r.flush /\ n.flushed = r.flushed
    /\ r.pc \notin {"send", "notify", "none", "done"} /\ n.pc \notin {"send", "notify", "none", "done"}
    /\ n.got \in {r.got, None, Listed}
    /\ n.pc \in {"commit", "install"} => n.got = Listed \/ (r.pc \in {"commit", "install"} /\ n.got = r.got)
    /\ n.pc \in {"connect", "stream"} => r.pc \in {"connect", "stream"} /\ n.rv = r.rv

LEMMA GoesWorks ==
    ASSUME WatchInv, NEW w \in Workers, NEW n, Goes(worker[w], n)
    PROVE  Works(n) /\ Alive(n) /\ Same(worker[w], n)
<1>1. Works(worker[w]) /\ Listed # None /\ Genuine(Listed)
  BY WorkerIs, ListedIs
<1>2. Genuine(n.got) /\ (n.pc \in {"commit", "install"} => n.got # None)
  BY <1>1 DEF Goes, Works, Genuine
<1>3. n.pc \in {"connect", "stream"} => n.snap # None /\ n.rv = n.snap.rv
  BY <1>1 DEF Goes, Works, Same
<1>4. Works(n)
  BY <1>1, <1>2, <1>3, WorksOn DEF Goes
<1>5. QED  BY <1>4 DEF Goes, Alive

LEMMA GoesStep ==
    ASSUME WatchInv, NEW w \in Workers, NEW n, Goes(worker[w], n), Move(w, n),
           subs' = subs, cluster' = cluster, CellInv',
           current' \in {current, None}, closed' \in BOOLEAN, unsupported' \in BOOLEAN
    PROVE  WatchInv'
  BY GoesWorks, QuietStep

LEMMA GoesTelling ==
    ASSUME WatchInv, NEW w \in Workers, NEW n, Goes(worker[w], n),
           NEW kind \in {"progress", "refreshed", "reset", "error"}, Tell(w, Signal(kind), n),
           cluster' = cluster, CellInv', UNCHANGED managerVars
    PROVE  WatchInv'
<1>1. Works(n) /\ Alive(n) /\ Carries(Signal(kind), worker[w], n) /\ Signal(kind) \in StreamEvent
  BY GoesWorks, SignalCarries, SignalTyped
<1>2. QED  BY <1>1, TellStep

-----------------------------------------------------------------------------
(* The worker lists *)

LEMMA InitialSyncStep == ASSUME WatchInv, NEW w \in Workers, InitialSync(w) PROVE WatchInv'
<1> DEFINE r == worker[w]
           t == IF dead THEN 0 ELSE begun + 1
           n == [r EXCEPT !.pc = "commit", !.way = "initial", !.got = Listed, !.token = t]
<1>1. r \in Worker /\ r.pc = "initial" /\ t \in Nat /\ Listed \in Snapshot
  BY WorkerIs, ListedIs DEF InitialSync, At, WatchInv, CellInv, CellTypeOK
<1>2. Move(w, n)
  BY DEF InitialSync, Goto
<1> HIDE DEF r, t
<1>3. Goes(r, n)
  <2>1. n \in Worker
    BY <1>1, ZenonT(60) DEF Worker
  <2>2. QED  BY <1>1, <2>1 DEF Worker, Same, Goes
<1>4. CellInv' /\ subs' = subs /\ cluster' = cluster /\ UNCHANGED managerVars
  BY CellMoves DEF InitialSync
<1>5. QED  BY <1>2, <1>3, <1>4, GoesStep, ManagerSame DEF r

LEMMA InitialFailsStep ==
    ASSUME WatchInv, NEW w \in Workers, InitialFails(w) \/ InitialUnsupported(w) PROVE WatchInv'
<1> DEFINE r == worker[w]
           n == [r EXCEPT !.pc = "list"]
<1>1. r \in Worker /\ r.pc = "initial"
  BY WorkerIs DEF InitialFails, InitialUnsupported, At
<1>2. Move(w, n)
  BY DEF InitialFails, InitialUnsupported, Goto
<1> HIDE DEF r
<1>3. Goes(r, n)
  <2>1. n \in Worker
    BY <1>1, ZenonT(60) DEF Worker
  <2>2. QED  BY <1>1, <2>1 DEF Worker, Same, Goes
<1>4. CellInv' /\ subs' = subs /\ cluster' = cluster
  BY CellMoves DEF InitialFails, InitialUnsupported
<1>5. current' = current /\ closed' = closed /\ (unsupported' = unsupported \/ unsupported' = TRUE)
  BY DEF InitialFails, InitialUnsupported, managerVars
<1>6. current' \in {current, None} /\ closed' \in BOOLEAN /\ unsupported' \in BOOLEAN
  BY <1>5 DEF WatchInv, ManagerInv
<1>7. QED  BY <1>2, <1>3, <1>4, <1>6, GoesStep DEF r

LEMMA ListBeginStep == ASSUME WatchInv, NEW w \in Workers, ListBegin(w) PROVE WatchInv'
<1> DEFINE r == worker[w]
           a == [r EXCEPT !.pc = "listing", !.token = begun + 1]
           b == [r EXCEPT !.pc = "fail"]
<1>1. r \in Worker /\ r.pc = "list" /\ begun + 1 \in Nat
  BY WorkerIs DEF ListBegin, At, WatchInv, CellInv, CellTypeOK
<1>2. Move(w, a) \/ Move(w, b)
  BY DEF ListBegin, Goto
<1> HIDE DEF r
<1>3. Goes(r, a)
  <2>1. a \in Worker
    BY <1>1, ZenonT(60) DEF Worker
  <2>2. QED  BY <1>1, <2>1 DEF Worker, Same, Goes
<1>4. Goes(r, b)
  <2>1. b \in Worker
    BY <1>1, ZenonT(60) DEF Worker
  <2>2. QED  BY <1>1, <2>1 DEF Worker, Same, Goes
<1>5. CellInv' /\ subs' = subs /\ cluster' = cluster /\ UNCHANGED managerVars
  BY CellMoves DEF ListBegin
<1> HIDE DEF a, b
<1>6. QED  BY <1>2, <1>3, <1>4, <1>5, GoesStep, ManagerSame DEF r

LEMMA PreviewStep == ASSUME WatchInv, NEW w \in Workers, Preview(w) PROVE WatchInv'
<1> DEFINE r == worker[w]
           a == [r EXCEPT !.pc = "fail", !.token = 0]
           b == [r EXCEPT !.previewed = TRUE]
<1>1. r \in Worker /\ r.pc = "listing"
  BY WorkerIs DEF Preview, At
<1>2. (Move(w, a) /\ subs' = subs) \/ Tell(w, Signal("progress"), b)
  BY DEF Preview, Goto
<1> HIDE DEF r
<1>3. Goes(r, a)
  <2>1. a \in Worker
    BY <1>1, ZenonT(60) DEF Worker
  <2>2. QED  BY <1>1, <2>1 DEF Worker, Same, Goes
<1>4. Goes(r, b)
  <2>1. b \in Worker
    BY <1>1, ZenonT(60) DEF Worker
  <2>2. QED  BY <1>1, <2>1 DEF Worker, Same, Goes
<1>5. CellInv' /\ cluster' = cluster /\ UNCHANGED managerVars
  BY CellMoves DEF Preview
<1> HIDE DEF a, b
<1>6. QED  BY <1>2, <1>3, <1>4, <1>5, GoesStep, GoesTelling, ManagerSame DEF r

LEMMA ListAnswersStep == ASSUME WatchInv, NEW w \in Workers, ListAnswers(w) PROVE WatchInv'
<1> DEFINE r == worker[w]
           a == [r EXCEPT !.pc = "commit", !.got = Listed, !.previewed = FALSE]
           b == [r EXCEPT !.pc = "fail", !.token = 0]
<1>1. r \in Worker /\ r.pc = "listing" /\ Listed \in Snapshot
  BY WorkerIs, ListedIs DEF ListAnswers, At
<1>2. Move(w, a) \/ Move(w, b)
  BY DEF ListAnswers, Goto
<1> HIDE DEF r
<1>3. Goes(r, a)
  <2>1. a \in Worker
    BY <1>1, ZenonT(60) DEF Worker
  <2>2. QED  BY <1>1, <2>1 DEF Worker, Same, Goes
<1>4. Goes(r, b)
  <2>1. b \in Worker
    BY <1>1, ZenonT(60) DEF Worker
  <2>2. QED  BY <1>1, <2>1 DEF Worker, Same, Goes
<1>5. CellInv' /\ subs' = subs /\ cluster' = cluster /\ UNCHANGED managerVars
  BY CellMoves DEF ListAnswers
<1> HIDE DEF a, b
<1>6. QED  BY <1>2, <1>3, <1>4, <1>5, GoesStep, ManagerSame DEF r

LEMMA ListFailsStep == ASSUME WatchInv, NEW w \in Workers, ListFails(w) PROVE WatchInv'
<1> DEFINE r == worker[w]
           a == [r EXCEPT !.pc = "forbidden", !.token = 0]
           b == [r EXCEPT !.pc = "fail", !.token = 0]
<1>1. r \in Worker /\ r.pc = "listing"
  BY WorkerIs DEF ListFails, At
<1>2. Move(w, a) \/ Move(w, b)
  BY DEF ListFails, Goto
<1> HIDE DEF r
<1>3. Goes(r, a)
  <2>1. a \in Worker
    BY <1>1, ZenonT(60) DEF Worker
  <2>2. QED  BY <1>1, <2>1 DEF Worker, Same, Goes
<1>4. Goes(r, b)
  <2>1. b \in Worker
    BY <1>1, ZenonT(60) DEF Worker
  <2>2. QED  BY <1>1, <2>1 DEF Worker, Same, Goes
<1>5. CellInv' /\ subs' = subs /\ cluster' = cluster /\ UNCHANGED managerVars
  BY CellMoves DEF ListFails
<1> HIDE DEF a, b
<1>6. QED  BY <1>2, <1>3, <1>4, <1>5, GoesStep, ManagerSame DEF r

LEMMA CommitSnapshotStep == ASSUME WatchInv, NEW w \in Workers, CommitSnapshot(w) PROVE WatchInv'
<1> DEFINE r == worker[w]
           a == [r EXCEPT !.token = 0, !.pc = "install"]
           b == [r EXCEPT !.token = 0, !.pc = "fail"]
<1>1. r \in Worker /\ r.pc = "commit" /\ r.got \in Snapshot /\ Genuine(r.got) /\ r.token \in Nat
  BY WorkerIs DEF CommitSnapshot, At, Works, Worker
<1>2. Move(w, a) \/ Move(w, b)
  BY DEF CommitSnapshot
<1>3. subs' = subs /\ cluster' = cluster /\ UNCHANGED managerVars
  BY DEF CommitSnapshot
<1>4. Install(r.token, r.got) \/ Void \/ UNCHANGED cellVars
  BY DEF CommitSnapshot
<1> HIDE DEF r
<1>5. CellInv'
  <2>1. CASE Install(r.token, r.got)
    <3>1. held' = [data |-> r.got, fresh |-> TRUE, issue |-> r.token] /\ begun' = begun /\ dead' = dead
      BY <2>1 DEF Install
    <3>2. begun' \in Nat /\ dead' \in BOOLEAN
      BY <3>1 DEF WatchInv, CellInv, CellTypeOK
    <3>3. QED  BY <1>1, <1>3, <3>1, <3>2, CellKeeps
  <2>2. QED  BY <1>3, <1>4, <2>1, CellMoves
<1>6. Goes(r, a)
  <2>1. a \in Worker
    BY <1>1, ZenonT(60) DEF Worker
  <2>2. QED  BY <1>1, <2>1 DEF Worker, Same, Goes
<1>7. Goes(r, b)
  <2>1. b \in Worker
    BY <1>1, ZenonT(60) DEF Worker
  <2>2. QED  BY <1>1, <2>1 DEF Worker, Same, Goes
<1> HIDE DEF a, b
<1>8. QED  BY <1>2, <1>3, <1>5, <1>6, <1>7, GoesStep, ManagerSame DEF r

LEMMA InstallSnapshotStep == ASSUME WatchInv, NEW w \in Workers, InstallSnapshot(w) PROVE WatchInv'
<1> DEFINE r == worker[w]
           q == SnapshotEvents(r.got)
           a == [r EXCEPT !.pc = "send", !.snap = r.got, !.got = None, !.out = q]
           p == IF r.way = "list" THEN "fail" ELSE "list"
           b == [r EXCEPT !.pc = p, !.got = None, !.way = "list"]
<1>1. /\ r \in Worker /\ Works(r) /\ r.pc = "install" /\ p \in {"fail", "list"}
      /\ r.got \in Snapshot /\ r.got # None /\ Genuine(r.got)
  BY WorkerIs DEF InstallSnapshot, At, Works, Worker
<1>2. Move(w, a) \/ Move(w, b)
  BY DEF InstallSnapshot
<1>3. CellInv' /\ subs' = subs /\ cluster' = cluster /\ UNCHANGED managerVars
  BY CellMoves DEF InstallSnapshot
<1>4. q \in Seq(StreamEvent) /\ q # <<>> /\ \A o \in Objects : \A was : Says(was, q, o, r.got.items[o])
  BY <1>1, ChunksSay
<1> HIDE DEF r, q, p
<1>5. CASE Move(w, a)
  <2>1. a \in Worker
    BY <1>1, <1>4, ZenonT(60) DEF Worker
  <2>2. /\ a.pc = "send" /\ a.snap = r.got /\ a.got = None /\ a.out = q /\ a.flush = r.flush
        /\ a.flushed = r.flushed
    BY <1>1 DEF Worker
  <2>3. Works(a) /\ Alive(a)
    BY <1>1, <1>4, <2>1, <2>2 DEF Works, Alive, Genuine
  <2>4. \A s \in Readers : subs[s].of = w => Follows(subs[s], a)
    <3>1. SUFFICES ASSUME NEW s \in Readers, subs[s].of = w, NEW o \in Objects
                   PROVE  \E seen \in 0..MaxRV : /\ Says(subs[s].view[o], subs[s].queue, o, seen)
                                                 /\ Says(seen, a.out, o, a.snap.items[o])
      BY DEF Follows
    <3>2. PICK seen \in 0..MaxRV : Says(subs[s].view[o], subs[s].queue, o, seen)
      BY <3>1, FollowsIs DEF Follows
    <3>3. QED  BY <1>4, <2>2, <3>2
  <2> HIDE DEF a
  <2>5. QED  BY <1>3, <1>5, <2>3, <2>4, MoveStep, ManagerSame DEF r
<1>6. CASE Move(w, b)
  <2>1. b \in Worker
    BY <1>1, ZenonT(60) DEF Worker
  <2>2. Goes(r, b)
    BY <1>1, <2>1 DEF Worker, Same, Goes
  <2> HIDE DEF b
  <2>3. QED  BY <1>3, <1>6, <2>2, GoesStep, ManagerSame DEF r
<1>7. QED  BY <1>2, <1>5, <1>6

\* A worker nobody listens to drops what it would have sent.
LEMMA DropsOut ==
    ASSUME WatchInv, NEW w \in Workers, NEW n \in Worker, Move(w, n), Refused(w),
           worker[w].pc \in {"send", "notify"}, n.pc \notin {"send", "notify", "none", "done", "connect", "stream", "commit", "install"},
           n.snap = worker[w].snap, n.out = <<>>, n.flush = worker[w].flush, n.flushed = worker[w].flushed,
           n.got = worker[w].got, subs' = subs, cluster' = cluster, CellInv', UNCHANGED managerVars
    PROVE  WatchInv'
<1>1. Works(worker[w])
  BY WorkerIs
<1>2. Works(n) /\ Alive(n)
  BY <1>1, SaysNothing DEF Works, Alive
<1>3. \A s \in Readers : subs[s].of # w
  BY DEF Refused, SubscribersOf
<1>4. QED  BY <1>2, <1>3, MoveStep, ManagerSame

LEMMA SendSnapshotStep == ASSUME WatchInv, NEW w \in Workers, SendSnapshot(w) PROVE WatchInv'
<1> DEFINE r == worker[w]
           p == IF r.way = "list" THEN "fail" ELSE "list"
           a == [r EXCEPT !.out = <<>>, !.way = "list", !.pc = p]
           last == Len(r.out) = 1
           way  == IF last THEN "list" ELSE r.way
           rv   == IF last THEN r.snap.rv ELSE r.rv
           con  == IF last /\ r.way = "initial" THEN TRUE ELSE r.connected
           pc   == IF ~ last THEN "send" ELSE IF r.way = "list" THEN "connect" ELSE "stream"
           out  == Tail(r.out)
           b == [r EXCEPT !.out = out, !.way = way, !.rv = rv, !.connected = con, !.pc = pc]
<1>1. /\ r \in Worker /\ Works(r) /\ r.pc = "send" /\ p \in {"fail", "list"}
      /\ r.out \in Seq(StreamEvent) /\ r.out # <<>> /\ r.snap \in Snapshot /\ r.snap # None
  BY WorkerIs DEF SendSnapshot, At, Works, Worker
<1>2. (Refused(w) /\ Move(w, a) /\ subs' = subs) \/ Tell(w, Head(r.out), b)
  BY DEF SendSnapshot
<1>3. CellInv' /\ cluster' = cluster /\ UNCHANGED managerVars
  BY CellMoves DEF SendSnapshot
<1>4. /\ out \in Seq(StreamEvent) /\ Head(r.out) \in StreamEvent
      /\ last <=> out = <<>>
  <2> DEFINE q == r.out
  <2>1. q \in Seq(StreamEvent) /\ q # <<>>
    BY <1>1
  <2> HIDE DEF q
  <2>2. Tail(q) \in Seq(StreamEvent) /\ Head(q) \in StreamEvent /\ Len(Tail(q)) = Len(q) - 1 /\ Len(q) \in Nat
    BY <2>1
  <2> DEFINE t == Tail(q)
  <2>3. t \in Seq(StreamEvent) /\ Len(t) = Len(q) - 1
    BY <2>2
  <2> HIDE DEF t
  <2>4. t # <<>> => Len(t) # 0
    BY <2>3, EmptySeq
  <2>5. t = <<>> => Len(t) = 0
    OBVIOUS
  <2>6. Len(q) = 1 <=> t = <<>>
    BY <2>2, <2>3, <2>4, <2>5
  <2>7. QED  BY <2>2, <2>6 DEF q, t
<1>5. rv \in 0..MaxRV /\ way \in {"list", "initial"} /\ pc \in {"send", "connect", "stream"}
      /\ (pc = "send" <=> ~ last) /\ (pc # "send" => rv = r.snap.rv)
  BY <1>1 DEF Worker, Snapshot
<1>6. con \in BOOLEAN
  BY <1>1 DEF Worker
<1>7. \A o \in Objects : Says(r.snap.items[o], out, o, r.snap.items[o])
  BY <1>1, SaysTailSame DEF Works
<1> HIDE DEF r, p, last, way, rv, con, pc
<1>8. CASE Refused(w) /\ Move(w, a) /\ subs' = subs
  <2>1. <<>> \in Seq(StreamEvent)
    OBVIOUS
  <2>2. a \in Worker
    BY <1>1, <2>1, ZenonT(60) DEF Worker
  <2>3. /\ a.snap = r.snap /\ a.out = <<>> /\ a.flush = r.flush /\ a.flushed = r.flushed /\ a.got = r.got
        /\ a.pc = p
    BY <1>1 DEF Worker
  <2> HIDE DEF a
  <2>4. QED  BY <1>1, <1>3, <1>8, <2>2, <2>3, DropsOut DEF r
<1>9. CASE Tell(w, Head(r.out), b)
  <2> HIDE DEF out
  <2>1. b \in Worker
    BY <1>1, <1>4, <1>5, <1>6, ZenonT(60) DEF Worker
  <2>2. /\ b.snap = r.snap /\ b.out = out /\ b.flush = r.flush /\ b.flushed = r.flushed /\ b.got = r.got
        /\ b.pc = pc /\ b.rv = rv
    BY <1>1 DEF Worker
  <2>3. Works(b) /\ Alive(b)
    BY <1>1, <1>4, <1>5, <1>7, <2>1, <2>2 DEF Works, Alive
  <2>4. Carries(Head(r.out), r, b)
    BY <1>1, <2>2, HeadCarries DEF out
  <2> HIDE DEF b
  <2>5. QED  BY <1>3, <1>4, <1>9, <2>3, <2>4, TellStep DEF r
<1>10. QED  BY <1>2, <1>8, <1>9

-----------------------------------------------------------------------------
(* The worker watches *)

LEMMA ConnectStep == ASSUME WatchInv, NEW w \in Workers, Connect(w) PROVE WatchInv'
<1> DEFINE r == worker[w]
           a == [r EXCEPT !.pc = "stream", !.connected = TRUE]
           B(p) == [r EXCEPT !.pc = p]
<1>1. r \in Worker /\ r.pc = "connect"
  BY WorkerIs DEF Connect, At
<1>2. Move(w, a) \/ \E p \in {"expired", "forbidden", "finish"} : Move(w, B(p))
  BY DEF Connect, Goto
<1>3. CellInv' /\ subs' = subs /\ cluster' = cluster /\ UNCHANGED managerVars
  BY CellMoves DEF Connect
<1> HIDE DEF r
<1>4. Goes(r, a)
  <2>1. a \in Worker
    BY <1>1, ZenonT(60) DEF Worker
  <2>2. QED  BY <1>1, <2>1 DEF Worker, Same, Goes
<1>5. \A p \in {"expired", "forbidden", "finish"} : Goes(r, B(p))
  <2>1. SUFFICES ASSUME NEW p \in {"expired", "forbidden", "finish"} PROVE Goes(r, B(p))
    OBVIOUS
  <2>2. B(p) \in Worker
    BY <1>1, ZenonT(60) DEF Worker
  <2>3. QED  BY <1>1, <2>2 DEF Worker, Same, Goes
<1> HIDE DEF a, B
<1>6. QED  BY <1>2, <1>3, <1>4, <1>5, GoesStep, ManagerSame DEF r

LEMMA StreamEndsStep == ASSUME WatchInv, NEW w \in Workers, StreamEnds(w) PROVE WatchInv'
<1> DEFINE r == worker[w]
           P == {"finish", "connect", "expired", "forbidden", "fail"}
           B(p) == [r EXCEPT !.pc = p, !.connected = FALSE]
<1>1. r \in Worker /\ r.pc = "stream"
  BY WorkerIs DEF StreamEnds, At
<1>2. PICK p \in P : Disconnected(w, p)
  BY DEF StreamEnds
<1>3. /\ Move(w, B(p)) /\ (held' = held \/ held' = MarkedStale(w)) /\ begun' = begun /\ dead' = dead
      /\ subs' = subs /\ cluster' = cluster /\ UNCHANGED managerVars
  BY <1>2 DEF StreamEnds, Disconnected, Goto
<1>4. begun' \in Nat /\ dead' \in BOOLEAN
  BY <1>3 DEF WatchInv, CellInv, CellTypeOK
<1>5. CellInv'
  BY <1>3, <1>4, CellKeeps
<1> HIDE DEF r
<1>6. Goes(r, B(p))
  <2>1. B(p) \in Worker
    BY <1>1, ZenonT(60) DEF Worker
  <2>2. QED  BY <1>1, <2>1 DEF Worker, Same, Goes
<1> HIDE DEF B
<1>7. QED  BY <1>3, <1>5, <1>6, GoesStep, ManagerSame DEF r

LEMMA ForgetsStep ==
    ASSUME WatchInv, NEW w \in Workers, RelistExpired(w) \/ Denied(w) \/ Fail(w) PROVE WatchInv'
<1> DEFINE r == worker[w]
           B(p) == [r EXCEPT !.pc = p]
<1>1. r \in Worker /\ r.pc \in {"expired", "forbidden", "fail"}
  BY WorkerIs DEF RelistExpired, Denied, Fail, At
<1>2. \/ Tell(w, Signal("refreshed"), B("list")) \/ Tell(w, Signal("error"), B("finish"))
      \/ Move(w, B("fail")) /\ subs' = subs
  BY DEF RelistExpired, Denied, Fail, Goto
<1>3. CellInv' /\ cluster' = cluster /\ UNCHANGED managerVars
  BY CellMoves DEF RelistExpired, Denied, Fail
<1> HIDE DEF r
<1>4. \A p \in {"list", "finish", "fail"} : Goes(r, B(p))
  <2>1. SUFFICES ASSUME NEW p \in {"list", "finish", "fail"} PROVE Goes(r, B(p))
    OBVIOUS
  <2>2. B(p) \in Worker
    BY <1>1, ZenonT(60) DEF Worker
  <2>3. QED  BY <1>1, <2>2 DEF Worker, Same, Goes
<1> HIDE DEF B
<1>5. QED  BY <1>2, <1>3, <1>4, GoesStep, GoesTelling, ManagerSame DEF r

\* A watching worker stands at the version of its snapshot.
LEMMA StreamIs ==
    ASSUME WatchInv, NEW w \in Workers, At(w, "stream"), worker[w].rv < Len(cluster)
    PROVE  /\ worker[w] \in Worker /\ Works(worker[w]) /\ worker[w].out = <<>>
           /\ worker[w].snap \in Snapshot /\ worker[w].snap # None /\ Ready(w)
           /\ worker[w].rv = worker[w].snap.rv
           /\ worker[w].rv \in 1..(Len(cluster) - 1) /\ worker[w].rv + 1 \in 1..Len(cluster)
           /\ worker[w].rv + 1 \in 1..MaxRV
           /\ cluster[worker[w].rv] = worker[w].snap.items
           /\ cluster[worker[w].rv] \in Items /\ cluster[worker[w].rv + 1] \in Items
<1>1. worker[w] \in Worker /\ Works(worker[w])
  BY WorkerIs
<1>2. /\ worker[w].out = <<>> /\ worker[w].snap \in Snapshot /\ worker[w].snap # None
      /\ worker[w].rv = worker[w].snap.rv /\ Genuine(worker[w].snap) /\ Ready(w)
  BY <1>1 DEF Works, Worker, At, Ready
<1>3. cluster \in Seq(Items) /\ Len(cluster) \in 1..MaxRV /\ MaxRV \in Nat
  BY WatchAssumption DEF WatchInv, ClusterInv
<1>4. worker[w].rv \in 1..Len(cluster) /\ cluster[worker[w].rv] = worker[w].snap.items
  BY <1>2 DEF Genuine
<1>5. /\ worker[w].rv \in 1..(Len(cluster) - 1) /\ worker[w].rv + 1 \in 1..Len(cluster)
      /\ worker[w].rv + 1 \in 1..MaxRV
  BY <1>3, <1>4
<1>6. cluster[worker[w].rv] \in Items /\ cluster[worker[w].rv + 1] \in Items
  BY <1>3, <1>4, <1>5
<1>7. QED  BY <1>1, <1>2, <1>4, <1>5, <1>6

LEMMA BookmarkStep == ASSUME WatchInv, NEW w \in Workers, Bookmark(w) PROVE WatchInv'
<1> DEFINE r == worker[w]
           v == r.rv + 1
           snap == [rv |-> v, items |-> r.snap.items]
           n == [r EXCEPT !.rv = v, !.snap = snap]
<1>1. /\ r \in Worker /\ Works(r) /\ r.out = <<>> /\ r.snap \in Snapshot /\ r.snap # None /\ Ready(w)
      /\ v \in 1..Len(cluster) /\ v \in 1..MaxRV /\ cluster[r.rv] = r.snap.items /\ r.pc = "stream"
  BY StreamIs DEF Bookmark, At
<1>2. cluster[v] = r.snap.items
  BY <1>1 DEF Bookmark
<1>3. snap = [r.snap EXCEPT !.rv = v] /\ snap \in Snapshot /\ snap # None
  BY <1>1, WatchAssumption DEF Snapshot
<1>4. Move(w, n)
  BY <1>1, <1>3 DEF Bookmark
<1>5. CellInv' /\ subs' = subs /\ cluster' = cluster /\ UNCHANGED managerVars
  BY CellMoves DEF Bookmark
<1>6. snap.rv = v /\ snap.items = r.snap.items
  OBVIOUS
<1>7. v \in 0..MaxRV
  BY <1>1
<1> HIDE DEF r, v, snap
<1>8. n \in Worker
  BY <1>1, <1>3, <1>7, ZenonT(60) DEF Worker
<1>9. /\ n.snap = snap /\ n.out = r.out /\ n.flush = r.flush /\ n.flushed = r.flushed /\ n.got = r.got
      /\ n.pc = r.pc /\ n.rv = v
  BY <1>1 DEF Worker
<1>10. Genuine(snap)
  BY <1>1, <1>2, <1>6 DEF Genuine
<1>11. Works(n) /\ Alive(n)
  BY <1>1, <1>3, <1>6, <1>8, <1>9, <1>10 DEF Works, Alive
<1>12. \A s \in Readers : subs[s].of = w => Follows(subs[s], n)
  <2>1. \A x : Follows(x, r) => Follows(x, n)
    BY <1>1, <1>3, <1>6, <1>9 DEF Follows
  <2>2. QED  BY <2>1, FollowsIs DEF r
<1> HIDE DEF n
<1>13. QED  BY <1>4, <1>5, <1>11, <1>12, MoveStep, ManagerSame DEF r

\* The next event tells what the next version changes.
LEMMA NextDeltaIs ==
    ASSUME WatchInv, NEW w \in Workers, HasDelta(w)
    PROVE  /\ NextDelta(w) \in StreamEvent
           /\ NextDelta(w).rv = worker[w].rv + 1 /\ NextDelta(w).kind = "delta"
           /\ NextDelta(w).object \in Objects
           /\ NextDelta(w).version = cluster[worker[w].rv + 1][NextDelta(w).object]
           /\ Apply(worker[w].snap.items, NextDelta(w)) = cluster[worker[w].rv + 1]
<1> DEFINE r == worker[w]
           o == CHOOSE o \in Changed(w) : TRUE
           e == NextDelta(w)
           old == cluster[r.rv]
           new == cluster[r.rv + 1]
<1>1. /\ r.snap.items = old /\ old \in Items /\ new \in Items /\ r.rv + 1 \in 1..MaxRV
      /\ r.rv \in 1..(Len(cluster) - 1)
  BY StreamIs DEF HasDelta
<1>2. o \in Changed(w)
  BY DEF HasDelta
<1>3. o \in Objects /\ new[o] # old[o]
  BY <1>2 DEF Changed
<1>4. e = [kind |-> "delta", object |-> o, version |-> new[o], rv |-> r.rv + 1]
  BY DEF NextDelta, Delta
<1>5. \A p \in Objects : new[p] # old[p] => p = o
  BY <1>1, <1>3 DEF WatchInv, ClusterInv
<1> HIDE DEF o, e, old, new, r
<1>6. e.kind = "delta" /\ e.object = o /\ e.version = new[o] /\ e.rv = r.rv + 1
  BY <1>4
<1>7. new[o] \in 0..MaxRV
  BY <1>1, <1>3 DEF Items
<1>8. e \in StreamEvent
  BY <1>1, <1>3, <1>4, <1>7 DEF StreamEvent
<1>9. Apply(old, e) = new
  <2>1. Apply(old, e) = [old EXCEPT ![o] = new[o]]
    BY <1>6 DEF Apply
  <2>2. QED  BY <1>1, <1>3, <1>5, <2>1 DEF Items
<1>10. QED  BY <1>1, <1>3, <1>6, <1>8, <1>9 DEF e, new, old, r

LEMMA ReceiveDeltaStep == ASSUME WatchInv, NEW w \in Workers, ReceiveDelta(w) PROVE WatchInv'
<1> DEFINE r == worker[w]
           e == NextDelta(w)
           v == r.rv + 1
           new == cluster[v]
           snap == [rv |-> v, items |-> new]
           a == [r EXCEPT !.pc = "finish", !.connected = FALSE, !.rv = v]
           b == [r EXCEPT !.pc = "notify", !.rv = v, !.out = <<e>>, !.snap = snap]
<1>0. HasDelta(w) /\ r.pc = "stream"
  BY DEF ReceiveDelta, HasDelta, At
<1>1. /\ r \in Worker /\ Works(r) /\ r.out = <<>> /\ r.snap \in Snapshot /\ r.snap # None
      /\ v \in 1..Len(cluster) /\ v \in 1..MaxRV /\ v \in 0..MaxRV /\ new \in Items
      /\ cluster[r.rv] = r.snap.items
  BY <1>0, StreamIs DEF HasDelta
<1>2. /\ e \in StreamEvent /\ e.rv = v /\ e.kind = "delta" /\ e.object \in Objects
      /\ e.version = new[e.object] /\ Apply(r.snap.items, e) = new
  BY <1>0, NextDeltaIs
<1>3. Move(w, a) \/ Move(w, b)
  BY <1>2 DEF ReceiveDelta, Goto
<1>4. CellInv' /\ subs' = subs /\ cluster' = cluster /\ UNCHANGED managerVars
  BY CellMoves DEF ReceiveDelta
<1>5. \A o \in Objects : Decides(e, o) <=> o = e.object
  BY <1>2 DEF Decides
<1>6. \A o \in Objects : new[o] = IF Decides(e, o) THEN Word(e, o) ELSE r.snap.items[o]
  <2>1. new = [r.snap.items EXCEPT ![e.object] = e.version]
    BY <1>2 DEF Apply
  <2>2. r.snap.items \in Items
    BY <1>1 DEF Snapshot
  <2> HIDE DEF e, r, new
  <2>3. QED  BY <1>2, <1>5, <2>1, <2>2 DEF Word, Items
<1>7. snap \in Snapshot /\ snap # None /\ snap.rv = v /\ snap.items = new
  BY <1>1, WatchAssumption DEF Snapshot
<1>8. Genuine(snap)
  BY <1>1, <1>7 DEF Genuine
<1>9. <<e>> \in Seq(StreamEvent) /\ Len(<<e>>) = 1 /\ <<e>> # <<>>
  BY <1>2
<1> HIDE DEF r, e, v, new, snap
<1>10. CASE Move(w, a)
  <2>1. a \in Worker
    BY <1>1, ZenonT(60) DEF Worker
  <2>2. Goes(r, a)
    BY <1>0, <1>1, <2>1 DEF Worker, Same, Goes
  <2> HIDE DEF a
  <2>3. QED  BY <1>4, <1>10, <2>2, GoesStep, ManagerSame DEF r
<1>11. CASE Move(w, b)
  <2>1. b \in Worker
    BY <1>1, <1>7, <1>9, ZenonT(60) DEF Worker
  <2>2. /\ b.snap = snap /\ b.out = <<e>> /\ b.flush = r.flush /\ b.flushed = r.flushed /\ b.got = r.got
        /\ b.pc = "notify" /\ b.rv = v
    BY <1>1 DEF Worker
  <2>3. ASSUME NEW o \in Objects, NEW was, Decides(e, o) \/ was = r.snap.items[o]
        PROVE  Says(was, <<e>>, o, new[o])
    BY <1>6, <2>3, SaysOne
  <2>4. \A o \in Objects : Says(new[o], <<e>>, o, new[o])
    BY <1>6, <2>3
  <2>5. Works(b) /\ Alive(b)
    BY <1>1, <1>7, <1>8, <1>9, <2>1, <2>2, <2>4 DEF Works, Alive
  <2>6. \A s \in Readers : subs[s].of = w => Follows(subs[s], b)
    <3>1. SUFFICES ASSUME NEW s \in Readers, subs[s].of = w, NEW o \in Objects
                   PROVE  \E seen \in 0..MaxRV : /\ Says(subs[s].view[o], subs[s].queue, o, seen)
                                                 /\ Says(seen, b.out, o, b.snap.items[o])
      BY DEF Follows
    <3>2. PICK seen \in 0..MaxRV : /\ Says(subs[s].view[o], subs[s].queue, o, seen)
                                   /\ Says(seen, r.out, o, r.snap.items[o])
      BY <1>1, <3>1, FollowsIs DEF Follows, r
    <3>3. seen = r.snap.items[o]
      BY <1>1, <3>2, SaysNothingNew
    <3>4. QED  BY <1>7, <2>2, <2>3, <3>2, <3>3
  <2> HIDE DEF b
  <2>7. QED  BY <1>4, <1>11, <2>5, <2>6, MoveStep, ManagerSame DEF r
<1>12. QED  BY <1>3, <1>10, <1>11

LEMMA DeltaTooLargeStep == ASSUME WatchInv, NEW w \in Workers, DeltaTooLarge(w) PROVE WatchInv'
<1> DEFINE r == worker[w]
           n == [r EXCEPT !.pc = "finish", !.connected = FALSE]
<1>1. r \in Worker /\ r.pc = "stream"
  BY WorkerIs DEF DeltaTooLarge, HasDelta, At
<1>2. /\ Tell(w, Signal("reset"), n) /\ (held' = held \/ held' = MarkedStale(w)) /\ begun' = begun
      /\ dead' = dead /\ cluster' = cluster /\ UNCHANGED managerVars
  BY DEF DeltaTooLarge, Goto
<1>3. begun' \in Nat /\ dead' \in BOOLEAN
  BY <1>2 DEF WatchInv, CellInv, CellTypeOK
<1>4. CellInv'
  BY <1>2, <1>3, CellKeeps
<1> HIDE DEF r
<1>5. Goes(r, n)
  <2>1. n \in Worker
    BY <1>1, ZenonT(60) DEF Worker
  <2>2. QED  BY <1>1, <2>1 DEF Worker, Same, Goes
<1> HIDE DEF n
<1>6. QED  BY <1>2, <1>4, <1>5, GoesTelling DEF r

LEMMA SnapshotOutgrownStep == ASSUME WatchInv, NEW w \in Workers, SnapshotOutgrown(w) PROVE WatchInv'
<1> DEFINE r == worker[w]
           v == r.rv + 1
           n == [r EXCEPT !.pc = "finish", !.connected = FALSE, !.snap = None, !.stopping = TRUE, !.rv = v]
<1>1. /\ r \in Worker /\ Works(r) /\ r.pc = "stream" /\ r.out = <<>> /\ v \in 0..MaxRV
  BY StreamIs DEF SnapshotOutgrown, HasDelta, At
<1>2. Tell(w, Signal("reset"), n) /\ CellInv' /\ cluster' = cluster /\ UNCHANGED managerVars
  BY CellMoves DEF SnapshotOutgrown, Goto
<1> HIDE DEF r, v
<1>3. n \in Worker
  BY <1>1, ZenonT(60) DEF Worker
<1>4. /\ n.snap = None /\ n.out = r.out /\ n.flush = r.flush /\ n.flushed = r.flushed /\ n.got = r.got
      /\ n.pc = "finish"
  BY <1>1 DEF Worker
<1>5. Works(n) /\ Alive(n)
  BY <1>1, <1>3, <1>4 DEF Works, Alive, Genuine
<1>6. Carries(Signal("reset"), r, n) /\ Signal("reset") \in StreamEvent
  BY <1>4, SignalCarries, SignalTyped
<1> HIDE DEF n
<1>7. QED  BY <1>2, <1>5, <1>6, TellStep DEF r

LEMMA NotifyStep == ASSUME WatchInv, NEW w \in Workers, Notify(w) PROVE WatchInv'
<1> DEFINE r == worker[w]
           a == [r EXCEPT !.pc = "finish", !.connected = FALSE, !.out = <<>>]
           b == [r EXCEPT !.pc = "stream", !.out = <<>>]
<1>1. /\ r \in Worker /\ Works(r) /\ r.pc = "notify" /\ r.out \in Seq(StreamEvent) /\ Len(r.out) = 1
      /\ r.snap # None /\ r.rv = r.snap.rv
  BY WorkerIs DEF Notify, At, Works, Worker
<1>2. (Refused(w) /\ Move(w, a) /\ subs' = subs) \/ Tell(w, Head(r.out), b)
  BY DEF Notify, Goto
<1>3. /\ held' = MarkedStale(w) /\ begun' = begun /\ dead' = dead /\ cluster' = cluster
      /\ UNCHANGED managerVars
  BY DEF Notify
<1>4. begun' \in Nat /\ dead' \in BOOLEAN
  BY <1>3 DEF WatchInv, CellInv, CellTypeOK
<1>5. CellInv'
  BY <1>3, <1>4, CellKeeps
<1>6. /\ r.out # <<>> /\ Head(r.out) \in StreamEvent /\ Tail(r.out) = <<>>
  <2> DEFINE q == r.out
  <2>1. q \in Seq(StreamEvent) /\ Len(q) = 1
    BY <1>1
  <2> HIDE DEF q
  <2>2. q # <<>> /\ Head(q) \in StreamEvent /\ Tail(q) \in Seq(StreamEvent) /\ Len(Tail(q)) = 0
    BY <2>1
  <2> DEFINE t == Tail(q)
  <2>3. t \in Seq(StreamEvent) /\ Len(t) = 0
    BY <2>2
  <2> HIDE DEF t
  <2>4. t = <<>>
    BY <2>3, EmptySeq
  <2>5. QED  BY <2>2, <2>4 DEF q, t
<1>7. <<>> \in Seq(StreamEvent)
  OBVIOUS
<1> HIDE DEF r
<1>8. CASE Refused(w) /\ Move(w, a) /\ subs' = subs
  <2>1. a \in Worker
    BY <1>1, <1>7, ZenonT(60) DEF Worker
  <2>2. /\ a.snap = r.snap /\ a.out = <<>> /\ a.flush = r.flush /\ a.flushed = r.flushed /\ a.got = r.got
        /\ a.pc = "finish"
    BY <1>1 DEF Worker
  <2> HIDE DEF a
  <2>3. QED  BY <1>1, <1>3, <1>5, <1>8, <2>1, <2>2, DropsOut DEF r
<1>9. CASE Tell(w, Head(r.out), b)
  <2>1. b \in Worker
    BY <1>1, <1>7, ZenonT(60) DEF Worker
  <2>2. /\ b.snap = r.snap /\ b.out = <<>> /\ b.flush = r.flush /\ b.flushed = r.flushed /\ b.got = r.got
        /\ b.pc = "stream" /\ b.rv = r.rv
    BY <1>1 DEF Worker
  <2>3. Works(b) /\ Alive(b)
    BY <1>1, <2>1, <2>2, SaysNothing DEF Works, Alive
  <2>4. Carries(Head(r.out), r, b)
    BY <1>1, <1>6, <2>2, HeadCarries
  <2> HIDE DEF b
  <2>5. QED  BY <1>3, <1>5, <1>6, <1>9, <2>3, <2>4, TellStep DEF r
<1>10. QED  BY <1>2, <1>8, <1>9

LEMMA NewWorkerTyped ==
    ASSUME NEW snap \in Snapshot \cup {None}, NEW fresh \in BOOLEAN
    PROVE  LET n == NewWorker(snap, fresh) IN
           /\ n \in Worker /\ n.snap = snap /\ n.got = None /\ n.out = <<>> /\ n.flush = "no"
           /\ n.flushed = None /\ n.rv = (IF snap = None THEN 0 ELSE snap.rv)
           /\ n.pc = "connect" => snap # None
           /\ n.pc \in {"list", "initial", "connect"}
<1> DEFINE n == NewWorker(snap, fresh)
           pc == IF snap = None THEN (IF unsupported THEN "list" ELSE "initial")
                 ELSE IF fresh THEN "connect" ELSE "list"
           rv == IF snap = None THEN 0 ELSE snap.rv
<1>1. /\ pc \in {"list", "initial", "connect"} /\ (pc = "connect" => snap # None) /\ rv \in 0..MaxRV
      /\ <<>> \in Seq(StreamEvent) /\ 0 \in Nat
  BY WatchAssumption DEF Snapshot
<1>2. n = [pc |-> pc, way |-> "list", previewed |-> FALSE, rv |-> rv, snap |-> snap, got |-> None,
           connected |-> FALSE, fresh |-> fresh, stopping |-> FALSE, cancelled |-> FALSE,
           cached |-> TRUE, token |-> 0, out |-> <<>>,
           timer |-> FALSE, fired |-> FALSE, ending |-> FALSE, refused |-> FALSE,
           flush |-> "no", evicted |-> FALSE, flushed |-> None, flushToken |-> 0,
           flushConnected |-> FALSE]
  BY Zenon DEF NewWorker
<1> HIDE DEF n, pc, rv
<1>3. n \in Worker
  BY <1>1, <1>2, ZenonT(60) DEF Worker
<1>4. /\ n.snap = snap /\ n.got = None /\ n.out = <<>> /\ n.flush = "no" /\ n.flushed = None
      /\ n.rv = rv /\ n.pc = pc
  BY <1>2
<1>5. QED  BY <1>1, <1>3, <1>4 DEF n, rv

\* A worker that has ended keeps a snapshot only for a flush that has begun.
LEMMA EndedWorks ==
    ASSUME NEW r, Works(r)
    PROVE  Works(Ended(r)) /\ Ended(r).pc = "done"
<1> DEFINE n == Ended(r)
           snap == IF r.flush = "copy" THEN r.snap ELSE None
<1>1. r \in Worker
  BY DEF Works
<1>2. /\ r.fired \in BOOLEAN /\ r.ending \in BOOLEAN /\ r.evicted \in BOOLEAN /\ r.flushConnected \in BOOLEAN
      /\ r.flush \in {"no", "copy", "begin", "commit"} /\ r.flushed \in Snapshot \cup {None} /\ r.flushToken \in Nat
      /\ snap \in Snapshot \cup {None}
  BY <1>1 DEF Worker
<1>3. <<>> \in Seq(StreamEvent) /\ 0 \in 0..MaxRV /\ 0 \in Nat
  BY WatchAssumption
<1> DEFINE base == NewWorker(None, FALSE)
<1>4. base \in Worker /\ base.got = None /\ base.out = <<>>
  BY NewWorkerTyped
<1> HIDE DEF base
<1> DEFINE d == [base EXCEPT !.pc = "done", !.stopping = TRUE]
           a == [d EXCEPT !.cancelled = TRUE, !.cached = FALSE]
           b == [a EXCEPT !.snap = snap, !.fired = r.fired, !.ending = r.ending, !.flush = r.flush]
           c == [b EXCEPT !.evicted = r.evicted, !.flushed = r.flushed, !.flushToken = r.flushToken,
                          !.flushConnected = r.flushConnected]
<1>5. n = [base EXCEPT
            !.pc = "done", !.stopping = TRUE, !.cancelled = TRUE, !.cached = FALSE, !.snap = snap,
            !.fired = r.fired, !.ending = r.ending, !.flush = r.flush, !.evicted = r.evicted,
            !.flushed = r.flushed, !.flushToken = r.flushToken, !.flushConnected = r.flushConnected]
  BY DEF Ended, base
<1>6. n = c
  BY <1>5, Zenon
<1> HIDE DEF snap, n
<1>7. a \in Worker
  <2>1. d \in Worker
    BY <1>4, ZenonT(60) DEF Worker
  <2> HIDE DEF d
  <2>2. QED  BY <2>1, ZenonT(60) DEF Worker
<1>8. b \in Worker
  <2> HIDE DEF a
  <2>1. QED  BY <1>2, <1>7, ZenonT(60) DEF Worker
<1>9. n \in Worker
  <2> HIDE DEF b
  <2>1. QED  BY <1>2, <1>6, <1>8, ZenonT(60) DEF Worker
<1>10. n.pc = "done" /\ n.snap = snap /\ n.got = None /\ n.flushed = r.flushed /\ n.flush = r.flush /\ n.out = <<>>
  BY <1>4, <1>5 DEF Worker
<1>11. Genuine(snap) /\ Genuine(None)
  BY DEF Works, Genuine, snap
<1>12. Works(n)
  BY <1>9, <1>10, <1>11, SaysNothing DEF Works
<1>13. QED  BY <1>10, <1>12 DEF n

LEMMA FinishStep == ASSUME WatchInv, NEW w \in Workers, Finish(w) PROVE WatchInv'
<1> DEFINE n == Ended(worker[w])
<1>1. Works(n) /\ n \in Worker /\ worker \in [Workers -> Worker]
  BY WorkerIs, EndedWorks DEF Works, WatchInv, WorkersInv
<1>2. worker' = [worker EXCEPT ![w] = n] /\ cluster' = cluster /\ CellInv'
  BY CellMoves DEF Finish, Move
<1> HIDE DEF n
<1>3. worker' \in [Workers -> Worker] /\ \A v \in Workers : worker'[v] = IF v = w THEN n ELSE worker[v]
  BY <1>1, <1>2
<1>4. \A v \in Workers : Works(worker'[v])
  BY <1>1, <1>3 DEF WatchInv, WorkersInv
<1>5. WorkersInv'
  BY <1>2, <1>3, <1>4 DEF WorkersInv, Works, Genuine
<1>6. /\ \A s \in Readers : subs'[s] = IF subs[s].of = w THEN Closed(subs[s]) ELSE subs[s]
      /\ subs' = [s \in Readers |-> subs'[s]]
  BY DEF Finish
<1>7. ASSUME NEW s \in Readers
      PROVE  /\ subs'[s] \in Reader /\ Reads(subs'[s])
             /\ subs'[s].of # None => Alive(worker'[subs'[s].of]) /\ Follows(subs'[s], worker'[subs'[s].of])
  <2>1. /\ Reads(subs[s]) /\ subs[s].of \in Workers \cup {None}
        /\ subs[s].of # None => Alive(worker[subs[s].of]) /\ Follows(subs[s], worker[subs[s].of])
    BY DEF WatchInv, ReadersInv, Reads, Reader
  <2>2. CASE subs[s].of = w
    BY <1>6, <2>1, <2>2, ClosedReads, WatchAssumption DEF Reads
  <2>3. CASE subs[s].of # w
    BY <1>3, <1>6, <2>1, <2>3 DEF Reads
  <2>4. QED  BY <2>2, <2>3
<1>8. ReadersInv'
  <2>1. subs' \in [Readers -> Reader]
    BY <1>6, <1>7
  <2>2. QED  BY <1>7, <2>1 DEF ReadersInv
<1>9. ManagerInv'
  <2>1. current' = IF current = w THEN None ELSE current
    BY DEF Finish
  <2>2. closed' = closed /\ unsupported' = unsupported
    BY DEF Finish
  <2>3. current' # None => current' \in Workers /\ current' # w /\ current' = current
    BY <2>1 DEF WatchInv, ManagerInv
  <2>4. QED  BY <1>3, <2>1, <2>2, <2>3 DEF WatchInv, ManagerInv
<1>10. ClusterInv'
  BY <1>2 DEF WatchInv, ClusterInv
<1>11. QED  BY <1>2, <1>5, <1>8, <1>9, <1>10 DEF WatchInv

-----------------------------------------------------------------------------
(* Idle workers, flushes and the end *)

\* A callback changes the worker beside its run.
Beside(r, n) ==
    /\ n \in Worker /\ Same(r, n) /\ n.pc = r.pc /\ n.rv = r.rv /\ n.got = r.got
    /\ Genuine(n.flushed) /\ (n.flush \in {"begin", "commit"} => n.flushed # None)

LEMMA BesideWorks ==
    ASSUME WatchInv, NEW w \in Workers, NEW n, Beside(worker[w], n)
    PROVE  Works(n) /\ (Alive(worker[w]) => Alive(n)) /\ Same(worker[w], n)
<1>1. Works(worker[w])
  BY WorkerIs
<1>2. QED  BY <1>1 DEF Works, Beside, Same, Alive

LEMMA BesideStep ==
    ASSUME WatchInv, NEW w \in Workers, NEW n, Beside(worker[w], n), Move(w, n),
           subs' = subs, cluster' = cluster, CellInv',
           current' \in {current, None}, closed' \in BOOLEAN, unsupported' \in BOOLEAN
    PROVE  WatchInv'
  BY BesideWorks, QuietStep

LEMMA StillStep ==
    ASSUME WatchInv, worker' = worker, subs' = subs, cluster' = cluster, CellInv',
           current' \in {current, None}, closed' \in BOOLEAN, unsupported' \in BOOLEAN
    PROVE  WatchInv'
<1>1. ClusterInv' /\ WorkersInv' /\ ReadersInv'
  BY DEF WatchInv, ClusterInv, WorkersInv, ReadersInv, Works, Genuine
<1>2. ManagerInv'
  BY DEF WatchInv, ManagerInv
<1>3. QED  BY <1>1, <1>2 DEF WatchInv

LEMMA TimerFiresStep == ASSUME WatchInv, NEW w \in Workers, TimerFires(w) PROVE WatchInv'
<1> DEFINE r == worker[w]
           n == [r EXCEPT !.fired = TRUE]
<1>1. r \in Worker /\ Works(r)
  BY WorkerIs
<1>2. Move(w, n) /\ CellInv' /\ subs' = subs /\ cluster' = cluster /\ UNCHANGED managerVars
  BY CellMoves DEF TimerFires
<1> HIDE DEF r
<1>3. n \in Worker
  BY <1>1, ZenonT(60) DEF Worker
<1>4. Beside(r, n)
  BY <1>1, <1>3 DEF Worker, Same, Beside, Works
<1> HIDE DEF n
<1>5. QED  BY <1>2, <1>4, BesideStep, ManagerSame DEF r

LEMMA StopIfIdleStep == ASSUME WatchInv, NEW w \in Workers, StopIfIdle(w) PROVE WatchInv'
<1> DEFINE r == worker[w]
           a == [r EXCEPT !.fired = FALSE, !.timer = FALSE]
           b == [r EXCEPT !.fired = FALSE, !.timer = FALSE, !.stopping = TRUE, !.cancelled = TRUE]
<1>1. r \in Worker /\ Works(r)
  BY WorkerIs
<1>2. subs' = subs /\ cluster' = cluster /\ closed' = closed /\ unsupported' = unsupported
  BY DEF StopIfIdle
<1>3. closed' \in BOOLEAN /\ unsupported' \in BOOLEAN
  BY <1>2 DEF WatchInv, ManagerInv
<1>4. /\ a.snap = r.snap /\ a.connected = r.connected
  BY <1>1 DEF Worker
<1>5. \/ Move(w, a) /\ UNCHANGED cellVars /\ current' = current
      \/ /\ Move(w, b) /\ current' = None /\ begun' \in {begun, begun + 1} /\ dead' = dead
         /\ \/ Ready(w) /\ held' = [data |-> r.snap, fresh |-> r.connected, issue |-> begun + 1]
            \/ held' = held \/ held' = MarkedStale(w)
  BY <1>4 DEF StopIfIdle
<1>6. CellInv'
  <2>1. begun \in Nat /\ dead \in BOOLEAN
    BY DEF WatchInv, CellInv, CellTypeOK
  <2>2. CASE UNCHANGED cellVars
    BY <1>2, <2>2, CellMoves
  <2>3. CASE /\ begun' \in {begun, begun + 1} /\ dead' = dead
             /\ Ready(w) /\ held' = [data |-> r.snap, fresh |-> r.connected, issue |-> begun + 1]
    <3>1. r.snap \in Snapshot /\ Genuine(r.snap) /\ r.connected \in BOOLEAN
      BY <1>1, <2>3 DEF Ready, Works, Worker
    <3>2. begun' \in Nat /\ begun + 1 \in Nat
      BY <2>1, <2>3
    <3>3. dead' \in BOOLEAN
      BY <2>1, <2>3
    <3>4. QED  BY <1>2, <2>3, <3>1, <3>2, <3>3, CellKeeps
  <2>4. CASE /\ begun' \in {begun, begun + 1} /\ dead' = dead
             /\ held' = held \/ held' = MarkedStale(w)
    <3>1. begun' \in Nat
      BY <2>1, <2>4
    <3>2. dead' \in BOOLEAN
      BY <2>1, <2>4
    <3>3. QED  BY <1>2, <2>4, <3>1, <3>2, CellKeeps
  <2>5. QED  BY <1>5, <2>2, <2>3, <2>4
<1> HIDE DEF r
<1>7. a \in Worker
  BY <1>1, ZenonT(60) DEF Worker
<1>8. b \in Worker
  BY <1>1, ZenonT(60) DEF Worker
<1>9. Beside(r, a)
  BY <1>1, <1>7 DEF Worker, Same, Beside, Works
<1>10. Beside(r, b)
  BY <1>1, <1>8 DEF Worker, Same, Beside, Works
<1> HIDE DEF a, b
<1>11. QED  BY <1>2, <1>3, <1>5, <1>6, <1>9, <1>10, BesideStep DEF r

LEMMA EvictIdleStep == ASSUME WatchInv, NEW w \in Workers, EvictIdle(w) PROVE WatchInv'
<1> DEFINE r == worker[w]
           n == [r EXCEPT !.stopping = TRUE, !.timer = FALSE, !.flush = "copy", !.evicted = TRUE]
<1>1. r \in Worker /\ Works(r)
  BY WorkerIs
<1>2. /\ Move(w, n) /\ CellInv' /\ subs' = subs /\ cluster' = cluster /\ current' = None
      /\ closed' = closed /\ unsupported' = unsupported
  BY CellMoves DEF EvictIdle
<1>3. closed' \in BOOLEAN /\ unsupported' \in BOOLEAN
  BY <1>2 DEF WatchInv, ManagerInv
<1> HIDE DEF r
<1>4. n \in Worker
  BY <1>1, ZenonT(60) DEF Worker
<1>5. Beside(r, n)
  BY <1>1, <1>4 DEF Worker, Same, Beside, Works
<1> HIDE DEF n
<1>6. QED  BY <1>2, <1>3, <1>5, BesideStep DEF r

LEMMA FlushDoneIs ==
    ASSUME NEW r, Works(r)
    PROVE  Beside(r, FlushDone(r))
<1> DEFINE cached == IF r.evicted THEN FALSE ELSE r.cached
           n == [r EXCEPT !.flush = "no", !.flushed = None, !.flushToken = 0, !.flushConnected = FALSE,
                          !.cancelled = TRUE, !.cached = cached]
<1>1. r \in Worker
  BY DEF Works
<1>2. FlushDone(r) = n
  BY DEF FlushDone
<1>3. cached \in BOOLEAN /\ 0 \in Nat
  BY <1>1 DEF Worker
<1> HIDE DEF cached
<1>4. n \in Worker
  BY <1>1, <1>3, ZenonT(60) DEF Worker
<1>5. Beside(r, n)
  BY <1>1, <1>4 DEF Worker, Same, Beside, Genuine
<1>6. QED  BY <1>2, <1>5

LEMMA FlushCopyStep == ASSUME WatchInv, NEW w \in Workers, FlushCopy(w) PROVE WatchInv'
<1> DEFINE r == worker[w]
           b == FlushDone(r)
           a == [r EXCEPT !.flush = "begin", !.flushed = r.snap, !.flushConnected = r.connected]
<1>1. r \in Worker /\ Works(r) /\ Beside(r, b)
  BY WorkerIs, FlushDoneIs
<1>2. (r.snap # None /\ Move(w, a)) \/ Move(w, b)
  BY DEF FlushCopy, Ready
<1>3. CellInv' /\ subs' = subs /\ cluster' = cluster /\ UNCHANGED managerVars
  BY CellMoves DEF FlushCopy
<1>4. r.snap \in Snapshot \cup {None} /\ r.connected \in BOOLEAN /\ Genuine(r.snap)
  BY <1>1 DEF Worker, Works
<1> HIDE DEF r, b
<1>5. a \in Worker
  BY <1>1, <1>4, ZenonT(60) DEF Worker
<1>6. r.snap # None => Beside(r, a)
  BY <1>1, <1>4, <1>5 DEF Worker, Same, Beside
<1> HIDE DEF a
<1>7. QED  BY <1>1, <1>2, <1>3, <1>6, BesideStep, ManagerSame DEF r

LEMMA FlushBeginStep == ASSUME WatchInv, NEW w \in Workers, FlushBegin(w) PROVE WatchInv'
<1> DEFINE r == worker[w]
           t == begun + 1
           b == FlushDone(r)
           a == [r EXCEPT !.flush = "commit", !.flushToken = t]
<1>1. r \in Worker /\ Works(r) /\ Beside(r, b) /\ r.flush = "begin" /\ t \in Nat
  BY WorkerIs, FlushDoneIs DEF FlushBegin, WatchInv, CellInv, CellTypeOK
<1>2. Move(w, a) \/ Move(w, b)
  BY DEF FlushBegin
<1>3. CellInv' /\ subs' = subs /\ cluster' = cluster /\ UNCHANGED managerVars
  BY CellMoves DEF FlushBegin
<1> HIDE DEF r, b, t
<1>4. a \in Worker
  BY <1>1, ZenonT(60) DEF Worker
<1>5. Beside(r, a)
  BY <1>1, <1>4 DEF Worker, Same, Beside, Works
<1> HIDE DEF a
<1>6. QED  BY <1>1, <1>2, <1>3, <1>5, BesideStep, ManagerSame DEF r

LEMMA FlushCommitStep == ASSUME WatchInv, NEW w \in Workers, FlushCommit(w) PROVE WatchInv'
<1> DEFINE r == worker[w]
           n == FlushDone(r)
<1>1. /\ r \in Worker /\ Works(r) /\ Beside(r, n)
      /\ r.flushed \in Snapshot /\ Genuine(r.flushed) /\ r.flushConnected \in BOOLEAN
  BY WorkerIs, FlushDoneIs DEF FlushCommit, Works, Worker
<1>2. /\ Move(w, n) /\ subs' = subs /\ cluster' = cluster /\ UNCHANGED managerVars
      /\ begun' = begun /\ dead' = dead
      /\ \/ held' = [data |-> r.flushed, fresh |-> r.flushConnected, issue |-> begun]
         \/ held' = MarkedStale(w)
  BY DEF FlushCommit
<1>3. begun' \in Nat /\ dead' \in BOOLEAN /\ begun \in Nat
  BY <1>2 DEF WatchInv, CellInv, CellTypeOK
<1> HIDE DEF r, n
<1>4. CellInv'
  BY <1>1, <1>2, <1>3, CellKeeps
<1>5. QED  BY <1>1, <1>2, <1>4, BesideStep, ManagerSame DEF r

LEMMA EndWorkerStep == ASSUME WatchInv, NEW w \in Workers, EndWorker(w) PROVE WatchInv'
<1> DEFINE r == worker[w]
           n == [r EXCEPT !.ending = FALSE, !.cancelled = TRUE]
<1>1. r \in Worker /\ Works(r)
  BY WorkerIs
<1>2. Tell(w, Signal("reset"), n) /\ CellInv' /\ cluster' = cluster /\ UNCHANGED managerVars
  BY CellMoves DEF EndWorker
<1> HIDE DEF r
<1>3. n \in Worker
  BY <1>1, ZenonT(60) DEF Worker
<1>4. Beside(r, n)
  BY <1>1, <1>3 DEF Worker, Same, Beside, Works
<1> HIDE DEF n
<1>5. Works(n) /\ (Alive(r) => Alive(n)) /\ Same(r, n)
  BY <1>4, BesideWorks DEF r
<1>6. Carries(Signal("reset"), r, n) /\ Signal("reset") \in StreamEvent
  BY <1>5, SignalCarries, SignalTyped
<1>7. QED  BY <1>2, <1>5, <1>6, TellStep DEF r

LEMMA CancelGenerationStep == ASSUME WatchInv, CancelGeneration PROVE WatchInv'
  BY CellMoves, StillStep, ManagerSame DEF CancelGeneration

LEMMA DetachStep ==
    ASSUME WatchInv, CancelGenerationWorkers \/ Close PROVE WatchInv'
<1>1. /\ CellInv' /\ subs' = subs /\ cluster' = cluster /\ current' = None /\ worker' = Detached
      /\ closed' = closed \/ closed' = TRUE
      /\ unsupported' = unsupported \/ unsupported' = FALSE
  BY CellMoves DEF CancelGenerationWorkers, Close
<1>2. closed' \in BOOLEAN /\ unsupported' \in BOOLEAN
  BY <1>1 DEF WatchInv, ManagerInv
<1>3. CASE current = None
  BY <1>1, <1>2, <1>3, StillStep DEF Detached
<1>4. CASE current # None
  <2> DEFINE r == worker[current]
             n == [r EXCEPT !.ending = TRUE]
  <2>1. current \in Workers
    BY <1>4 DEF WatchInv, ManagerInv
  <2>2. r \in Worker /\ Works(r)
    BY <2>1, WorkerIs
  <2>3. Move(current, n)
    BY <1>1, <1>4 DEF Detached, Move
  <2> HIDE DEF r
  <2>4. n \in Worker
    BY <2>2, ZenonT(60) DEF Worker
  <2>5. Beside(r, n)
    BY <2>2, <2>4 DEF Worker, Same, Beside, Works
  <2> HIDE DEF n
  <2>6. QED  BY <1>1, <1>2, <2>1, <2>3, <2>5, BesideStep DEF r
<1>5. QED  BY <1>3, <1>4

-----------------------------------------------------------------------------
(* Readers come, read and go *)

LEMMA ReaderKeeps ==
    ASSUME WatchInv, NEW s \in Readers, NEW w \in Workers, NEW x, NEW n, Works(n), Move(w, n),
           subs' = [subs EXCEPT ![s] = x], cluster' = cluster,
           Reads(x), x.of \in {w, None}, x.of = w => Alive(n) /\ Follows(x, n),
           \A t \in Readers \ {s} : subs[t].of = w => Alive(n) /\ Follows(subs[t], n)
    PROVE  WorkersInv' /\ ReadersInv'
<1>0. worker \in [Workers -> Worker] /\ n \in Worker /\ subs \in [Readers -> Reader] /\ x \in Reader
  BY DEF WatchInv, WorkersInv, ReadersInv, Works, Reads
<1>1. worker' \in [Workers -> Worker] /\ \A v \in Workers : worker'[v] = IF v = w THEN n ELSE worker[v]
  BY <1>0 DEF Move
<1>2. \A v \in Workers : Works(worker'[v])
  BY <1>1 DEF WatchInv, WorkersInv
<1>3. WorkersInv'
  BY <1>1, <1>2 DEF WorkersInv, Works, Genuine
<1>4. subs' \in [Readers -> Reader] /\ \A t \in Readers : subs'[t] = IF t = s THEN x ELSE subs[t]
  BY <1>0
<1>5. ASSUME NEW t \in Readers
      PROVE  /\ Reads(subs'[t])
             /\ subs'[t].of # None => Alive(worker'[subs'[t].of]) /\ Follows(subs'[t], worker'[subs'[t].of])
  <2>1. CASE t = s
    BY <1>1, <1>4, <2>1
  <2>2. CASE t # s
    <3>1. subs'[t] = subs[t] /\ Reads(subs[t]) /\ subs[t].of \in Workers \cup {None}
      BY <1>4, <2>2 DEF WatchInv, ReadersInv, Reads, Reader
    <3>2. CASE subs[t].of = w
      BY <1>1, <2>2, <3>1, <3>2
    <3>3. CASE subs[t].of # w
      BY <1>1, <3>1, <3>3 DEF WatchInv, ReadersInv
    <3>4. QED  BY <3>2, <3>3
  <2>3. QED  BY <2>1, <2>2
<1>6. ReadersInv'
  BY <1>4, <1>5 DEF ReadersInv
<1>7. QED  BY <1>3, <1>6

\* Whoever joins is told the snapshot, or is closed at once.
LEMMA JoinedFollows ==
    ASSUME WatchInv, NEW s \in Readers, ~ subs[s].used, NEW w \in Workers,
           NEW snap \in Snapshot \cup {None}, NEW r, r.snap = snap,
           snap # None => \A o \in Objects : Says(snap.items[o], r.out, o, snap.items[o])
    PROVE  LET told == PushedAll(Joined(s, w), IF snap = None THEN <<>> ELSE SnapshotEvents(snap)) IN
           /\ Reads(told)
           /\ told.closed => told.of = None
           /\ ~ told.closed => told.of = w /\ Follows(told, r)
<1> DEFINE q == IF snap = None THEN <<>> ELSE SnapshotEvents(snap)
           j == Joined(s, w)
           told == PushedAll(j, q)
<1>1. subs[s] = NewReader /\ w # None /\ Nothing \in Items
  BY WatchAssumption DEF WatchInv, ReadersInv, Reads, Nothing, Items
<1>2. j \in Reader /\ j.of = w /\ j.closed = FALSE /\ j.used = TRUE /\ j.view = Nothing /\ j.queue = <<>>
  <2> DEFINE y == subs[s]
  <2>1. y \in Reader /\ y.closed = FALSE /\ y.view = Nothing /\ y.queue = <<>>
    BY <1>1, ReaderTypes DEF NewReader
  <2> HIDE DEF y
  <2>2. j = [y EXCEPT !.of = w, !.used = TRUE]
    BY DEF Joined, y
  <2>3. QED  BY <2>1, <2>2 DEF Reader
<1>3. q \in Seq(StreamEvent)
  BY ChunksSay
<1>4. \A o \in Objects : Says(0, q, o, IF snap = None THEN 0 ELSE snap.items[o])
  <2>1. CASE snap = None
    BY <2>1, SaysNothing
  <2>2. CASE snap # None
    BY <2>2, ChunksSay
  <2>3. QED  BY <2>1, <2>2
<1>5. j \in Reader /\ Reads(j) /\ j.of # None
  <2>1. <<>> \in Seq(StreamEvent) /\ Len(<<>>) <= QueueEvents
    BY WatchAssumption
  <2>2. QED  BY <1>1, <1>2, <2>1 DEF Reads
<1>6. CASE Len(q) <= QueueEvents
  <2> HIDE DEF q, j
  <2>1. told = [j EXCEPT !.queue = q]
    BY <1>6 DEF PushedAll
  <2> HIDE DEF told
  <2>2. told.of = w /\ told.closed = FALSE /\ told.used = TRUE /\ told.view = Nothing /\ told.queue = q
    BY <1>2, <2>1 DEF Reader
  <2>3. told \in Reader
    BY <1>2, <1>3, <2>1 DEF Reader
  <2>4. Reads(told)
    BY <1>6, <2>2, <2>3 DEF Reads
  <2>5. ASSUME NEW o \in Objects
        PROVE  \E seen \in 0..MaxRV : /\ Says(told.view[o], told.queue, o, seen)
                                      /\ r.snap # None => Says(seen, r.out, o, r.snap.items[o])
    <3> DEFINE u == IF snap = None THEN 0 ELSE snap.items[o]
    <3>1. u \in 0..MaxRV
      BY WatchAssumption DEF Snapshot, Items
    <3>2. Says(told.view[o], told.queue, o, u)
      BY <1>4, <2>2, ReaderTypes
    <3>3. r.snap # None => Says(u, r.out, o, r.snap.items[o])
      OBVIOUS
    <3> HIDE DEF u
    <3>4. QED  BY <3>1, <3>2, <3>3
  <2>6. Follows(told, r)
    BY <2>5 DEF Follows
  <2>7. QED  BY <2>2, <2>4, <2>6 DEF told, q, j
<1>7. CASE ~ Len(q) <= QueueEvents
  <2>1. told = Terminated(j)
    BY <1>7 DEF PushedAll
  <2>2. Reads(told) /\ told.of = None
    BY <1>5, <2>1, TerminatedReads
  <2>3. told.closed
    <3> HIDE DEF j
    <3>1. QED  BY <1>5, <2>1 DEF Terminated, Reader
  <2>4. QED  BY <2>2, <2>3
<1>8. QED  BY <1>6, <1>7

LEMMA SubscribeNewStep ==
    ASSUME WatchInv, NEW s \in Readers, NEW w \in Workers, SubscribeNew(s, w) PROVE WatchInv'
<1> DEFINE snap == IF held # None /\ SnapshotEventsFit(held.data) THEN held.data ELSE None
           fresh == snap # None /\ held.fresh
           r == NewWorker(snap, fresh)
           told == PushedAll(Joined(s, w), IF snap = None THEN <<>> ELSE SnapshotEvents(snap))
<1>1. /\ ~ subs[s].used /\ worker[w].pc = "none" /\ current = None
      /\ subs' = [subs EXCEPT ![s] = told] /\ cluster' = cluster
      /\ closed' = closed /\ unsupported' = unsupported
      /\ \/ told.closed /\ Move(w, Ended(r)) /\ current' = current
         \/ ~ told.closed /\ Move(w, r) /\ current' = w
      /\ Void \/ UNCHANGED cellVars
  BY DEF SubscribeNew
<1>2. CellInv'
  BY <1>1, CellMoves
<1>3. closed' \in BOOLEAN /\ unsupported' \in BOOLEAN
  BY <1>1 DEF WatchInv, ManagerInv
<1>4. snap \in Snapshot \cup {None} /\ Genuine(snap) /\ fresh \in BOOLEAN
  <2>1. held \in Held \cup {None} /\ Data = Snapshot /\ (held # None => Genuine(held.data))
    BY WatchAssumption DEF WatchInv, CellInv, CellTypeOK, None
  <2>2. held # None => held.data \in Snapshot /\ held.fresh \in BOOLEAN
    BY <2>1 DEF Held
  <2>3. snap \in Snapshot \cup {None} /\ Genuine(snap)
    BY <2>1, <2>2 DEF Genuine
  <2>4. fresh \in BOOLEAN
    OBVIOUS
  <2>5. QED  BY <2>3, <2>4
<1> HIDE DEF snap, fresh
<1>5. /\ r \in Worker /\ r.snap = snap /\ r.got = None /\ r.out = <<>> /\ r.flush = "no"
      /\ r.flushed = None /\ r.rv = (IF snap = None THEN 0 ELSE snap.rv)
      /\ (r.pc = "connect" => snap # None) /\ r.pc \in {"list", "initial", "connect"}
  BY <1>4, NewWorkerTyped
<1> HIDE DEF r
<1>6. Works(r) /\ Alive(r)
  BY <1>4, <1>5, SaysNothing DEF Works, Alive, Genuine
<1>7. /\ Reads(told) /\ (told.closed => told.of = None)
      /\ (~ told.closed => told.of = w /\ Follows(told, r))
  <2>1. snap # None => \A o \in Objects : Says(snap.items[o], r.out, o, snap.items[o])
    BY <1>5, SaysNothing
  <2>2. QED  BY <1>1, <1>4, <1>5, <2>1, JoinedFollows
<1> HIDE DEF told
<1>8. w # None /\ \A t \in Readers : subs[t].of # w
  BY <1>1, FollowsIs, WatchAssumption DEF Alive
<1>9. CASE told.closed
  <2>1. Works(Ended(r)) /\ Move(w, Ended(r)) /\ current' = None
    BY <1>1, <1>6, <1>9, EndedWorks
  <2>2. WorkersInv' /\ ReadersInv'
    BY <1>1, <1>7, <1>8, <1>9, <2>1, ReaderKeeps
  <2>3. ManagerInv'
    BY <1>3, <2>1 DEF ManagerInv
  <2>4. QED  BY <1>1, <1>2, <2>2, <2>3 DEF WatchInv, ClusterInv
<1>10. CASE ~ told.closed
  <2>1. Move(w, r) /\ current' = w
    BY <1>1, <1>10
  <2>2. WorkersInv' /\ ReadersInv'
    BY <1>1, <1>6, <1>7, <1>8, <1>10, <2>1, ReaderKeeps
  <2>3. worker'[w] = r
    BY <2>1 DEF Move, WatchInv, WorkersInv
  <2>4. ManagerInv'
    BY <1>3, <1>6, <2>1, <2>3 DEF ManagerInv
  <2>5. QED  BY <1>1, <1>2, <2>2, <2>4 DEF WatchInv, ClusterInv
<1>11. QED  BY <1>9, <1>10

LEMMA SubscribeTooBigStep ==
    ASSUME WatchInv, NEW s \in Readers, NEW w \in Workers, SubscribeTooBig(s, w) PROVE WatchInv'
<1> DEFINE r == worker[w]
           n == [r EXCEPT !.timer = FALSE, !.refused = TRUE]
           x == [subs[s] EXCEPT !.used = TRUE]
<1>1. r \in Worker /\ Works(r)
  BY WorkerIs
<1>2. /\ Move(w, n) /\ subs' = [subs EXCEPT ![s] = x] /\ ~ subs[s].used /\ CellInv'
      /\ cluster' = cluster /\ UNCHANGED managerVars
  BY CellMoves DEF SubscribeTooBig
<1>3. subs[s] = NewReader
  BY <1>2 DEF WatchInv, ReadersInv, Reads
<1>4. Reads(x) /\ x.of = None
  <2> DEFINE y == subs[s]
  <2>1. y \in Reader /\ y.of = None
    BY <1>3, ReaderTypes DEF NewReader
  <2> HIDE DEF y
  <2>2. x = [y EXCEPT !.used = TRUE]
    BY DEF y
  <2>3. x \in Reader /\ x.of = None /\ x.used = TRUE
    BY <2>1, <2>2 DEF Reader
  <2>4. QED  BY <2>3 DEF Reads
<1> HIDE DEF r, x
<1>5. n \in Worker
  BY <1>1, ZenonT(60) DEF Worker
<1>6. Beside(r, n)
  BY <1>1, <1>5 DEF Worker, Same, Beside, Works
<1> HIDE DEF n
<1>7. Works(n) /\ (Alive(r) => Alive(n)) /\ Same(r, n)
  BY <1>6, BesideWorks DEF r
<1>8. \A t \in Readers : subs[t].of = w => Alive(n) /\ Follows(subs[t], n)
  BY <1>7, FollowsIs, SameFollows DEF r
<1>9. WorkersInv' /\ ReadersInv'
  <2>1. w # None
    BY WatchAssumption
  <2>2. QED  BY <1>2, <1>4, <1>7, <1>8, <2>1, ReaderKeeps
<1>10. ManagerInv'
  BY <1>2, <1>7, ManagerKeeps, ManagerSame DEF r
<1>11. QED  BY <1>2, <1>9, <1>10 DEF WatchInv, ClusterInv

LEMMA SubscribeSharedStep ==
    ASSUME WatchInv, NEW s \in Readers, NEW w \in Workers, SubscribeShared(s, w) PROVE WatchInv'
<1> DEFINE r == worker[w]
           told == PushedAll(Joined(s, w), IF r.snap = None THEN <<>> ELSE SnapshotEvents(r.snap))
           a == [r EXCEPT !.timer = FALSE]
           b == [r EXCEPT !.timer = TRUE]
<1>1. r \in Worker /\ Works(r) /\ r.snap \in Snapshot \cup {None}
  BY WorkerIs DEF Worker
<1>2. /\ ~ subs[s].used /\ current = w /\ subs' = [subs EXCEPT ![s] = told] /\ CellInv'
      /\ cluster' = cluster /\ UNCHANGED managerVars
      /\ Move(w, a) \/ Move(w, [a EXCEPT !.timer = TRUE])
  BY CellMoves DEF SubscribeShared, Ready
<1>3. Alive(r)
  BY <1>2, WatchAssumption DEF WatchInv, ManagerInv
<1>4. [a EXCEPT !.timer = TRUE] = b
  BY <1>1, Zenon DEF Worker
<1>5. /\ Reads(told) /\ (told.closed => told.of = None)
      /\ (~ told.closed => told.of = w /\ Follows(told, r))
  BY <1>1, <1>2, JoinedFollows DEF Works
<1> HIDE DEF r, told
<1>6. a \in Worker
  BY <1>1, ZenonT(60) DEF Worker
<1>7. b \in Worker
  BY <1>1, ZenonT(60) DEF Worker
<1>8. Beside(r, a)
  BY <1>1, <1>6 DEF Worker, Same, Beside, Works
<1>9. Beside(r, b)
  BY <1>1, <1>7 DEF Worker, Same, Beside, Works
<1> HIDE DEF b
<1>10. PICK n : Beside(r, n) /\ Move(w, n)
  BY <1>2, <1>4, <1>8, <1>9
<1>11. Works(n) /\ Alive(n) /\ Same(r, n)
  BY <1>3, <1>10, BesideWorks DEF r
<1>12. \A t \in Readers : subs[t].of = w => Alive(n) /\ Follows(subs[t], n)
  BY <1>11, FollowsIs, SameFollows DEF r
<1>13. told.of \in {w, None} /\ (told.of = w => Follows(told, n))
  BY <1>5, <1>11, SameFollows, WatchAssumption
<1>14. WorkersInv' /\ ReadersInv'
  BY <1>2, <1>5, <1>10, <1>11, <1>12, <1>13, ReaderKeeps
<1>15. ManagerInv'
  BY <1>2, <1>10, <1>11, ManagerKeeps, ManagerSame
<1>16. QED  BY <1>2, <1>14, <1>15 DEF WatchInv, ClusterInv

LEMMA ApplyIs ==
    ASSUME NEW view \in Items, NEW e \in StreamEvent
    PROVE  /\ Apply(view, e) \in Items
           /\ \A o \in Objects : Apply(view, e)[o] = IF Decides(e, o) THEN Word(e, o) ELSE view[o]
<1>1. CASE e \in [kind : {"delta"}, object : Objects, version : 0..MaxRV, rv : 1..MaxRV]
  <2>1. e.kind = "delta" /\ e.object \in Objects /\ e.version \in 0..MaxRV
    BY <1>1
  <2>2. Apply(view, e) = [view EXCEPT ![e.object] = e.version]
    BY <2>1 DEF Apply
  <2>3. QED  BY <2>1, <2>2 DEF Items, Decides, Word
<1>2. CASE e \in [kind : {"snapshot"}, chunk : Nat, items : Items]
  <2>1. e.kind = "snapshot" /\ e.items \in Items
    BY <1>2
  <2>2. Apply(view, e) = IF e.chunk = 0 THEN e.items
                         ELSE [o \in Objects |-> IF e.items[o] # 0 THEN e.items[o] ELSE view[o]]
    BY <2>1 DEF Apply
  <2>3. QED  BY <2>1, <2>2 DEF Items, Decides, Word
<1>3. CASE e \in [kind : {"progress", "refreshed", "reset", "error"}]
  <2>1. e.kind \in {"progress", "refreshed", "reset", "error"}
    BY <1>3
  <2>2. Apply(view, e) = view
    BY <2>1 DEF Apply
  <2>3. QED  BY <2>1, <2>2 DEF Decides
<1>4. QED  BY <1>1, <1>2, <1>3 DEF StreamEvent

LEMMA DeliverStep == ASSUME WatchInv, NEW s \in Readers, Deliver(s) PROVE WatchInv'
<1> DEFINE y == subs[s]
           w == y.of
           e == Head(y.queue)
           q == Tail(y.queue)
           v == Apply(y.view, e)
           x == [y EXCEPT !.view = v, !.queue = q]
<1>1. /\ Reads(y) /\ y \in Reader /\ w \in Workers /\ w # None /\ y.queue # <<>> /\ y.view \in Items
      /\ y.queue \in Seq(StreamEvent) /\ Alive(worker[w]) /\ Follows(y, worker[w]) /\ y.used
  BY DEF Deliver, WatchInv, ReadersInv, Reads, Reader, NewReader
<1>2. subs' = [subs EXCEPT ![s] = x] /\ CellInv' /\ cluster' = cluster /\ UNCHANGED managerVars /\ worker' = worker
  BY CellMoves DEF Deliver
<1>3. e \in StreamEvent /\ q \in Seq(StreamEvent) /\ Len(q) = Len(y.queue) - 1 /\ Len(y.queue) \in Nat
  BY <1>1
<1>4. v \in Items /\ \A o \in Objects : v[o] = IF Decides(e, o) THEN Word(e, o) ELSE y.view[o]
  BY <1>1, <1>3, ApplyIs
<1>5. \A o \in Objects : \A u : Says(y.view[o], y.queue, o, u) => Says(v[o], q, o, u)
  BY <1>1, <1>4, SaysTail
<1> HIDE DEF y, q, v, e
<1>6. x \in Reader /\ x.of = w /\ x.closed = y.closed /\ x.used = y.used /\ x.view = v /\ x.queue = q
  BY <1>1, <1>3, <1>4 DEF Reader
<1>7. Reads(x)
  <2>1. ~ y.closed /\ Len(y.queue) <= QueueEvents
    BY <1>1 DEF Reads
  <2>2. Len(q) <= QueueEvents
    BY <1>3, <2>1, WatchAssumption
  <2>3. QED  BY <1>1, <1>6, <2>1, <2>2 DEF Reads
<1>8. Follows(x, worker[w])
  BY <1>1, <1>5, <1>6 DEF Follows
<1>9. Works(worker[w]) /\ Move(w, worker[w])
  BY <1>1, <1>2, WorkerIs DEF Move, WatchInv, WorkersInv
<1>10. \A t \in Readers : subs[t].of = w => Alive(worker[w]) /\ Follows(subs[t], worker[w])
  BY <1>1, FollowsIs
<1> HIDE DEF x, w
<1>11. WorkersInv' /\ ReadersInv'
  BY <1>1, <1>2, <1>6, <1>7, <1>8, <1>9, <1>10, ReaderKeeps
<1>12. ManagerInv'
  BY <1>2 DEF WatchInv, ManagerInv, managerVars
<1>13. QED  BY <1>2, <1>11, <1>12 DEF WatchInv, ClusterInv

LEMMA LeaveStep == ASSUME WatchInv, NEW s \in Readers, Leave(s) PROVE WatchInv'
<1> DEFINE y == subs[s]
           w == y.of
           r == worker[w]
           n == AfterRemoval(w, r, subs')
           x == Closed(y)
<1>1. Reads(y) /\ w \in Workers /\ w # None /\ Alive(r)
  BY DEF Leave, WatchInv, ReadersInv, Reads, Reader
<1>2. /\ subs' = [subs EXCEPT ![s] = x] /\ CellInv' /\ cluster' = cluster /\ UNCHANGED managerVars
      /\ Move(w, n)
  BY CellMoves DEF Leave
<1>3. Works(n) /\ Same(r, n) /\ n.pc = r.pc
  BY <1>1, WorkerIs, RemovalKeeps
<1>4. Alive(n)
  BY <1>1, <1>3 DEF Alive
<1>5. Reads(x) /\ x.of = None
  BY <1>1, ClosedReads
<1>6. \A t \in Readers : subs[t].of = w => Alive(n) /\ Follows(subs[t], n)
  BY <1>1, <1>3, <1>4, FollowsIs, SameFollows
<1> HIDE DEF n, x, w
<1>7. WorkersInv' /\ ReadersInv'
  BY <1>1, <1>2, <1>3, <1>5, <1>6, ReaderKeeps
<1>8. ManagerInv'
  BY <1>1, <1>2, <1>4, ManagerKeeps, ManagerSame
<1>9. QED  BY <1>2, <1>7, <1>8 DEF WatchInv, ClusterInv

-----------------------------------------------------------------------------
(* The cluster *)

LEMMA ClusterStep ==
    ASSUME WatchInv, NEW new \in Items, cluster' = Append(cluster, new), Len(cluster) < MaxRV,
           \A o, p \in Objects : new[o] # Last(cluster)[o] /\ new[p] # Last(cluster)[p] => o = p,
           UNCHANGED <<cellVars, managerVars, worker, subs>>
    PROVE  WatchInv'
<1>1. cluster \in Seq(Items) /\ Len(cluster) \in 1..MaxRV /\ MaxRV \in Nat
  BY WatchAssumption DEF WatchInv, ClusterInv
<1>2. /\ cluster' \in Seq(Items) /\ Len(cluster') = Len(cluster) + 1 /\ cluster'[Len(cluster) + 1] = new
      /\ \A v \in 1..Len(cluster) : cluster'[v] = cluster[v]
  BY <1>1
<1>3. ClusterInv'
  <2>1. ASSUME NEW v \in 1..Len(cluster), NEW o \in Objects, NEW p \in Objects,
               cluster'[v + 1][o] # cluster'[v][o], cluster'[v + 1][p] # cluster'[v][p]
        PROVE  o = p
    <3>1. CASE v = Len(cluster)
      BY <1>1, <1>2, <2>1, <3>1 DEF Last
    <3>2. CASE v # Len(cluster)
      <4>1. v \in 1..(Len(cluster) - 1) /\ cluster'[v] = cluster[v] /\ cluster'[v + 1] = cluster[v + 1]
        BY <1>1, <1>2, <3>2
      <4>2. QED  BY <2>1, <4>1 DEF WatchInv, ClusterInv
    <3>3. QED  BY <3>1, <3>2
  <2>2. Len(cluster') - 1 = Len(cluster) /\ Len(cluster') \in 1..MaxRV
    BY <1>1, <1>2
  <2>3. QED  BY <1>2, <2>1, <2>2 DEF ClusterInv
<1>4. ASSUME NEW snap, Genuine(snap) PROVE Genuine(snap)'
  BY <1>1, <1>2, <1>4 DEF Genuine
<1>5. CellInv'
  BY <1>4 DEF WatchInv, CellInv, CellTypeOK, cellVars
<1>6. WorkersInv'
  <2>1. ASSUME NEW w \in Workers PROVE Works(worker[w])'
    <3>1. Works(worker[w]) /\ worker' = worker
      BY DEF WatchInv, WorkersInv
    <3>2. Genuine(worker[w].snap)' /\ Genuine(worker[w].got)' /\ Genuine(worker[w].flushed)'
      BY <1>4, <3>1 DEF Works, Genuine
    <3>3. QED  BY <3>1, <3>2 DEF Works
  <2>2. QED  BY <2>1 DEF WatchInv, WorkersInv
<1>7. ManagerInv' /\ ReadersInv'
  BY DEF WatchInv, ManagerInv, ReadersInv, managerVars
<1>8. QED  BY <1>3, <1>5, <1>6, <1>7 DEF WatchInv

LEMMA WriteStep == ASSUME WatchInv, Write PROVE WatchInv'
<1>1. /\ cluster \in Seq(Items) /\ Len(cluster) \in 1..MaxRV /\ MaxRV \in Nat /\ Len(cluster) < MaxRV
      /\ cluster[Len(cluster)] \in Items
  BY WatchAssumption DEF WatchInv, ClusterInv, Write
<1> DEFINE last == cluster[Len(cluster)]
<1>2. PICK o \in Objects, gone \in BOOLEAN :
        cluster' = Append(cluster, [last EXCEPT ![o] = IF gone THEN 0 ELSE Len(cluster) + 1])
  BY DEF Write, Last
<1> DEFINE z == IF gone THEN 0 ELSE Len(cluster) + 1
           new == [last EXCEPT ![o] = z]
<1>3. z \in 0..MaxRV
  BY <1>1
<1> HIDE DEF last, z
<1>4. new \in Items /\ \A p \in Objects : p # o => new[p] = last[p]
  BY <1>1, <1>3 DEF Items, last
<1>5. \A p, t \in Objects : new[p] # last[p] /\ new[t] # last[t] => p = t
  BY <1>4
<1>6. cluster' = Append(cluster, new)
  BY <1>2 DEF z
<1> HIDE DEF new
<1>7. QED  BY <1>1, <1>4, <1>5, <1>6, ClusterStep DEF Write, Last, last

LEMMA WriteElsewhereStep == ASSUME WatchInv, WriteElsewhere PROVE WatchInv'
<1>1. Last(cluster) \in Items
  BY DEF WatchInv, ClusterInv, Last
<1>2. QED  BY <1>1, ClusterStep DEF WriteElsewhere

LEMMA CompactStep == ASSUME WatchInv, Compact PROVE WatchInv'
  BY CellMoves, StillStep, ManagerSame DEF Compact

-----------------------------------------------------------------------------
(* The theorem *)

LEMMA WatchBegins == ASSUME WatchInit PROVE WatchInv
<1>1. ClusterInv
  <2>1. PICK there \in SUBSET (Objects \ BigObjects) :
          cluster = <<[o \in Objects |-> IF o \in there THEN 1 ELSE 0]>>
    BY DEF WatchInit
  <2> DEFINE items == [o \in Objects |-> IF o \in there THEN 1 ELSE 0]
  <2>2. items \in Items
    BY WatchAssumption DEF Items
  <2> HIDE DEF items
  <2>3. cluster \in Seq(Items) /\ Len(cluster) = 1
    BY <2>1, <2>2 DEF items
  <2>4. QED  BY <2>3, WatchAssumption DEF ClusterInv
<1>2. CellInv
  BY DEF WatchInit, CellInit, CellInv, CellTypeOK, None
<1>3. current = None /\ closed = FALSE /\ unsupported \in BOOLEAN
  BY DEF WatchInit
<1>4. ManagerInv
  BY <1>3 DEF ManagerInv
<1>5. WorkersInv
  <2> DEFINE base == NewWorker(None, FALSE)
  <2>1. /\ base \in Worker /\ base.snap = None /\ base.got = None /\ base.out = <<>> /\ base.flush = "no"
        /\ base.flushed = None
    BY NewWorkerTyped
  <2>2. NoWorker = [base EXCEPT !.pc = "none", !.cached = FALSE]
    BY DEF NoWorker
  <2> HIDE DEF base
  <2>3. NoWorker \in Worker
    BY <2>1, <2>2, ZenonT(60) DEF Worker
  <2>4. /\ NoWorker.snap = None /\ NoWorker.got = None /\ NoWorker.out = <<>> /\ NoWorker.flush = "no"
        /\ NoWorker.flushed = None /\ NoWorker.pc = "none"
    BY <2>1, <2>2 DEF Worker
  <2>5. Works(NoWorker)
    BY <2>3, <2>4 DEF Works, Genuine
  <2>6. worker = [w \in Workers |-> NoWorker]
    BY DEF WatchInit
  <2>7. QED  BY <2>3, <2>5, <2>6 DEF WorkersInv
<1>6. ReadersInv
  <2>1. NewReader \in Reader /\ NewReader.of = None
    BY ReaderTypes DEF NewReader
  <2>2. Reads(NewReader)
    BY <2>1 DEF Reads
  <2>3. subs = [s \in Readers |-> NewReader]
    BY DEF WatchInit
  <2>4. QED  BY <2>1, <2>2, <2>3 DEF ReadersInv
<1>7. QED  BY <1>1, <1>2, <1>4, <1>5, <1>6 DEF WatchInv

LEMMA WatchSteps == ASSUME WatchInv, [WatchNext]_watchVars PROVE WatchInv'
<1>1. ASSUME NEW w \in Workers, RunStep(w) PROVE WatchInv'
  <2>1. CASE \/ InitialSync(w) \/ InitialFails(w) \/ InitialUnsupported(w) \/ ListBegin(w) \/ Preview(w)
             \/ ListAnswers(w) \/ ListFails(w) \/ CommitSnapshot(w) \/ InstallSnapshot(w) \/ SendSnapshot(w)
    BY <2>1, InitialSyncStep, InitialFailsStep, ListBeginStep, PreviewStep, ListAnswersStep, ListFailsStep,
       CommitSnapshotStep, InstallSnapshotStep, SendSnapshotStep
  <2>2. CASE \/ Connect(w) \/ StreamEnds(w) \/ RelistExpired(w) \/ Denied(w) \/ Bookmark(w) \/ ReceiveDelta(w)
             \/ DeltaTooLarge(w) \/ SnapshotOutgrown(w) \/ Notify(w) \/ Fail(w) \/ Finish(w)
    BY <2>2, ConnectStep, StreamEndsStep, ForgetsStep, BookmarkStep, ReceiveDeltaStep, DeltaTooLargeStep,
       SnapshotOutgrownStep, NotifyStep, FinishStep
  <2>3. QED  BY <1>1, <2>1, <2>2 DEF RunStep
<1>2. ASSUME NEW w \in Workers, IdleStep(w) \/ EvictIdle(w) PROVE WatchInv'
  BY <1>2, TimerFiresStep, StopIfIdleStep, FlushCopyStep, FlushBeginStep, FlushCommitStep, EndWorkerStep,
     EvictIdleStep DEF IdleStep
<1>3. ASSUME NEW s \in Readers,
             \/ Deliver(s) \/ Leave(s)
             \/ \E w \in Workers : SubscribeNew(s, w) \/ SubscribeTooBig(s, w) \/ SubscribeShared(s, w)
      PROVE  WatchInv'
  BY <1>3, DeliverStep, LeaveStep, SubscribeNewStep, SubscribeTooBigStep, SubscribeSharedStep
<1>4. CASE CancelGeneration \/ CancelGenerationWorkers \/ Close \/ Write \/ WriteElsewhere \/ Compact
  BY <1>4, CancelGenerationStep, DetachStep, WriteStep, WriteElsewhereStep, CompactStep
<1>5. CASE UNCHANGED watchVars
  <2>1. CellInv'
    BY <1>5, CellMoves DEF watchVars
  <2>2. QED  BY <1>5, <2>1, StillStep, ManagerSame DEF watchVars
<1>6. QED  BY <1>1, <1>2, <1>3, <1>4, <1>5 DEF WatchNext

\* The invariant of the watch manager: a worker watches on from the version of
\* its snapshot and sends only what the snapshot already holds, whatever is kept
\* is the collection at its version, and a reader's queue leads to what its
\* worker knows.
THEOREM WatchHolds == WatchSpec => []WatchInv
<1>1. WatchInit => WatchInv
  BY WatchBegins
<1>2. WatchInv /\ [WatchNext]_watchVars => WatchInv'
  BY WatchSteps
<1>3. QED  BY <1>1, <1>2, PTL DEF WatchSpec

\* Worker, cache and readers tell one story (ReadersConsistent), for any number
\* of objects, workers and readers, any length of queue and any number of
\* versions and failures: no reader misses an update, what is kept for reuse is
\* true at its version, and nobody stays with a worker that has ended.
THEOREM ReadersStayConsistent == WatchSpec => []ReadersConsistent
<1>1. ASSUME WatchInv PROVE ReadersConsistent
  <2>1. WatchTypeOK
    BY <1>1 DEF WatchInv, CellInv, WorkersInv, ReadersInv, WatchTypeOK
  <2>2. NoLostUpdate
    <3>1. SUFFICES ASSUME NEW s \in Readers, NEW w \in Workers, NEW o \in Objects, subs[s].of = w, Ready(w)
                   PROVE  \E seen \in 0..MaxRV : /\ Says(subs[s].view[o], subs[s].queue, o, seen)
                                                 /\ Says(seen, worker[w].out, o, worker[w].snap.items[o])
      BY DEF NoLostUpdate
    <3>2. Follows(subs[s], worker[w])
      BY <1>1, <3>1, FollowsIs
    <3>3. QED  BY <3>1, <3>2 DEF Follows, Ready
  <2>3. VersionConsistent
    BY <1>1 DEF WatchInv, CellInv, WorkersInv, Works, Genuine, VersionConsistent
  <2>4. EndedIsLeft
    <3>1. ASSUME NEW w \in Workers, ~ Running(w) PROVE SubscribersOf(w, subs) = {} /\ current # w
      <4>1. ~ Alive(worker[w])
        BY <3>1 DEF Running, Alive
      <4>2. \A s \in Readers : subs[s].of # w
        BY <1>1, <4>1, FollowsIs
      <4>3. current # w
        BY <1>1, <4>1, WatchAssumption DEF WatchInv, ManagerInv
      <4>4. QED  BY <4>2, <4>3 DEF SubscribersOf
    <3>2. \A s \in Readers : subs[s].of # None => ~ subs[s].closed /\ Len(subs[s].queue) <= QueueEvents
      BY <1>1 DEF WatchInv, ReadersInv, Reads
    <3>3. QED  BY <3>1, <3>2 DEF EndedIsLeft
  <2>5. QED  BY <2>1, <2>2, <2>3, <2>4 DEF ReadersConsistent
<1>2. WatchInv => ReadersConsistent
  BY <1>1
<1>3. QED  BY <1>2, WatchHolds, PTL
=============================================================================
