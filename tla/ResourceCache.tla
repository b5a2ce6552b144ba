---------------------------- MODULE ResourceCache ----------------------------
(***************************************************************************)
(* The snapshot cache of internal/services/resources/cache.go and the       *)
(* subscriptions through which it is read and written.  Every method body   *)
(* runs under ResourceCache.mu and is one action, except Close, which sets  *)
(* the subscription's closed flag before it takes the lock.                 *)
(*                                                                          *)
(* A snapshot is abstracted to its encoded size.  A map entry that is       *)
(* absent in the code is the zero value here (no reference, epoch 0).       *)
(* Every caller commits with partial = false, so the PARTIAL state is left  *)
(* out.                                                                     *)
(***************************************************************************)
EXTENDS Integers, FiniteSetsExt

CONSTANTS
    Keys,          \* canonical identities of cached queries
    Generations,
    GenerationOf,  \* the generation each key embeds
    Subs,          \* subscriptions, one per watch worker
    NoEntry,
    Sizes,         \* possible encoded sizes of a snapshot
    MaxBytes, MaxEntries, FreshFor, MaxStale,
    MaxClock,      \* bound: the clock stops here
    MaxIssues      \* bound: refreshes and invalidations per key or generation

Entry == [bytes : Sizes, lastUsed : Nat, freshUntil : Nat, expiresAt : Nat,
          refreshing : BOOLEAN, issue : Nat]

ASSUME ResourceCacheAssumption ==
    /\ IsFiniteSet(Keys) /\ IsFiniteSet(Subs)
    /\ GenerationOf \in [Keys -> Generations]
    /\ Sizes \subseteq Nat
    /\ {MaxBytes, MaxEntries, FreshFor, MaxStale, MaxClock, MaxIssues} \subseteq Nat
    /\ FreshFor > 0
    /\ NoEntry \notin Entry \cup [data : {"snapshot"}, fresh : BOOLEAN, issue : Nat]

VARIABLES
    entries,          \* cache.entries
    refs,             \* cache.refs
    known,            \* the identities in cache.keys
    keyEpoch,         \* cache.keyEpoch
    generationEpoch,  \* cache.generationEpoch
    invalidated,      \* cache.invalidatedGeneration
    bytes,            \* cache.bytes (BudgetKept says what it is)
    clock,            \* cache.now
    sub,              \* the subscriptions, with the refresh each one has begun
    issued,           \* history: refreshes begun and invalidations, per key
    cut               \* history: issued[k] at the last invalidation of k

vars == <<entries, refs, known, keyEpoch, generationEpoch, invalidated, bytes, clock, sub,
          issued, cut>>

\* issue = 0 stands for "no refresh token".
NoToken == [generationEpoch |-> 0, keyEpoch |-> 0, issue |-> 0]
Token   == [generationEpoch : Nat, keyEpoch : Nat, issue : Nat]

Subscription ==
    [pc : {"none", "open", "closing", "closed"}, key : Keys, generationEpoch : Nat,
     token : Token]

TypeOK ==
    /\ entries \in [Keys -> Entry \cup {NoEntry}]
    /\ refs \in [Keys -> Nat]
    /\ known \subseteq Keys
    /\ keyEpoch \in [Keys -> Nat]
    /\ generationEpoch \in [Generations -> Nat]
    /\ invalidated \subseteq Generations
    /\ clock \in Nat
    /\ sub \in [Subs -> Subscription]
    /\ issued \in [Keys -> Nat]
    /\ cut \in [Keys -> Nat]

Init ==
    /\ entries = [k \in Keys |-> NoEntry]
    /\ refs = [k \in Keys |-> 0]
    /\ known = {}
    /\ keyEpoch = [k \in Keys |-> 0]
    /\ generationEpoch = [g \in Generations |-> 0]
    /\ invalidated = {}
    /\ bytes = 0
    /\ clock = 0
    /\ sub \in [Subs -> [pc : {"none"}, key : Keys, generationEpoch : {0},
                         token : {NoToken}]]
    /\ issued = [k \in Keys |-> 0]
    /\ cut = [k \in Keys |-> 0]

Cached    == {k \in Keys : entries[k] # NoEntry}
KeyOf(s)  == sub[s].key
EntryOf(s) == entries[KeyOf(s)]

\* currentLocked
Current(s) ==
    /\ GenerationOf[KeyOf(s)] \notin invalidated
    /\ sub[s].generationEpoch = generationEpoch[GenerationOf[KeyOf(s)]]

BytesOf(keys) == MapThenSumSet(LAMBDA k : entries[k].bytes, keys)

\* removeEntryLocked forgets the key and its epoch with the last trace of it.
Forgotten(gone) == {k \in gone \cap Cached : refs[k] = 0}

Tick ==
    /\ clock < MaxClock
    /\ clock' = clock + 1
    /\ UNCHANGED <<entries, refs, known, keyEpoch, generationEpoch, invalidated, bytes, sub,
                   issued, cut>>

-----------------------------------------------------------------------------
(* The subscription *)

Subscribe(s) ==
    /\ sub[s].pc = "none"
    /\ GenerationOf[KeyOf(s)] \notin invalidated
    /\ refs' = [refs EXCEPT ![KeyOf(s)] = @ + 1]
    /\ known' = known \cup {KeyOf(s)}
    /\ sub' = [sub EXCEPT ![s] = [@ EXCEPT
                  !.pc = "open",
                  !.generationEpoch = generationEpoch[GenerationOf[KeyOf(s)]]]]
    /\ UNCHANGED <<entries, keyEpoch, generationEpoch, invalidated, bytes, clock, issued, cut>>

\* Load and MarkStale test the closed flag before they take the lock and not
\* again, so a call that began before Close may still take effect after it.
\* A hit refreshes the entry's place in the eviction order.
Load(s) ==
    /\ sub[s].pc # "none"
    /\ EntryOf(s) # NoEntry
    /\ Current(s)
    /\ entries' = [entries EXCEPT ![KeyOf(s)] = [@ EXCEPT !.lastUsed = clock]]
    /\ UNCHANGED <<refs, known, keyEpoch, generationEpoch, invalidated, bytes, clock, sub,
                   issued, cut>>

\* A refresh shares the epoch of the one under way.
BeginRefreshShares(s) ==
    LET k == KeyOf(s) IN
    /\ issued[k] < MaxIssues
    /\ sub[s].pc = "open"
    /\ Current(s)
    /\ issued' = [issued EXCEPT ![k] = @ + 1]
    /\ sub' = [sub EXCEPT ![s] = [@ EXCEPT
                  !.token = [generationEpoch |-> sub[s].generationEpoch,
                             keyEpoch |-> keyEpoch[k], issue |-> issued[k] + 1]]]
    /\ UNCHANGED <<entries, keyEpoch, refs, known, generationEpoch, invalidated, bytes, clock, cut>>

BeginRefresh(s) ==
    LET k == KeyOf(s) IN
    /\ issued[k] < MaxIssues
    /\ sub[s].pc = "open"
    /\ Current(s)
    /\ keyEpoch' = [keyEpoch EXCEPT ![k] = @ + 1]
    /\ entries' = IF entries[k] = NoEntry THEN entries
                  ELSE [entries EXCEPT ![k] = [@ EXCEPT !.refreshing = TRUE,
                                                        !.lastUsed = clock]]
    /\ issued' = [issued EXCEPT ![k] = @ + 1]
    /\ sub' = [sub EXCEPT ![s] = [@ EXCEPT
                  !.token = [generationEpoch |-> sub[s].generationEpoch,
                             keyEpoch |-> keyEpoch[k] + 1, issue |-> issued[k] + 1]]]
    /\ UNCHANGED <<refs, known, generationEpoch, invalidated, bytes, clock, cut>>

\* The token is still the newest one of its key.
TokenIgnoresKey(s) ==
    /\ sub[s].token.issue > 0
    /\ sub[s].token.generationEpoch = generationEpoch[GenerationOf[KeyOf(s)]]

TokenHolds(s) ==
    /\ sub[s].token.issue > 0
    /\ sub[s].token.generationEpoch = generationEpoch[GenerationOf[KeyOf(s)]]
    /\ sub[s].token.keyEpoch = keyEpoch[KeyOf(s)]

-----------------------------------------------------------------------------
(* Eviction *)

\* The bytes and the number of entries once k holds `size` bytes and the
\* entries of `gone` are removed.
FitsWithout(k, size, gone) ==
    /\ bytes - BytesOf((gone \cup {k}) \cap Cached) + size <= MaxBytes
    /\ Cardinality((Cached \cup {k}) \ gone) <= MaxEntries

EvictableInUse(k) == Cached \ {k}
Evictable(k) == {v \in Cached \ {k} : refs[v] = 0}
Expired(v)   == clock >= entries[v].expiresAt

\* The order of the candidates: expired ones first, then least recently used.
Before(a, b) ==
    \/ Expired(a) /\ ~ Expired(b)
    \/ (Expired(a) <=> Expired(b)) /\ entries[a].lastUsed < entries[b].lastUsed

\* evictForLocked removes candidates in that order until the new size fits,
\* and none if removing all of them would not be enough.
Victims(k, size, gone) ==
    /\ gone \subseteq Evictable(k)
    /\ FitsWithout(k, size, gone)
    /\ \A v \in gone, w \in Evictable(k) \ gone : ~ Before(w, v)
    /\ gone # {} =>
        \E v \in gone : /\ \A w \in gone : ~ Before(v, w)
                        /\ ~ FitsWithout(k, size, gone \ {v})

-----------------------------------------------------------------------------
Committed(k, size, issue) ==
    [bytes |-> size, lastUsed |-> clock, freshUntil |-> clock + FreshFor,
     expiresAt |-> clock + MaxStale, refreshing |-> FALSE, issue |-> issue]

\* The commit installs the snapshot and evicts to make room for it.
CommitStores(s, size) ==
    LET k == KeyOf(s) IN
    /\ sub[s].pc = "open"
    /\ Current(s)
    /\ TokenHolds(s)
    /\ \E gone \in SUBSET Evictable(k) :
        /\ Victims(k, size, gone)
        /\ entries' = [j \in Keys |-> IF j = k THEN Committed(k, size, sub[s].token.issue)
                                      ELSE IF j \in gone THEN NoEntry ELSE entries[j]]
        /\ bytes' = bytes - BytesOf(gone) + size - BytesOf({k} \cap Cached)
        /\ known' = known \ Forgotten(gone)
        /\ keyEpoch' = [j \in Keys |-> IF j \in Forgotten(gone) THEN 0 ELSE keyEpoch[j]]
    /\ sub' = [sub EXCEPT ![s] = [@ EXCEPT !.token = NoToken]]
    /\ UNCHANGED <<refs, generationEpoch, invalidated, clock, issued, cut>>

\* The budget is exhausted by entries that are in use.  A commit that is
\* fenced (closed subscription, dead generation, newer token) changes nothing;
\* after either failure the caller aborts the refresh.
CommitFull(s, size) ==
    LET k == KeyOf(s) IN
    /\ sub[s].pc = "open"
    /\ Current(s)
    /\ TokenHolds(s)
    /\ ~ FitsWithout(k, size, Evictable(k))
    /\ entries[k] # NoEntry
    /\ entries' = [entries EXCEPT ![k] = [@ EXCEPT !.refreshing = FALSE]]
    /\ UNCHANGED <<refs, known, keyEpoch, generationEpoch, invalidated, bytes, clock, sub,
                   issued, cut>>

\* Works on a closed subscription too.
AbortRefresh(s) ==
    /\ sub[s].token.issue > 0
    /\ entries' = IF TokenHolds(s) /\ EntryOf(s) # NoEntry
                  THEN [entries EXCEPT ![KeyOf(s)] = [@ EXCEPT !.refreshing = FALSE]]
                  ELSE entries
    /\ sub' = [sub EXCEPT ![s] = [@ EXCEPT !.token = NoToken]]
    /\ UNCHANGED <<refs, known, keyEpoch, generationEpoch, invalidated, bytes, clock, issued, cut>>

MarkStale(s) ==
    /\ sub[s].pc # "none"
    /\ Current(s)
    /\ EntryOf(s) # NoEntry
    /\ entries' = [entries EXCEPT ![KeyOf(s)] = [@ EXCEPT !.freshUntil = clock,
                                                          !.refreshing = FALSE]]
    /\ UNCHANGED <<refs, known, keyEpoch, generationEpoch, invalidated, bytes, clock, sub,
                   issued, cut>>

\* Close: the flag is swapped first, the reference is released under the lock.
CloseFlag(s) ==
    /\ sub[s].pc = "open"
    /\ sub' = [sub EXCEPT ![s] = [@ EXCEPT !.pc = "closing"]]
    /\ UNCHANGED <<entries, refs, known, keyEpoch, generationEpoch, invalidated, bytes, clock,
                   issued, cut>>

CloseRelease(s) ==
    LET k == KeyOf(s)
        last == refs[k] <= 1 /\ entries[k] = NoEntry
    IN
    /\ sub[s].pc = "closing"
    /\ refs' = [refs EXCEPT ![k] = IF @ > 1 THEN @ - 1 ELSE 0]
    /\ known' = IF last THEN known \ {k} ELSE known
    /\ keyEpoch' = IF last THEN [keyEpoch EXCEPT ![k] = 0] ELSE keyEpoch
    /\ sub' = [sub EXCEPT ![s] = [@ EXCEPT !.pc = "closed"]]
    /\ UNCHANGED <<entries, generationEpoch, invalidated, bytes, clock, issued, cut>>

-----------------------------------------------------------------------------
(* The cache itself *)

Invalidate(k) ==
    /\ issued[k] < MaxIssues
    /\ keyEpoch' = [keyEpoch EXCEPT ![k] = IF k \in Forgotten({k}) THEN 0 ELSE @ + 1]
    /\ entries' = [entries EXCEPT ![k] = NoEntry]
    /\ bytes' = bytes - BytesOf({k} \cap Cached)
    /\ known' = known \ Forgotten({k})
    /\ issued' = [issued EXCEPT ![k] = @ + 1]
    /\ cut' = [cut EXCEPT ![k] = issued[k] + 1]
    /\ UNCHANGED <<refs, generationEpoch, invalidated, clock, sub>>

\* The mark is permanent: no key of the generation is subscribed again.
InvalidateGeneration(g) ==
    LET gone == {k \in known : GenerationOf[k] = g}
        keysOf == {k \in Keys : GenerationOf[k] = g}
    IN
    /\ generationEpoch[g] < MaxIssues
    /\ generationEpoch' = [generationEpoch EXCEPT ![g] = @ + 1]
    /\ invalidated' = invalidated \cup {g}
    /\ entries' = [k \in Keys |-> IF k \in gone THEN NoEntry ELSE entries[k]]
    /\ bytes' = bytes - BytesOf(gone \cap Cached)
    /\ known' = known \ Forgotten(gone)
    /\ keyEpoch' = [k \in Keys |-> IF k \in Forgotten(gone) THEN 1
                                   ELSE IF k \in gone THEN keyEpoch[k] + 1
                                   ELSE keyEpoch[k]]
    /\ issued' = [k \in Keys |-> IF k \in keysOf THEN issued[k] + 1 ELSE issued[k]]
    /\ cut' = [k \in Keys |-> IF k \in keysOf THEN issued[k] + 1 ELSE cut[k]]
    /\ UNCHANGED <<refs, clock, sub>>

\* enforceMemoryBudget passes idleFor = 0: every unreferenced entry goes.
EvictInactive ==
    LET gone == {k \in Cached : refs[k] = 0} IN
    /\ gone # {}
    /\ entries' = [k \in Keys |-> IF k \in gone THEN NoEntry ELSE entries[k]]
    /\ bytes' = bytes - BytesOf(gone)
    /\ known' = known \ Forgotten(gone)
    /\ keyEpoch' = [k \in Keys |-> IF k \in Forgotten(gone) THEN 0 ELSE keyEpoch[k]]
    /\ UNCHANGED <<refs, generationEpoch, invalidated, clock, sub, issued, cut>>

Commit(s) == \E size \in Sizes : CommitStores(s, size) \/ CommitFull(s, size)

Next ==
    \/ \E s \in Subs : \/ Subscribe(s) \/ Load(s) \/ BeginRefresh(s) \/ Commit(s)
                       \/ AbortRefresh(s) \/ MarkStale(s) \/ CloseFlag(s) \/ CloseRelease(s)
    \/ \E k \in Keys : Invalidate(k)
    \/ \E g \in Generations : InvalidateGeneration(g)
    \/ EvictInactive
    \/ Tick

Spec == Init /\ [][Next]_vars

-----------------------------------------------------------------------------
(* Properties *)

\* The running byte counter is the sum of what is stored, and neither the
\* byte budget nor the entry budget is ever exceeded, however replacements,
\* evictions and invalidations interleave.
BudgetKept ==
    /\ bytes = BytesOf(Cached)
    /\ bytes <= MaxBytes
    /\ Cardinality(Cached) <= MaxEntries

\* A snapshot enters the cache only from the newest refresh of its key: since
\* that refresh began, no other one began and nothing invalidated the key or
\* its generation, although epochs are deleted with the last reference and
\* start again from zero.
NewestRefreshWins ==
    [][\A k \in Keys :
        (entries'[k] # NoEntry /\ (entries[k] = NoEntry \/ entries'[k].issue # entries[k].issue))
            => entries'[k].issue = issued[k]]_vars

\* What an invalidation removed never comes back: every entry was refreshed
\* after the last invalidation of its key or generation.
InvalidatedStaysOut ==
    \A k \in Keys : entries[k] # NoEntry => entries[k].issue > cut[k]

\* Only fresh snapshots are stored: the newest refresh wins, and nothing from
\* before an invalidation returns.
FreshWins == []InvalidatedStaysOut /\ NewestRefreshWins

\* An entry some open subscription uses disappears only by invalidation,
\* never by eviction under memory pressure or by an idle sweep.
ReferencedStays ==
    [][\A k \in Keys :
        (entries[k] # NoEntry /\ entries'[k] = NoEntry
            /\ \E s \in Subs : sub[s].pc \in {"open", "closing"} /\ sub[s].key = k)
        => cut'[k] # cut[k]]_vars

\* Eviction makes enough room and touches nothing in use (evictForLocked,
\* EvictInactive, Close).
EvictionSafe == []BudgetKept /\ ReferencedStays

-----------------------------------------------------------------------------
(* The cell each key's users rely on *)

\* The cell of key k, its snapshot reduced to the one datum "snapshot".
Cell(k) == INSTANCE FencedCell WITH
    Data <- {"snapshot"}, Empty <- NoEntry,
    held <- IF entries[k] = NoEntry THEN NoEntry
            ELSE [data |-> "snapshot", fresh |-> clock < entries[k].freshUntil,
                  issue |-> entries[k].issue],
    begun <- issued[k], dead <- GenerationOf[k] \in invalidated

\* The cache implements the cell its users rely on, for every key: however the
\* refreshes of several subscriptions, evictions, invalidations and releases
\* interleave, each key only ever takes steps of FencedCell.
ImplementsCells ==
    /\ \A k \in Keys : Cell(k)!CellInit
    /\ [][\A k \in Keys : Cell(k)!CellNext \/ UNCHANGED Cell(k)!cellVars]_vars
=============================================================================
