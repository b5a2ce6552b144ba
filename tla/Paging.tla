--------------------------------- MODULE Paging ---------------------------------
(***************************************************************************)
(* A client's walk through the pages of one collection: how collectResource   *)
(* picks a cluster-wide list or one per namespace, resources.Collect with its  *)
(* pagination strategies, the composite cursor and its k-way merge over        *)
(* origins (namespaces) that may be denied or fail, and the store in which the *)
(* cursor waits between pages.                                                *)
(*                                                                          *)
(* An item is a number that gives its place in the requested order; an        *)
(* origin's content is the sequence in which Kubernetes lists it (its names), *)
(* and a native continue token is a position in it.  Kubernetes keeps the     *)
(* snapshot a walk began with, or says that it has expired.                   *)
(***************************************************************************)
EXTENDS Integers, Sequences, FiniteSets, FiniteSetsExt, SequencesExt

CONSTANTS
    Lists,       \* requests: [names, filter, default, preferGlobal, pods, identity]
    Cluster,     \* the items of each namespace as listed, by whether the order is identity
    Limit,       \* the page size
    Chunk,       \* DefaultOriginChunkSize, at most the page size
    Fanout,      \* NormalizeFanout
    MaxUpsets    \* bound: failed reads, changed permissions, lost or expired pages

VARIABLES
    list,     \* the request
    mode,     \* "none" before the first page, then "global" or "namespaced"
    perm,     \* the namespaces LIST is allowed in; 0 is the cluster-wide grant
    parked,   \* the cursor the client holds a reference to
    cursor,   \* the cursor of the page being collected
    win,      \* the progress of that page
    out,      \* what was found out about each origin while collecting it
    got,      \* the items the client was given
    last,     \* what the last page said
    upsets

vars == <<list, mode, perm, parked, cursor, win, out, got, last, upsets>>

Namespaces == DOMAIN Cluster[TRUE]
Everywhere == 0
AllOrigins == {Everywhere} \cup Namespaces

\* A cluster-wide list goes through the namespaces in order.
Content(o) ==
    LET listed == Cluster[list.identity] IN
    IF o = Everywhere THEN FlattenSeq(listed) ELSE listed[o]

\* The namespaces of the request: the filter, when there is one (ResolveNamespaces).
Names == IF list.filter = {} THEN list.names ELSE list.filter

\* What the walk should return.
Wanted == UNION {Range(Content(o)) : o \in Names}

Namespace(item) == CHOOSE o \in Namespaces : item \in Range(Content(o))

\* preferredListNamespace: the default namespace, if it is asked for.
Preferred == IF list.default \in Names THEN list.default ELSE Everywhere

\* collectResource: one cluster-wide list for a scope of all namespaces, and for
\* Pods of several, if the identity has the grant (globalListDecision).
PrefersGlobal ==
    /\ Preferred = Everywhere
    /\ \/ list.preferGlobal /\ list.filter = {}
       \/ list.pods /\ ~list.preferGlobal /\ Cardinality(list.names) > 1 /\ Cardinality(list.filter) # 1

Origins == IF mode = "global" THEN {Everywhere} ELSE Names

NewCompositeCursor == [o \in AllOrigins |-> [buffer |-> {}, pos |-> 0, exhausted |-> FALSE]]

NoOutcome == [cap |-> "none", failed |-> FALSE, success |-> FALSE]

NewPage == [items |-> <<>>, complete |-> FALSE, cursor |-> FALSE, failed |-> {}, error |-> "none"]

Idle == [pc |-> "idle", group |-> 1, at |-> 0, avail |-> 0, here |-> 0, seen |-> {},
         todo |-> {}, pass |-> "none", progress |-> FALSE, open |-> {}, grant |-> FALSE]

Init ==
    /\ list \in Lists
    /\ mode = "none"
    /\ perm \in {Namespaces, AllOrigins}
    /\ parked = NewCompositeCursor /\ cursor = NewCompositeCursor
    /\ win = Idle
    /\ out = [o \in AllOrigins |-> NoOutcome]
    /\ got = <<>> /\ last = [NewPage EXCEPT !.cursor = TRUE]
    /\ upsets = 0

Upset == upsets < MaxUpsets /\ upsets' = upsets + 1

\* A set of failures, which costs one upset if there are any.
Failing(fails) == IF fails = {} THEN UNCHANGED upsets ELSE Upset

-----------------------------------------------------------------------------
(* Origins: authorizeOrigin, fetchOrigin and applyOriginPage *)

Finished(c) == c.exhausted /\ c.buffer = {}
Untouched(c) == c.buffer = {} /\ c.pos = 0 /\ ~c.exhausted

\* The next n items of an origin, from its continue token.
Fetched(o, n) ==
    LET c == cursor[o]
        p == Min({c.pos + n, Len(Content(o))})
    IN  [buffer |-> c.buffer \cup Range(SubSeq(Content(o), c.pos + 1, p)), pos |-> p,
         exhausted |-> p = Len(Content(o))]

\* The cluster-wide grant covers every namespace.
CanList(o) == {o, Everywhere} \cap perm # {}

\* What a review says: a cluster-wide grant found when the page of several
\* origins began is not reviewed again (GlobalGrantFastPath).
Allowed(o) == win.grant \/ CanList(o)

\* A review: success says that earlier pages already read the origin.
Reviewed(o) == [out[o] EXCEPT !.cap = IF Allowed(o) THEN "allowed" ELSE "denied",
                              !.success = @ \/ cursor[o].exhausted \/ cursor[o].buffer # {}]

\* Kubernetes answers a LIST, or rejects it although the review allowed it, or
\* it fails after its retries.
Answered(o) == [out[o] EXCEPT !.cap = "allowed", !.success = TRUE]
Rejected(o) == [out[o] EXCEPT !.cap = "denied", !.failed = TRUE]
Errs(o) == [out[o] EXCEPT !.cap = "allowed", !.failed = TRUE]

\* One chunk from every origin of a batch that is allowed (runOriginWorkers).
FetchBatch(batch, fails, chunk) ==
    LET listed == {o \in batch : CanList(o)}
        reads  == listed \ fails
    IN
    /\ cursor' = [o \in AllOrigins |-> IF o \in reads THEN Fetched(o, chunk) ELSE cursor[o]]
    /\ out' = [o \in AllOrigins |-> IF o \in reads THEN Answered(o)
                                 ELSE IF o \in listed THEN Errs(o)
                                 ELSE IF o \in batch THEN IF Allowed(o) THEN Rejected(o) ELSE Reviewed(o)
                                 ELSE out[o]]

-----------------------------------------------------------------------------
(* Strategies *)

\* selectPaginationStrategy.
Strategy == IF mode = "global" THEN "global" ELSE IF list.identity THEN "sequential" ELSE "lazy"

\* A request without a cursor.
FirstPage == parked = NewCompositeCursor

\* NamespacePriority collects the preferred namespace first.
Groups == IF Preferred = Everywhere THEN <<Origins>>
          ELSE <<{Preferred}>> \o (IF Origins = {Preferred} THEN <<>> ELSE <<Origins \ {Preferred}>>)

Group == Groups[win.group]
GroupLimit == Limit - win.avail
ChunkLimit == IF Cardinality(Group) <= 1 THEN GroupLimit ELSE Min({Chunk, GroupLimit})

\* authorizedBufferedCount
Buffered(cs, os, group) == Cardinality(UNION {cs[o].buffer : o \in {x \in group : os[x].cap = "allowed"}})

FirstOf(S, n) == {x \in S : Cardinality({y \in S : y < x}) < n}

\* NamespacePriority after a group: the preferred namespace's first rows go out
\* at once; otherwise the next group fills the page.
GroupEnds(cs, os) ==
    LET avail == win.avail + Buffered(cs, os, Group)
        enough == \/ win.group = Len(Groups) \/ avail >= Limit
                  \/ win.group = 1 /\ FirstPage /\ avail > 0
    IN  [Idle EXCEPT !.pc = IF enough THEN "merge" ELSE "collect", !.open = win.open, !.grant = win.grant,
                     !.group = IF enough THEN win.group ELSE win.group + 1,
                     !.avail = avail,
                     !.at = IF enough THEN 0 ELSE Min(Groups[win.group + 1])]

\* NamespaceSequential moves on when the page is not full.
Moves(o, here) ==
    LET later == {x \in Group : x > o} IN
    IF here >= GroupLimit \/ later = {} THEN GroupEnds(cursor', out')
    ELSE [win EXCEPT !.at = Min(later), !.here = here]

\* The untouched origins after the first are read in a window of Fanout.
Window(o) ==
    LET after == {x \in Group : x >= o}
        stop  == {x \in after : ~Untouched(cursor[x]) /\ ~Finished(cursor[x])}
    IN  FirstOf({x \in after : ~cursor[x].exhausted /\ \A y \in stop : x < y}, Fanout)

Sequential(o) == win.pc = "collect" /\ Strategy = "sequential" /\ o = win.at

SequentialPrefetch(o) ==
    /\ Sequential(o)
    /\ o # Min(Group) /\ Untouched(cursor[o]) /\ o \notin win.seen
    /\ \E fails \in SUBSET {x \in Window(o) : CanList(x)} :
          Failing(fails) /\ FetchBatch(Window(o), fails, ChunkLimit)
    /\ win' = [win EXCEPT !.seen = @ \cup Window(o)]
    /\ UNCHANGED <<list, mode, perm, parked, got, last>>

\* The chunks an origin is read in until the page is full.
Needed(o) ==
    LET missing == GroupLimit - (win.here + Cardinality(cursor[o].buffer)) IN
    IF missing <= 0 THEN 0 ELSE ((missing + ChunkLimit - 1) \div ChunkLimit) * ChunkLimit

SequentialVisit(o) ==
    LET known == o \in win.seen
        mayRead == IF known THEN out[o].cap = "allowed" /\ ~out[o].failed ELSE Allowed(o)
        wants == mayRead /\ Needed(o) > 0 /\ ~cursor[o].exhausted
    IN
    /\ Sequential(o)
    /\ ~(o # Min(Group) /\ Untouched(cursor[o]) /\ o \notin win.seen)
    /\ IF Finished(cursor[o]) THEN UNCHANGED <<cursor, out, upsets>> /\ win' = Moves(o, win.here)
       ELSE \E fails \in SUBSET (IF wants /\ CanList(o) THEN {o} ELSE {}) :
              /\ Failing(fails)
              /\ cursor' = [cursor EXCEPT ![o] = IF wants /\ fails = {} /\ CanList(o) THEN Fetched(o, Needed(o)) ELSE @]
              /\ out' = [out EXCEPT ![o] = IF fails # {} THEN Errs(o)
                                           ELSE IF wants THEN IF CanList(o) THEN Answered(o) ELSE Rejected(o)
                                           ELSE IF known THEN @ ELSE Reviewed(o)]
              /\ win' = Moves(o, win.here + IF mayRead THEN Cardinality(cursor'[o].buffer) ELSE 0)
    /\ UNCHANGED <<list, mode, perm, parked, got, last>>

Lazy == win.pc = "collect" /\ Strategy = "lazy"

PassOver(pass, cs) == {o \in Group : ~cs[o].exhausted /\ (cs[o].buffer = {} <=> pass = "empty")}

\* Buffered rows are reauthorized before anything is read.
LazyReview ==
    LET rows == {o \in Group : cursor[o].buffer # {}} IN
    /\ Lazy /\ win.pass = "none"
    /\ out' = [o \in AllOrigins |-> IF o \in rows THEN Reviewed(o) ELSE out[o]]
    /\ win' = IF Buffered(cursor, out', Group) >= GroupLimit THEN GroupEnds(cursor, out')
              ELSE [win EXCEPT !.pass = "empty", !.todo = PassOver("empty", cursor)]
    /\ UNCHANGED <<list, mode, perm, parked, cursor, got, last, upsets>>

\* One chunk per origin in a round, those without rows first; an origin known
\* to be denied is only reviewed again.
LazyBatch ==
    LET batch  == FirstOf(win.todo, Fanout)
        denied == {o \in batch : out[o].cap = "denied"}
    IN
    /\ Lazy /\ win.pass # "none" /\ win.todo # {}
    /\ \E fails \in SUBSET {o \in batch \ denied : CanList(o)} :
         /\ Failing(fails)
         /\ FetchBatch(batch \ denied, fails, ChunkLimit)
         /\ win' = IF Buffered(cursor', out', Group) >= GroupLimit THEN GroupEnds(cursor', out')
                   ELSE [win EXCEPT !.todo = @ \ batch,
                                    !.progress = @ \/ cursor' # cursor]
    /\ UNCHANGED <<list, mode, perm, parked, got, last>>

LazyPass ==
    /\ Lazy /\ win.pass # "none" /\ win.todo = {}
    /\ win' = IF win.pass = "empty" THEN [win EXCEPT !.pass = "refill", !.todo = PassOver("refill", cursor)]
              ELSE IF ~win.progress \/ \A o \in Group : cursor[o].exhausted THEN GroupEnds(cursor, out)
              ELSE [win EXCEPT !.pass = "empty", !.todo = PassOver("empty", cursor), !.progress = FALSE]
    /\ UNCHANGED <<list, mode, perm, parked, cursor, out, got, last, upsets>>

\* listGlobalPodPageInScope: at most five native pages are scanned for items of
\* the scope; the scan ends early past the scope's last namespace, and a page
\* that is exactly full looks one item ahead.
Scan(pos, limit) ==
    LET content == Content(Everywhere)
        final == Max(Names)
        step(s) ==
          LET p     == Min({s.pos + s.size, Len(content)})
              raw   == SubSeq(content, s.pos + 1, p)
              rows  == s.rows \cup {i \in Range(raw) : Namespace(i) \in Names}
              ns    == IF raw = <<>> THEN 0 ELSE Namespace(raw[Len(raw)])
              past  == ns > final
              more  == p < Len(content) /\ ~past
              full  == Cardinality(rows) >= limit
          IN  [pos |-> p, rows |-> rows, exhausted |-> ~more, size |-> IF full THEN 1 ELSE limit,
               stop |-> ~more \/ Cardinality(rows) > limit \/ (full /\ ns < final)]
        scan[n \in 0..5] ==
          IF n = 0 THEN [pos |-> pos, rows |-> {}, exhausted |-> FALSE, size |-> limit, stop |-> FALSE]
          ELSE IF scan[n - 1].stop THEN scan[n - 1] ELSE step(scan[n - 1])
    IN  scan[5]

\* GlobalNative: one cluster-wide origin, read once per page.
GlobalNative ==
    LET o == Everywhere
        c == cursor[o]
        wants == o \in perm /\ ~c.exhausted /\ Cardinality(c.buffer) < Limit
        s == Scan(c.pos, Limit)
    IN
    /\ win.pc = "collect" /\ Strategy = "global"
    /\ \E fails \in SUBSET (IF wants THEN {o} ELSE {}) :
         /\ Failing(fails)
         /\ cursor' = [cursor EXCEPT ![o] =
                         IF ~wants \/ fails # {} THEN @
                         ELSE IF list.preferGlobal THEN Fetched(o, Limit)
                         ELSE [buffer |-> c.buffer \cup s.rows, pos |-> s.pos, exhausted |-> s.exhausted]]
         /\ out' = [out EXCEPT ![o] = IF fails # {} THEN Errs(o) ELSE IF wants THEN Answered(o) ELSE Reviewed(o)]
    /\ win' = [win EXCEPT !.pc = "merge"]
    /\ UNCHANGED <<list, mode, perm, parked, got, last>>

-----------------------------------------------------------------------------
(* The page *)

Ascending(S) == SetToSortSeq(S, <)

\* mergeAuthorizedOriginPages: the heap gives the least n rows of the origins.
Least(cs, origins, n) == FirstOf(UNION {cs[o].buffer : o \in origins}, n)

\* mergePreferredNamespace.
Merged(allowedOrigins) ==
    LET first == Least(cursor, allowedOrigins \cap {Preferred}, Limit)
        rest  == FirstOf(UNION {cursor[o].buffer : o \in allowedOrigins} \ first, Limit - Cardinality(first))
    IN  Ascending(first) \o Ascending(rest)

\* The client asks for the first page, or the one its cursor refers to.
StartPage ==
    /\ win.pc = "idle" /\ last.cursor
    /\ cursor' = parked
    /\ out' = [o \in AllOrigins |-> NoOutcome]
    /\ UNCHANGED <<list, perm, parked, got, last, upsets>>
    /\ mode' = IF ~FirstPage THEN mode
               ELSE IF PrefersGlobal /\ Everywhere \in perm THEN "global" ELSE "namespaced"
    /\ win' = [Idle EXCEPT !.pc = "collect", !.at = Min(Groups'[1]), !.open = perm,
                           !.grant = Everywhere \in perm /\ Cardinality(Origins') > 1]

\* A last page that found no origin allowed reviews those that were finished.
Rechecked ==
    IF \E o \in Origins : out[o].cap = "allowed" THEN out
    ELSE [o \in AllOrigins |-> IF o \in Origins /\ out[o].cap = "none" /\ Finished(cursor[o]) THEN Reviewed(o) ELSE out[o]]

\* Namespaces the page did not reach are forgotten.
ResumesReached(o, os, left) ==
    /\ ~Finished(left[o])
    /\ os[o].cap = "allowed" /\ (~os[o].failed \/ left[o].buffer # {})

\* An origin the next page can go on with (resumableOrigins).
Resumes(o, os, left) ==
    /\ ~Finished(left[o])
    /\ \/ os[o].cap = "none"
       \/ os[o].cap = "allowed" /\ (~os[o].failed \/ left[o].buffer # {})

\* What the page says: its rows, what failed, and whether there is more.
PageOf(os) ==
    LET allowedOrigins == {o \in Origins : os[o].cap = "allowed"}
        failed == {o \in Origins : os[o].cap = "denied" \/ os[o].failed}
        items  == Merged(allowedOrigins)
        left   == [o \in AllOrigins |-> [cursor[o] EXCEPT !.buffer = @ \ Range(items)]]
        all    == \A o \in Origins : Finished(left[o])
    IN  [page |-> [items |-> items, complete |-> all /\ failed = {}, cursor |-> ~all /\ \E o \in Origins : Resumes(o, os, left),
                   failed |-> failed, error |-> "none"],
         cursor |-> left,
         ok |-> allowedOrigins # {} /\ \E o \in allowedOrigins : os[o].success]

\* The end of Collect; the cursor is put in the store and the page answered.
FinishPage ==
    LET p == PageOf(Rechecked) IN
    /\ win.pc = "merge" /\ p.ok
    /\ got' = got \o p.page.items
    /\ last' = p.page
    /\ parked' = p.cursor
    /\ win' = Idle /\ cursor' = p.cursor
    /\ out' = [o \in AllOrigins |-> NoOutcome]
    /\ UNCHANGED <<list, mode, perm, upsets>>

\* Nothing allowed, or nothing read: an error, after which the cursor the
\* client has still refers to the same state; so it does when the answer is
\* lost on its way (CursorStore.Get copies and keeps the entry).
PageFails ==
    /\ win.pc = "merge"
    /\ PageOf(Rechecked).ok => Upset
    /\ ~PageOf(Rechecked).ok => UNCHANGED upsets
    /\ \/ UNCHANGED last
       \/ last' = [last EXCEPT !.cursor = FALSE, !.error = "error"]
    /\ win' = Idle /\ cursor' = parked
    /\ out' = [o \in AllOrigins |-> NoOutcome]
    /\ UNCHANGED <<list, mode, perm, parked, got>>

\* The walk begins again, without its cursor.
Restart ==
    /\ Upset
    /\ parked' = NewCompositeCursor /\ cursor' = NewCompositeCursor
    /\ win' = Idle
    /\ out' = [o \in AllOrigins |-> NoOutcome]
    /\ got' = <<>> /\ last' = [NewPage EXCEPT !.cursor = TRUE]
    /\ mode' = "none"
    /\ UNCHANGED <<list, perm>>

\* 410: Kubernetes compacted the snapshot a continue token refers to.  The page
\* is discarded as a whole.
SnapshotExpires ==
    /\ win.pc = "collect" /\ \E o \in Origins : cursor[o].pos > 0 /\ ~cursor[o].exhausted
    /\ Restart

\* The cursor store has evicted the state, or its lifetime is over.
CursorLost ==
    /\ win.pc = "idle" /\ last.cursor /\ ~FirstPage
    /\ Restart

\* CursorCodec.Decode: the cursor was made for another selection, query or
\* generation.
BindingChanged ==
    /\ win.pc = "idle" /\ last.cursor /\ ~FirstPage
    /\ \E r \in Lists \ {list} : r.identity = list.identity /\ list' = r
    /\ Upset
    /\ parked' = NewCompositeCursor /\ cursor' = NewCompositeCursor
    /\ got' = <<>> /\ last' = [NewPage EXCEPT !.cursor = TRUE]
    /\ mode' = "none"
    /\ UNCHANGED <<perm, win, out>>

\* A Role binding goes, or returns.
Permit(o) ==
    /\ Upset
    /\ perm' = IF o \in perm THEN perm \ {o} ELSE perm \cup {o}
    /\ win' = [win EXCEPT !.open = IF win.pc = "idle" THEN {} ELSE @ \cup perm']
    /\ UNCHANGED <<list, mode, parked, cursor, out, got, last>>

Next ==
    \/ StartPage \/ FinishPage \/ PageFails \/ SnapshotExpires \/ CursorLost \/ BindingChanged \/ GlobalNative
    \/ \E o \in Origins : SequentialPrefetch(o) \/ SequentialVisit(o)
    \/ \E o \in AllOrigins : Permit(o)
    \/ LazyReview \/ LazyBatch \/ LazyPass

Spec == Init /\ [][Next]_vars

-----------------------------------------------------------------------------
(* Properties *)

\* Nothing twice, nothing foreign: whatever fails, is denied, retried or read
\* again, the pages of a walk hold items of the collection, each at most once.
NothingTwice ==
    /\ IsInjective(got)
    /\ Range(got) \subseteq Wanted

\* Complete means all: a page that says the list is complete ends a walk that
\* returned every item; a walk that ends otherwise misses only items of origins
\* its last page reports, or of those behind an error.
EndIsExplained ==
    ~last.cursor =>
        \/ last.complete /\ Range(got) = Wanted
        \/ last.error # "none"
        \/ ~last.complete /\ \A i \in Wanted \ Range(got) :
               \E o \in last.failed : i \in Range(Content(o))

\* Identity order over namespaces holds across pages when nothing went wrong.
InOrder == list.identity /\ Preferred = Everywhere /\ upsets = 0
              => \A i, j \in 1..Len(got) : i < j => got[i] < got[j]

\* Rows of an origin are given out only by a page during which LIST was
\* allowed in it, also when an earlier page had buffered them.
OnlyPermitted ==
    [][got' # got => \A i \in Range(got') \ Range(got) :
          {Namespace(i), Everywhere} \cap win.open # {}]_vars

\* The pages of a walk are the list: nothing twice, in order, nothing that was
\* not permitted, and what is missing at the end is accounted for.
PagesFaithful == [](NothingTwice /\ EndIsExplained /\ InOrder) /\ OnlyPermitted

=============================================================================
