------------------------------- MODULE ScopePages -------------------------------
(***************************************************************************)
(* The lists of namespace scopes and of namespaces: ListNamespaces and List *)
(* of internal/api/handlers/namespace_scopes.go.                            *)
(*                                                                          *)
(* A client walks through a list, page by page, while scopes are created,    *)
(* changed and deleted and the selection moves.  A page reads the selection, *)
(* then the store or the cluster, and is answered only if the selection is   *)
(* still the one it read.                                                   *)
(***************************************************************************)
EXTENDS Integers, Sequences, FiniteSets

LOCAL INSTANCE FiniteSetsExt

CONSTANTS
    ScopeTables,     \* the stored scopes a walk may begin with
    ScopeNames,      \* the names scopes may take
    Instants,        \* when changes may happen, in hundredths of a second
    Catalog,         \* the cluster's namespaces, by name: a sequence of [name, phase]
    ListQueries,     \* the queries a client may walk with
    MaxScopeChanges  \* bound: changes of the scopes and the selection

\* decodeScopeListQuery and decodeNamespaceListQuery: what a query may say.
\* search: the names that contain the text.
ScopeListQuery ==
    [list : {"scopes"}, limit : 1..500, sort : {"name", "updatedAt"}, order : {"asc", "desc"},
     search : SUBSET ScopeNames]

NamespaceListQuery ==
    [list : {"namespaces"}, limit : 1..500, sort : {"name"}, order : {"asc", "desc"},
     search : SUBSET {Catalog[i].name : i \in DOMAIN Catalog},
     namespaces : SUBSET {Catalog[i].name : i \in DOMAIN Catalog},
     statuses : SUBSET {"Active", "Terminating", "Unknown"}]

ASSUME ScopePagesAssumption ==
    /\ \A q \in ListQueries : q \in ScopeListQuery \/ q \in NamespaceListQuery
    /\ MaxScopeChanges \in Nat

VARIABLES
    table,     \* the stored scopes
    chosen,    \* the selection: its generation, scope and namespaces
    walk,      \* the client's walk and the page it asks for
    first,     \* history: the scopes at the walk's beginning
    touched,   \* history: the scopes changed since
    changes

scopeVars == <<table, chosen, walk, first, touched, changes>>

NoAnchor == [value |-> <<>>, name |-> 0, id |-> 0, offset |-> 0, gen |-> 0]

AnchorAt(key, gen) ==
    [value |-> key.value, name |-> key.name, id |-> key.id, offset |-> 0, gen |-> gen]

NewWalk(q) ==
    [query |-> q, phase |-> "idle", gen |-> 0, within |-> {}, rows |-> <<>>,
     anchor |-> NoAnchor, shown |-> <<>>, gens |-> {}]

ScopesInit ==
    /\ table \in ScopeTables
    /\ chosen = [gen |-> 1, scope |-> 1, namespaces |-> {Catalog[i].name : i \in DOMAIN Catalog}]
    /\ \E q \in ListQueries : walk = NewWalk(q)
    /\ first = table /\ touched = {} /\ changes = 0

-----------------------------------------------------------------------------
(* The keys and the order of scopes *)

\* The text of an instant within a second: trailing zeros are not written, and
\* the text ends with Z (character codes).
TextOf(t) ==
    LET d == t % 100 IN
    <<t \div 100>> \o
    (IF d = 0 THEN <<90>>
     ELSE IF d % 10 = 0 THEN <<46, 48 + (d \div 10), 90>>
     ELSE <<46, 48 + (d \div 10), 48 + (d % 10), 90>>)

newScopeCursorState(s, q) ==
    [value |-> IF q.sort = "name" THEN <<s.name>> ELSE TextOf(s.updated), name |-> s.name, id |-> s.id]

\* strings.Compare of two texts.
TextBefore(a, b) ==
    \E i \in 1..Len(b) :
        /\ \A j \in 1..(i - 1) : j <= Len(a) /\ a[j] = b[j]
        /\ IF i <= Len(a) THEN a[i] < b[i] ELSE TRUE

compareScopeKeys(a, b) ==
    CASE TextBefore(a.value, b.value) -> -1
      [] TextBefore(b.value, a.value) -> 1
      [] OTHER -> IF <<a.name, a.id>> = <<b.name, b.id>> THEN 0
                  ELSE IF a.name < b.name \/ (a.name = b.name /\ a.id < b.id) THEN -1 ELSE 1

\* a comes after b in the order of the query.
After(a, b, q) == compareScopeKeys(a, b) = IF q.order = "desc" THEN -1 ELSE 1

KeyAfter(s, t, q) == After(newScopeCursorState(s, q), newScopeCursorState(t, q), q)

sortScopes(S, q) ==
    [i \in 1..Cardinality(S) |->
        CHOOSE s \in S : Cardinality({t \in S : KeyAfter(s, t, q)}) = i - 1]

\* List's filter.
Found(S, q) == {s \in S : q.search = {} \/ s.name \in q.search}

scopePageOffset(rows, q, anchor) == Len(walk.shown) + 1

\* The first row after the anchor; the anchor's own row may be gone.
scopePageStart(rows, q, anchor) ==
    IF anchor = NoAnchor THEN 1
    ELSE 1 + Cardinality({i \in 1..Len(rows) : ~ After(newScopeCursorState(rows[i], q),
                              [value |-> anchor.value, name |-> anchor.name, id |-> anchor.id], q)})

-----------------------------------------------------------------------------
(* A page *)

\* activeSelection, and, of a filter, validateNamespaceSelectionFilter; the
\* cursor must be of this selection.
PageBegins ==
    LET q == walk.query
        named == IF q.list = "namespaces" THEN q.namespaces ELSE {}
    IN
    /\ walk.phase = "idle"
    /\ walk' = [walk EXCEPT !.gen = chosen.gen, !.within = chosen.namespaces,
          !.phase = IF named \subseteq chosen.namespaces /\ walk.anchor.gen \in {0, chosen.gen}
                    THEN "reading" ELSE "refused"]
    /\ UNCHANGED <<table, chosen, first, touched, changes>>

\* service.List, and the page cut from it.
ReadScopes ==
    LET q == walk.query
        rows == sortScopes(Found(table, q), q)
        start == scopePageStart(rows, q, walk.anchor)
        end == Min({start + q.limit - 1, Len(rows)})
    IN
    /\ walk.phase = "reading" /\ q.list = "scopes"
    /\ walk' = [walk EXCEPT !.phase = "read", !.rows = SubSeq(rows, start, end),
          !.anchor = IF end < Len(rows)
                     THEN AnchorAt(newScopeCursorState(rows[end], q), walk.gen)
                     ELSE NoAnchor]
    /\ UNCHANGED <<table, chosen, first, touched, changes>>

filterNamespaceRecords(rows, q) ==
    SelectSeq(rows, LAMBDA r : /\ q.namespaces = {} \/ r.name \in q.namespaces
                               /\ q.statuses = {} \/ r.phase \in q.statuses
                               /\ q.search = {} \/ r.name \in q.search)

\* namespacePage: the cluster's page of a consistent list, filtered afterwards.
ReadNamespaces ==
    LET q == walk.query
        start == walk.anchor.offset + 1
        end == Min({start + q.limit - 1, Len(Catalog)})
        kept == filterNamespaceRecords(SubSeq(Catalog, start, end), q)
    IN
    /\ walk.phase = "reading" /\ q.list = "namespaces"
    /\ walk' = [walk EXCEPT !.phase = "read",
          !.rows = [i \in 1..Len(kept) |->
                      LET r == kept[IF q.order = "desc" THEN Len(kept) + 1 - i ELSE i] IN
                      [id |-> r.name, selected |-> r.name \in walk.within]],
          !.anchor = IF end < Len(Catalog) THEN [NoAnchor EXCEPT !.offset = end, !.gen = walk.gen]
                     ELSE NoAnchor]
    /\ UNCHANGED <<table, chosen, first, touched, changes>>

\* The store or the cluster fails, or the cluster's page has expired.
ReadFails ==
    /\ walk.phase = "reading" /\ changes < MaxScopeChanges
    /\ changes' = changes + 1
    /\ walk' = [walk EXCEPT !.phase = "refused"]
    /\ UNCHANGED <<table, chosen, first, touched>>

\* selectionMatches, and the answer.
PageAnswers ==
    /\ walk.phase = "read"
    /\ walk' = IF chosen.gen # walk.gen THEN [walk EXCEPT !.phase = "refused", !.rows = <<>>]
               ELSE [walk EXCEPT !.phase = IF walk.anchor = NoAnchor THEN "complete" ELSE "idle",
                                 !.shown = @ \o walk.rows, !.rows = <<>>,
                                 !.gens = @ \cup {walk.gen}]
    /\ UNCHANGED <<table, chosen, first, touched, changes>>

-----------------------------------------------------------------------------
(* Changes of the scopes; one of the selected scope moves the selection *)

Touch(id) ==
    /\ changes < MaxScopeChanges
    /\ changes' = changes + 1
    /\ touched' = touched \cup {id}
    /\ chosen' = IF id = chosen.scope THEN [chosen EXCEPT !.gen = @ + 1] ELSE chosen
    /\ UNCHANGED <<walk, first>>

FreeName(n, id) == \A s \in table : s.id # id => s.name # n

CreateScope(n, t) ==
    LET id == 1 + Max({s.id : s \in table} \cup {0})   \* SQLite's next rowid
    IN
    /\ FreeName(n, id)
    /\ table' = table \cup {[id |-> id, name |-> n, updated |-> t]}
    /\ Touch(id)

UpdateScope(s, n, t) ==
    /\ FreeName(n, s.id)
    /\ table' = (table \ {s}) \cup {[s EXCEPT !.name = n, !.updated = t]}
    /\ Touch(s.id)

DeleteScope(s) ==
    /\ table' = table \ {s}
    /\ Touch(s.id)

-----------------------------------------------------------------------------

ScopesNext ==
    \/ PageBegins \/ ReadScopes \/ ReadNamespaces \/ ReadFails \/ PageAnswers
    \/ \E n \in ScopeNames, t \in Instants :
        CreateScope(n, t) \/ \E s \in table : UpdateScope(s, n, t)
    \/ \E s \in table : DeleteScope(s)

-----------------------------------------------------------------------------
(* Properties *)

Ids(rows) == [i \in 1..Len(rows) |-> rows[i].id]

\* A walk that comes to its end was of one selection, and showed, once each and
\* in the order of the query, every scope that nobody changed meanwhile and that
\* the query finds, whatever was created, renamed or deleted between two pages;
\* a walk through the namespaces showed each that passes the filter once.
WalkShowsAll ==
    walk.phase = "complete" =>
        /\ Cardinality(walk.gens) = 1
        /\ IF walk.query.list = "scopes"
           THEN Ids(SelectSeq(walk.shown, LAMBDA s : s.id \notin touched)) =
                Ids(sortScopes({s \in Found(first, walk.query) : s.id \notin touched}, walk.query))
           ELSE LET kept == filterNamespaceRecords(Catalog, walk.query) IN
                /\ Len(walk.shown) = Len(kept)
                /\ {walk.shown[i].id : i \in 1..Len(walk.shown)} = {kept[i].name : i \in 1..Len(kept)}
=============================================================================
