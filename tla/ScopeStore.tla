----------------------------- MODULE ScopeStore -----------------------------
(***************************************************************************)
(* The durable rows behind a selection: the context_name column of the     *)
(* cluster profile and the namespace_scopes table, as the SQLite           *)
(* repositories keep them.  Every operator is one transaction              *)
(* (BEGIN IMMEDIATE ... COMMIT): its guard says when the repository        *)
(* commits, its value is the table after the commit.                       *)
(*                                                                         *)
(* A row is abstracted to what the selection protocol tells apart: the     *)
(* context that owns it, its version and its default flag.  Version 0      *)
(* stands for "no such row".  The namespace items of a scope are           *)
(* determined by the pair <<id, version>>.                                 *)
(***************************************************************************)
EXTENDS Naturals

CONSTANTS
    Contexts,   \* the contexts of the kubeconfig (one cluster profile)
    MaxScopes,  \* bound: largest row id the table may hand out
    NoContext   \* "no context selected yet"

ASSUME ScopeStoreAssumption ==
    /\ MaxScopes \in Nat
    /\ NoContext \notin Contexts

\* Row ids are positive; 0 is the id of "no scope" (ActiveScopeID = 0).
ScopeIDs == 1..MaxScopes
NoScope  == 0

Absent == [ctx |-> NoContext, ver |-> 0, def |-> FALSE]
Row    == [ctx : Contexts, ver : Nat \ {0}, def : BOOLEAN]
Table  == [ScopeIDs -> Row \cup {Absent}]

EmptyTable == [id \in ScopeIDs |-> Absent]

Exists(rows, id) == rows[id].ver > 0

\* The unique index one_default_namespace_scope_per_context.
OneDefault(rows) ==
    \A a, b \in ScopeIDs :
        (a # b /\ rows[a].def /\ rows[b].def) => rows[a].ctx # rows[b].ctx

\* "id INTEGER PRIMARY KEY" without AUTOINCREMENT: SQLite hands out the
\* largest id in use plus one, so the id of a deleted last row is used again.
IsNextID(rows, id) ==
    /\ ~ Exists(rows, id)
    /\ \A other \in ScopeIDs : other > id => ~ Exists(rows, other)
    /\ id = 1 \/ (id > 1 /\ Exists(rows, id - 1))

\* validateProfileContext: the profile row must still name this context.
ValidProfileContext(profileCtx, ctx) == profileCtx = ctx

CreateRow(rows, id, ctx) ==
    [rows EXCEPT ![id] = [ctx |-> ctx, ver |-> 1, def |-> FALSE]]

\* The update is conditional on the version the client saw.
MayUpdateRow(rows, profileCtx, id, ver, ctx) ==
    /\ rows[id].ver = ver
    /\ rows[id].ctx = ctx
    /\ ValidProfileContext(profileCtx, ctx)

UpdateRow(rows, id) == [rows EXCEPT ![id].ver = @ + 1]

\* SetDefault clears the flag on the other rows of the same context first.
SetDefaultRow(rows, id) ==
    [other \in ScopeIDs |->
        [rows[other] EXCEPT !.def =
            IF other = id THEN TRUE
            ELSE IF rows[other].ctx = rows[id].ctx THEN FALSE
            ELSE @]]

\* Delete, handing the default flag to `repl` unless repl is NoScope.
MayDeleteRow(rows, id, ver, repl) ==
    /\ rows[id].ver = ver
    /\ repl # NoScope => /\ repl # id
                         /\ Exists(rows, repl)
                         /\ rows[repl].ctx = rows[id].ctx

DeleteRow(rows, id, repl) ==
    [other \in ScopeIDs |->
        IF other = id THEN Absent
        ELSE IF other = repl THEN [rows[other] EXCEPT !.def = TRUE]
        ELSE rows[other]]
=============================================================================
