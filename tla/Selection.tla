------------------------------ MODULE Selection ------------------------------
(***************************************************************************)
(* The selection protocol: internal/services/selection (Coordinator and    *)
(* State), the generation and session stores of internal/api, the          *)
(* namespace-scope operations and the context selection and start-up       *)
(* bootstrap that run on top of them.                                      *)
(*                                                                         *)
(* A request is one HTTP mutation.  A browser page composes it from what   *)
(* it currently shows (Compose) and submits it at some later time (Begin). *)
(* Every critical section of Coordinator.mu or State.mu is one action; the *)
(* commit, which keeps Coordinator.mu across several other locks, is split *)
(* at each of them, and `holder` is the request that owns Coordinator.mu.  *)
(*                                                                         *)
(* Generations are opaque random strings in the code, compared only for    *)
(* equality; here the n-th one published is the number n.                  *)
(***************************************************************************)
EXTENDS ScopeStore

CONSTANTS
    Requests,   \* HTTP mutations of the selection
    Handlers,   \* concurrent GET /api/v1/session handlers
    Kinds,      \* which mutations the pages may compose
    Faults,     \* which of AllFaults the environment may produce
    StoredRows, \* the scope tables an earlier run may have left behind
    NoRequest

\* "create" is storage-only; "check" is the existence validation, which is a
\* mutation that never writes; the others may publish a generation.
AllKinds == {"context", "create", "update", "delete", "select", "default", "check"}

\* The mutations whose URL names a scope.
ScopedKinds == {"update", "delete", "select", "default"}

\* "rotate"   crypto/rand fails while the new generation is minted
\* "nonce"    crypto/rand fails while the new CSRF nonce is minted
\* "reread"   SetContext commits and its trailing Get fails (client gone)
\* "async"    the desktop shell serves requests while Bootstrap still runs
AllFaults == {"rotate", "nonce", "reread", "async"}

ASSUME SelectionAssumption ==
    /\ NoRequest \notin Requests
    /\ Kinds \subseteq AllKinds
    /\ Faults \subseteq AllFaults
    /\ StoredRows \subseteq {rows \in Table : OneDefault(rows)}

VARIABLES
    store,       \* SQLite: [ctx : profile context_name, rows : namespace_scopes]
    gen,         \* GenerationStore.current
    session,     \* SessionStore: generation of the nonce, and is it usable
    sequence,    \* Coordinator.sequence
    intentStop,  \* whose context Coordinator.intentStop cancels
    work,        \* Coordinator.workCtx: its generation, and is it live
    holder,      \* the request that owns Coordinator.mu
    binding,     \* State.binding
    resolution,  \* State.resolution: the scope row version it was built from
    op,          \* the requests
    boot,        \* Service.Bootstrap
    handler      \* GET /session: the generation it read, before Current

coordinator == <<sequence, intentStop, work, holder>>
state       == <<binding, resolution>>
vars == <<store, gen, session, coordinator, state, op, boot, handler>>

-----------------------------------------------------------------------------
(* Shapes *)

Binding    == [ctx : Contexts \cup {NoContext}, scope : ScopeIDs \cup {NoScope}, gen : Nat]
Resolution == [scope : ScopeIDs \cup {NoScope}, ver : Nat]
NoResolution == [scope |-> NoScope, ver |-> 0]

\* Before Coordinator.Begin, between Begin and the fence, inside the commit.
PrePCs    == {"begun", "validated", "read", "preparing", "failing", "prepared", "ready"}
CommitPCs == {"rotate", "hooks", "bind", "nonce"}
Results   == {"none", "ok", "conflict", "failed", "published"}

RequestRecord ==
    [pc : {"idle", "composed", "done"} \cup PrePCs \cup CommitPCs,
     kind : AllKinds,
     ctx : Contexts \cup {NoContext},       \* target or draft context
     scope : ScopeIDs \cup {NoScope},       \* id in the URL
     ver : Nat,                             \* version precondition of the client
     repl : ScopeIDs \cup {NoScope},        \* replacementScopeId
     setup : BOOLEAN,                       \* returnToSetup
     expected : Nat,                        \* expectedGeneration
     seq : Nat,                             \* Intent.sequence
     stop : BOOLEAN,                        \* Intent.ctx canceled
     seen : Binding,                        \* the binding read before prepare
     prep : Nat,                            \* row version read by prepare
     act : Resolution,                      \* Activation of the mutation
     res : Results]

Request ==
    {o \in RequestRecord :
        /\ o.kind \in ScopedKinds => o.scope # NoScope
        /\ o.pc \notin {"idle", "done"} => o.ctx \in Contexts}

Unbound(g) == [ctx |-> NoContext, scope |-> NoScope, gen |-> g]

Rest(pc, res) ==
    [pc |-> pc, kind |-> "check", ctx |-> NoContext, scope |-> NoScope, ver |-> 0,
     repl |-> NoScope, setup |-> FALSE, expected |-> 0, seq |-> 0, stop |-> FALSE,
     seen |-> Unbound(0), prep |-> 0, act |-> NoResolution, res |-> res]

TypeOK ==
    /\ store \in [ctx : Contexts \cup {NoContext}, rows : Table]
    /\ gen \in Nat
    /\ session \in [gen : Nat, live : BOOLEAN]
    /\ sequence \in Nat
    /\ intentStop \in Requests \cup {NoRequest}
    /\ work \in [gen : Nat, live : BOOLEAN]
    /\ holder \in Requests \cup {NoRequest}
    /\ binding \in Binding
    /\ resolution \in Resolution
    /\ op \in [Requests -> Request]
    /\ boot \in [pc : {"resolve", "persist", "initialize", "bound", "unbound"},
                 ctx : Contexts \cup {NoContext}, profile : Contexts \cup {NoContext}]
    /\ handler \in [Handlers -> [pc : {"idle", "read"}, gen : Nat]]

-----------------------------------------------------------------------------
(* NewCoordinator, NewState, NewGenerationStore, NewSessionStore, on the    *)
(* database an earlier run left behind.                                     *)

Init ==
    /\ store \in [ctx : Contexts \cup {NoContext}, rows : StoredRows]
    /\ gen = 0
    /\ session = [gen |-> 0, live |-> FALSE]
    /\ sequence = 0
    /\ intentStop = NoRequest
    /\ work = [gen |-> 0, live |-> TRUE]
    /\ holder = NoRequest
    /\ binding = Unbound(0)
    /\ resolution = NoResolution
    /\ op = [r \in Requests |-> Rest("idle", "none")]
    /\ boot = [pc |-> "resolve", ctx |-> NoContext, profile |-> NoContext]
    /\ handler = [h \in Handlers |-> [pc |-> "idle", gen |-> 0]]

LockFree == holder = NoRequest
NewestUnfenced(r) == op[r].seq <= sequence
Newest(r) == op[r].seq = sequence /\ ~ op[r].stop

\* A handler returns: the request keeps only its answer.
Answer(r, res) == op' = [op EXCEPT ![r] = Rest("done", res)]
Goto(r, pc)    == op' = [op EXCEPT ![r].pc = pc]

-----------------------------------------------------------------------------
(* The browser *)

\* The body of a request: the user's choices, with the generation and the row
\* version the page shows.
Draft(kind, ctx, id, repl, setup) ==
    [pc |-> "composed", kind |-> kind, ctx |-> ctx, scope |-> id,
     ver |-> IF id = NoScope THEN 0 ELSE store.rows[id].ver,
     repl |-> repl, setup |-> setup, expected |-> gen, seq |-> 0, stop |-> FALSE,
     seen |-> Unbound(0), prep |-> 0, act |-> NoResolution, res |-> "none"]

\* A page shows the current generation, context and scope rows, and the user
\* fills in a mutation.  The headless server starts listening after Bootstrap;
\* the desktop shell does not wait for it.
Compose(r) ==
    /\ op[r].pc = "idle"
    /\ boot.pc \in {"bound", "unbound"} \/ "async" \in Faults
    /\ \E kind \in Kinds, ctx \in Contexts, id \in ScopeIDs \cup {NoScope},
          repl \in ScopeIDs \cup {NoScope}, setup \in BOOLEAN :
        /\ kind \in ScopedKinds <=> id # NoScope
        /\ kind # "context" => ctx = binding.ctx
        /\ kind # "delete" => repl = NoScope /\ ~ setup
        /\ repl # NoScope => ~ setup
        /\ id # NoScope => Exists(store.rows, id)
        /\ repl # NoScope => Exists(store.rows, repl)
        /\ op' = [op EXCEPT ![r] = Draft(kind, ctx, id, repl, setup)]
    /\ UNCHANGED <<store, gen, session, coordinator, state, boot, handler>>

\* The client disconnects: the request context, parent of the intent, ends.
ClientGone(r) ==
    /\ op[r].pc \in PrePCs
    /\ ~ op[r].stop
    /\ op' = [op EXCEPT ![r].stop = TRUE]
    /\ UNCHANGED <<store, gen, session, coordinator, state, boot, handler>>

-----------------------------------------------------------------------------
(* Coordinator.Begin and Intent.Validate *)

\* The previous intent, finished or not, is canceled.
Begin(r) ==
    /\ op[r].pc = "composed"
    /\ LockFree
    /\ sequence' = sequence + 1
    /\ intentStop' = r
    /\ op' = [q \in Requests |->
                IF q = r THEN [op[r] EXCEPT !.pc = "begun", !.seq = sequence + 1]
                ELSE IF q = intentStop /\ op[q].pc \in PrePCs
                THEN [op[q] EXCEPT !.stop = TRUE]
                ELSE op[q]]
    /\ UNCHANGED <<store, gen, session, work, holder, state, boot, handler>>

Valid(r) == Newest(r) /\ op[r].expected = gen

\* Mutate and ReplaceContextPrepared validate before reading the binding,
\* before prepare, and after it; every failure is a conflict to the client.
Validate(r) ==
    /\ LockFree
    /\ \/ op[r].pc = "begun"    /\ Valid(r) /\ Goto(r, "validated")
       \/ op[r].pc = "read"     /\ Valid(r) /\ Goto(r, "preparing")
       \/ op[r].pc = "prepared" /\ Valid(r) /\ Goto(r, "ready")
       \/ op[r].pc = "failing"  /\ Valid(r) /\ Answer(r, "failed")
       \/ /\ op[r].pc \in {"begun", "read", "prepared", "failing"}
          /\ ~ Valid(r)
          /\ Answer(r, "conflict")
    /\ UNCHANGED <<store, gen, session, coordinator, state, boot, handler>>

\* The binding is read under State.mu alone.
ReadBinding(r) ==
    /\ op[r].pc = "validated"
    /\ IF binding.gen = op[r].expected
       THEN op' = [op EXCEPT ![r] = [@ EXCEPT !.pc = "read", !.seen = binding]]
       ELSE Answer(r, "conflict")
    /\ UNCHANGED <<store, gen, session, coordinator, state, boot, handler>>

-----------------------------------------------------------------------------
(* The preparation callbacks: remote reads and local repository reads, with *)
(* no lock held.                                                            *)

\* validateActiveOrigin on the binding it was given.
ActiveOrigin(o, b) == b.gen = o.expected /\ b.ctx = o.ctx

\* scopeMatchesBinding on a row that exists.
MatchesBinding(rows, id, b) == Exists(rows, id) /\ rows[id].ctx = b.ctx

\* An active or default scope is deleted only with somewhere to go.
DeleteAllowed(o, row) ==
    /\ row.def => o.repl # NoScope \/ o.setup
    /\ (o.seen.scope = o.scope /\ ~ row.def) => o.repl # NoScope

\* An unusable replacement does not fail prepare: Delete keeps the error for
\* the commit.  Its version is recorded as 0 here, which no row has.
PreparedVersion(o, rows) ==
    CASE o.kind \in {"select", "default"} -> rows[o.scope].ver
      [] o.kind = "delete" /\ o.repl \notin {NoScope, o.scope} ->
            IF MatchesBinding(rows, o.repl, o.seen) THEN rows[o.repl].ver ELSE 0
      [] OTHER -> 0

Preparable(o, rows) ==
    CASE o.kind = "context" -> TRUE
      [] o.kind \in {"create", "check"} -> ActiveOrigin(o, o.seen)
      [] o.kind = "update" -> ActiveOrigin(o, o.seen) /\ MatchesBinding(rows, o.scope, o.seen)
      [] o.kind = "delete" -> MatchesBinding(rows, o.scope, o.seen) /\ DeleteAllowed(o, rows[o.scope])
      [] o.kind \in {"select", "default"} -> MatchesBinding(rows, o.scope, o.seen)

Prepare(r) ==
    /\ op[r].pc = "preparing"
    /\ Preparable(op[r], store.rows)
    /\ op' = [op EXCEPT ![r] = [@ EXCEPT !.pc = "prepared",
                                         !.prep = PreparedVersion(op[r], store.rows)]]
    /\ UNCHANGED <<store, gen, session, coordinator, state, boot, handler>>

\* The cluster, the kubeconfig or the repository may always fail.
PrepareFails(r) ==
    /\ op[r].pc = "preparing"
    /\ Goto(r, "failing")
    /\ UNCHANGED <<store, gen, session, coordinator, state, boot, handler>>

-----------------------------------------------------------------------------
(* Intent.CommitConditional up to the end of the transaction callback,      *)
(* which also holds State.mu.                                               *)

Fence(r) ==
    /\ op[r].pc = "ready"
    /\ LockFree
    /\ Valid(r)
    /\ binding.gen = op[r].expected

FenceRejects(r) ==
    /\ op[r].pc = "ready"
    /\ LockFree
    /\ ~ (Valid(r) /\ binding.gen = op[r].expected)
    /\ Answer(r, "conflict")
    /\ UNCHANGED <<store, gen, session, coordinator, state, boot, handler>>

\* The callback returned publish = true with this activation.
Publish(r, act) ==
    /\ holder' = r
    /\ op' = [op EXCEPT ![r] = [@ EXCEPT !.pc = "rotate", !.act = act]]

\* publish = false: afterPublish(current) only fills in the answer.
StorageOnly(r) ==
    /\ Answer(r, "ok")
    /\ UNCHANGED holder

CommitFrame == UNCHANGED <<gen, session, sequence, intentStop, work, state, boot, handler>>

CommitContext(r) ==
    /\ Fence(r)
    /\ op[r].kind = "context"
    /\ store' = [store EXCEPT !.ctx = op[r].ctx]
    /\ Publish(r, NoResolution)
    /\ CommitFrame

\* SetContext commits and then re-reads the profile with the same context;
\* when that read fails the callback reports an error and nothing is published.
CommitContextUnread(r) ==
    /\ "reread" \in Faults
    /\ Fence(r)
    /\ op[r].kind = "context"
    /\ store' = [store EXCEPT !.ctx = op[r].ctx]
    /\ Answer(r, "failed")
    /\ UNCHANGED holder
    /\ CommitFrame

CommitCreate(r) ==
    /\ Fence(r)
    /\ op[r].kind = "create"
    /\ ActiveOrigin(op[r], binding)
    /\ ValidProfileContext(store.ctx, op[r].ctx)
    /\ \E id \in ScopeIDs :
        /\ IsNextID(store.rows, id)
        /\ store' = [store EXCEPT !.rows = CreateRow(@, id, op[r].ctx)]
    /\ StorageOnly(r)
    /\ CommitFrame

CommitCheck(r) ==
    /\ Fence(r)
    /\ op[r].kind = "check"
    /\ ActiveOrigin(op[r], binding)
    /\ StorageOnly(r)
    /\ UNCHANGED store
    /\ CommitFrame

CommitUpdateQuietly(r) ==
    LET id == op[r].scope IN
    /\ Fence(r)
    /\ op[r].kind = "update"
    /\ MatchesBinding(store.rows, id, binding)
    /\ MayUpdateRow(store.rows, store.ctx, id, op[r].ver, op[r].ctx)
    /\ store' = [store EXCEPT !.rows = UpdateRow(@, id)]
    /\ StorageOnly(r)
    /\ CommitFrame

CommitUpdate(r) ==
    LET id == op[r].scope IN
    /\ Fence(r)
    /\ op[r].kind = "update"
    /\ ActiveOrigin(op[r], binding)
    /\ MatchesBinding(store.rows, id, binding)
    /\ MayUpdateRow(store.rows, store.ctx, id, op[r].ver, op[r].ctx)
    /\ store' = [store EXCEPT !.rows = UpdateRow(@, id)]
    /\ IF binding.scope = id
       THEN Publish(r, [scope |-> id, ver |-> op[r].ver + 1])
       ELSE StorageOnly(r)
    /\ CommitFrame

CommitDelete(r) ==
    LET id   == op[r].scope
        repl == op[r].repl
        heir == IF repl # NoScope /\ store.rows[id].def THEN repl ELSE NoScope
    IN
    /\ Fence(r)
    /\ op[r].kind = "delete"
    /\ MatchesBinding(store.rows, id, binding)
    /\ repl # NoScope => /\ MatchesBinding(store.rows, repl, binding)
                         /\ store.rows[repl].ver = op[r].prep
    /\ MayDeleteRow(store.rows, id, op[r].ver, heir)
    /\ store' = [store EXCEPT !.rows = DeleteRow(@, id, heir)]
    /\ IF binding.scope = id
       THEN Publish(r, [scope |-> repl, ver |-> op[r].prep])
       ELSE StorageOnly(r)
    /\ CommitFrame

CommitSelect(r) ==
    LET id == op[r].scope IN
    /\ Fence(r)
    /\ op[r].kind \in {"select", "default"}
    /\ MatchesBinding(store.rows, id, binding)
    /\ store.rows[id].ver = op[r].prep
    /\ store' = IF op[r].kind = "default"
                THEN [store EXCEPT !.rows = SetDefaultRow(@, id)]
                ELSE store
    /\ Publish(r, [scope |-> id, ver |-> store.rows[id].ver])
    /\ CommitFrame

CommitFailsHoldingLock(r) ==
    /\ Fence(r)
    /\ Answer(r, "failed")
    /\ holder' = r
    /\ UNCHANGED store
    /\ CommitFrame

\* A failed precondition, a name conflict, a busy or full database: the
\* transaction is rolled back and nothing is published.
CommitFails(r) ==
    /\ Fence(r)
    /\ Answer(r, "failed")
    /\ UNCHANGED <<store, holder>>
    /\ CommitFrame

-----------------------------------------------------------------------------
(* The rest of CommitConditional, still under Coordinator.mu.               *)

Rotate(r) ==
    /\ op[r].pc = "rotate"
    /\ gen' = gen + 1
    /\ Goto(r, "hooks")
    /\ UNCHANGED <<store, session, coordinator, state, boot, handler>>

RotateFails(r) ==
    /\ "rotate" \in Faults
    /\ op[r].pc = "rotate"
    /\ Answer(r, "published")
    /\ holder' = NoRequest
    /\ UNCHANGED <<store, gen, session, sequence, intentStop, work, state, boot, handler>>

RunHooksKeepWork(r) ==
    /\ op[r].pc = "hooks"
    /\ Goto(r, "bind")
    /\ UNCHANGED <<store, gen, session, coordinator, state, boot, handler>>

\* The old work context is canceled and the invalidation hooks run.
RunHooks(r) ==
    /\ op[r].pc = "hooks"
    /\ work' = [gen |-> gen, live |-> TRUE]
    /\ Goto(r, "bind")
    /\ UNCHANGED <<store, gen, session, sequence, intentStop, holder, state, boot, handler>>

\* afterPublish: a scope mutation keeps the bound context.
AfterPublish(r) ==
    /\ op[r].pc = "bind"
    /\ binding' = [ctx   |-> IF op[r].kind = "context" THEN op[r].ctx ELSE binding.ctx,
                   scope |-> op[r].act.scope,
                   gen   |-> gen]
    /\ resolution' = op[r].act
    /\ Goto(r, "nonce")
    /\ UNCHANGED <<store, gen, session, coordinator, boot, handler>>

RotateSession(r) ==
    /\ op[r].pc = "nonce"
    /\ holder' = NoRequest
    /\ \/ /\ session' = [gen |-> gen, live |-> TRUE]
          /\ Answer(r, "ok")
       \/ /\ "nonce" \in Faults
          /\ UNCHANGED session
          /\ Answer(r, "published")
    /\ UNCHANGED <<store, gen, sequence, intentStop, work, state, boot, handler>>

\* Coordinator.Close cancels the newest intent and the generation's work.
Close ==
    /\ LockFree
    /\ work.live
    /\ work' = [work EXCEPT !.live = FALSE]
    /\ intentStop' = NoRequest
    /\ op' = [q \in Requests |->
                IF q = intentStop /\ op[q].pc \in PrePCs
                THEN [op[q] EXCEPT !.stop = TRUE] ELSE op[q]]
    /\ UNCHANGED <<store, gen, session, sequence, holder, state, boot, handler>>

-----------------------------------------------------------------------------
(* Service.Bootstrap *)

\* The kubeconfig decides which context wins; the profile row is read here.
BootResolve ==
    /\ boot.pc = "resolve"
    /\ \/ \E ctx \in Contexts :
            boot' = [pc |-> IF store.ctx = ctx THEN "initialize" ELSE "persist",
                     ctx |-> ctx, profile |-> store.ctx]
       \/ boot' = [boot EXCEPT !.pc = "unbound"]
    /\ UNCHANGED <<store, gen, session, coordinator, state, op, handler>>

\* SetContext runs outside the coordinator.
BootPersist ==
    /\ boot.pc = "persist"
    /\ store' = [store EXCEPT !.ctx = boot.ctx]
    /\ boot' = [boot EXCEPT !.pc = "initialize"]
    /\ UNCHANGED <<gen, session, coordinator, state, op, handler>>

\* State.Initialize: one-shot, and no generation is published.
BootInitialize ==
    /\ boot.pc = "initialize"
    /\ IF binding.ctx = NoContext
       THEN /\ binding' = [ctx |-> boot.ctx, scope |-> NoScope, gen |-> gen]
            /\ resolution' = NoResolution
            /\ boot' = [boot EXCEPT !.pc = "bound"]
       ELSE /\ boot' = [boot EXCEPT !.pc = "unbound"]
            /\ UNCHANGED state
    /\ UNCHANGED <<store, gen, session, coordinator, op, handler>>

-----------------------------------------------------------------------------
(* GET /api/v1/session: the generation is read, then the session store is   *)
(* asked for a nonce of that generation.                                    *)

SessionRead(h) ==
    /\ handler[h].pc = "idle"
    /\ handler' = [handler EXCEPT ![h] = [pc |-> "read", gen |-> gen]]
    /\ UNCHANGED <<store, gen, session, coordinator, state, op, boot>>

SessionCurrentKeepsNonce(h) ==
    /\ handler[h].pc = "read"
    /\ session' = IF session.live THEN session ELSE [gen |-> handler[h].gen, live |-> TRUE]
    /\ handler' = [handler EXCEPT ![h] = [pc |-> "idle", gen |-> 0]]
    /\ UNCHANGED <<store, gen, coordinator, state, op, boot>>

SessionCurrent(h) ==
    /\ handler[h].pc = "read"
    /\ session' = IF session.live /\ session.gen = handler[h].gen
                  THEN session
                  ELSE [gen |-> handler[h].gen, live |-> TRUE]
    /\ handler' = [handler EXCEPT ![h] = [pc |-> "idle", gen |-> 0]]
    /\ UNCHANGED <<store, gen, coordinator, state, op, boot>>

-----------------------------------------------------------------------------
Commit(r) ==
    \/ CommitContext(r) \/ CommitContextUnread(r) \/ CommitCreate(r) \/ CommitCheck(r)
    \/ CommitUpdate(r)  \/ CommitDelete(r)        \/ CommitSelect(r) \/ CommitFails(r)
    \/ FenceRejects(r)

\* The steps a request takes once it has been submitted.
RequestStep(r) ==
    \/ Begin(r) \/ Validate(r) \/ ReadBinding(r) \/ Prepare(r) \/ PrepareFails(r)
    \/ Commit(r)
    \/ Rotate(r) \/ RotateFails(r) \/ RunHooks(r) \/ AfterPublish(r) \/ RotateSession(r)

BootStep == BootResolve \/ BootPersist \/ BootInitialize

SessionStep(h) == SessionRead(h) \/ SessionCurrent(h)

Next ==
    \/ \E r \in Requests : Compose(r) \/ ClientGone(r) \/ RequestStep(r)
    \/ BootStep
    \/ Close
    \/ \E h \in Handlers : SessionStep(h)

\* Handlers run to completion (every remote call has a deadline and every
\* critical section is finite), Bootstrap is a goroutine or start-up code,
\* and the page asks /session again whenever its nonce was rejected.
Fairness ==
    /\ \A r \in Requests : WF_vars(RequestStep(r))
    /\ WF_vars(BootStep)
    /\ \A h \in Handlers : WF_vars(SessionStep(h))

Spec == Init /\ [][Next]_vars
FairSpec == Spec /\ Fairness
-----------------------------------------------------------------------------
(* Properties *)

\* Whenever Coordinator.mu is free, the in-memory binding and the generation
\* store name the same generation: no failure, supersession or concurrent
\* Initialize leaves State on another generation than GenerationStore.
GenerationAgreement == LockFree => binding.gen = gen

\* Whenever Coordinator.mu is free, the context handed to generation-scoped
\* work is canceled or belongs to the published generation.
WorkFollowsGeneration == (LockFree /\ work.live) => work.gen = gen

\* Binding and generation-scoped work follow the generation store across
\* failures, supersession and a concurrent Initialize.
StateFollowsGeneration == GenerationAgreement /\ WorkFollowsGeneration

\* The newest intent is never turned away for a generation change it did not
\* cause: once its first Validate passed, the generation it expects and the
\* one State holds stay current until it commits or a newer intent begins.
NewestIntentUndisturbed ==
    \A r \in Requests :
        (op[r].pc \in PrePCs \ {"begun"} /\ op[r].seq = sequence)
            => op[r].expected = gen /\ binding.gen = gen

\* The active scope is a stored row of the bound context and the resolution
\* in memory was built from that row's current version: no update, delete or
\* context switch leaves State on a row that is gone or has changed.
ActiveScopeStored ==
    (LockFree /\ binding.scope # NoScope) =>
        /\ MatchesBinding(store.rows, binding.scope, binding)
        /\ resolution = [scope |-> binding.scope, ver |-> store.rows[binding.scope].ver]

\* Once start-up is over, the context stored for the profile is the context
\* bound in memory: a committed context_name was published, and what was
\* published is what a restart will read back.
CommittedContextIsPublished ==
    (LockFree /\ boot.pc \in {"bound", "unbound"} /\ binding.ctx # NoContext)
        => store.ctx = binding.ctx

\* At most one default scope per context after every commit, whatever mix of
\* SetDefault and Delete-with-replacement ran, so the unique index over
\* is_default never rejects one.
OneDefaultScope == OneDefault(store.rows)

\* SQLite and memory agree after every mutation, whatever raced: the stored
\* context is the bound one, the active scope is a current row of it, and one
\* scope at most is its default.
StoreCoherent == CommittedContextIsPublished /\ ActiveScopeStored /\ OneDefaultScope

\* The generation moves by one step at a time, and only for the newest
\* intent, which expected exactly the generation it replaces.
OnlyNewestPublishes ==
    [][gen' # gen =>
        /\ gen' = gen + 1
        /\ \E r \in Requests :
            holder = r /\ op[r].seq = sequence /\ op[r].expected = gen]_vars

\* The newest intent wins: nobody else publishes a generation, and nothing but
\* a newer intent makes its own fail as stale.
NewestIntentWins == []NewestIntentUndisturbed /\ OnlyNewestPublishes

\* Every submitted mutation is answered, whatever competes with it.
RequestsEnd == \A r \in Requests : op[r].pc = "composed" ~> op[r].pc = "done"

\* A failed nonce rotation, or a slow GET /session that re-mints the nonce of
\* an older generation, is always repaired by later GET /session calls.
SessionRecovers == []<>(session.live /\ session.gen = gen)
=============================================================================
