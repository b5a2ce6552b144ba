--------------------------- MODULE SelectionProof ---------------------------
(***************************************************************************)
(* Proofs about Selection, for any sets of requests, handlers, contexts,   *)
(* kinds and faults.                                                       *)
(***************************************************************************)
EXTENDS Selection, TLAPS

ActivePCs == PrePCs \cup CommitPCs

\* Coordinator.mu is owned exactly by the request inside the commit.
LockInv ==
    /\ holder # NoRequest => op[holder].pc \in CommitPCs
    /\ \A r \in Requests : op[r].pc \in CommitPCs => holder = r

\* Intents have distinct sequence numbers, and the one that commits is the
\* newest.
SequenceInv ==
    /\ \A r \in Requests : op[r].pc \in ActivePCs => op[r].seq <= sequence
    /\ \A r, q \in Requests :
        (op[r].pc \in ActivePCs /\ op[q].pc \in ActivePCs /\ op[r].seq = op[q].seq) => r = q
    /\ holder # NoRequest => op[holder].seq = sequence

\* The binding lags the generation only between Rotate and afterPublish, and
\* the work context only between Rotate and the hooks.
PublicationInv ==
    /\ (holder = NoRequest \/ op[holder].pc \in {"rotate", "nonce"}) => binding.gen = gen
    /\ (holder # NoRequest /\ op[holder].pc = "rotate") => op[holder].expected = gen
    /\ (work.live /\ (holder = NoRequest \/ op[holder].pc # "hooks")) => work.gen = gen

\* Past its first validation, the newest intent expects the generation in
\* force.
ExpectationInv ==
    \A r \in Requests :
        (op[r].pc \in PrePCs \ {"begun"} /\ op[r].seq = sequence) => op[r].expected = gen

\* With TypeOK, the inductive invariant.
Fenced == LockInv /\ SequenceInv /\ PublicationInv /\ ExpectationInv

-----------------------------------------------------------------------------
(* Type correctness *)

\* The record a request keeps at rest is a request record.
LEMMA RestType ==
    ASSUME NEW pc \in {"idle", "done"}, NEW res \in Results
    PROVE  Rest(pc, res) \in Request
  BY SelectionAssumption, ScopeStoreAssumption
     DEF Rest, Request, RequestRecord, Unbound, NoResolution, Resolution, Binding, AllKinds,
         NoScope, ScopedKinds

\* The updates of single fields that the actions make.
LEMMA FieldTypes ==
    ASSUME NEW o \in Request
    PROVE  /\ [o EXCEPT !.stop = TRUE] \in Request
           /\ \A pc \in PrePCs \cup CommitPCs :
                o.pc \notin {"idle", "done"} => [o EXCEPT !.pc = pc] \in Request
           /\ \A n \in Nat :
                o.pc = "composed" => [o EXCEPT !.pc = "begun", !.seq = n] \in Request
           /\ \A b \in Binding :
                o.pc = "validated" => [o EXCEPT !.pc = "read", !.seen = b] \in Request
           /\ \A n \in Nat :
                o.pc = "preparing" => [o EXCEPT !.pc = "prepared", !.prep = n] \in Request
           /\ \A a \in Resolution :
                o.pc = "ready" => [o EXCEPT !.pc = "rotate", !.act = a] \in Request
  <1>1. [o EXCEPT !.stop = TRUE] \in Request
    BY DEF Request, RequestRecord
  <1>2. ASSUME NEW pc \in PrePCs \cup CommitPCs, o.pc \notin {"idle", "done"}
        PROVE  [o EXCEPT !.pc = pc] \in Request
    BY <1>2 DEF Request, RequestRecord
  <1>3. ASSUME NEW n \in Nat, o.pc = "composed"
        PROVE  [o EXCEPT !.pc = "begun", !.seq = n] \in Request
    BY <1>3 DEF Request, RequestRecord, PrePCs
  <1>4. ASSUME NEW b \in Binding, o.pc = "validated"
        PROVE  [o EXCEPT !.pc = "read", !.seen = b] \in Request
    BY <1>4 DEF Request, RequestRecord, PrePCs
  <1>5. ASSUME NEW n \in Nat, o.pc = "preparing"
        PROVE  [o EXCEPT !.pc = "prepared", !.prep = n] \in Request
    BY <1>5 DEF Request, RequestRecord, PrePCs
  <1>6. ASSUME NEW a \in Resolution, o.pc = "ready"
        PROVE  [o EXCEPT !.pc = "rotate", !.act = a] \in Request
    BY <1>6 DEF Request, RequestRecord, CommitPCs
  <1> QED BY <1>1, <1>2, <1>3, <1>4, <1>5, <1>6

\* The version of any row is a number.
LEMMA VersionType ==
    ASSUME NEW rows \in Table, NEW id \in ScopeIDs PROVE rows[id].ver \in Nat
  BY DEF Table, Row, Absent

\* The version prepare records is a number.
LEMMA PreparedVersionType ==
    ASSUME NEW rows \in Table, NEW o \in Request
    PROVE  PreparedVersion(o, rows) \in Nat
  BY VersionType DEF PreparedVersion, Request, RequestRecord, ScopedKinds, NoScope

\* Moving an active request to another control point keeps the type of op.
LEMMA GotoType ==
    ASSUME op \in [Requests -> Request], NEW r \in Requests,
           op[r].pc \notin {"idle", "done"},
           NEW pc \in PrePCs \cup CommitPCs, Goto(r, pc)
    PROVE  op' \in [Requests -> Request]
  BY FieldTypes DEF Goto

\* Answering a request keeps the type of op.
LEMMA AnswerType ==
    ASSUME op \in [Requests -> Request], NEW r \in Requests, NEW res \in Results, Answer(r, res)
    PROVE  op' \in [Requests -> Request]
  BY RestType DEF Answer

\* The table operators stay within Table.
LEMMA TableType ==
    ASSUME NEW rows \in Table, NEW id \in ScopeIDs
    PROVE  /\ \A c \in Contexts : CreateRow(rows, id, c) \in Table
           /\ Exists(rows, id) => UpdateRow(rows, id) \in Table
           /\ Exists(rows, id) => SetDefaultRow(rows, id) \in Table
           /\ \A repl \in ScopeIDs \cup {NoScope} :
                (repl # NoScope => Exists(rows, repl)) => DeleteRow(rows, id, repl) \in Table
  <1> USE ScopeStoreAssumption
  <1>1. \A c \in Contexts : CreateRow(rows, id, c) \in Table
    BY DEF CreateRow, Table, Row, Absent
  <1>2. Exists(rows, id) => UpdateRow(rows, id) \in Table
    BY DEF UpdateRow, Exists, Table, Row, Absent
  <1>3. ASSUME Exists(rows, id) PROVE SetDefaultRow(rows, id) \in Table
    <2>1. rows[id] \in Row
      BY <1>3 DEF Exists, Table, Absent
    <2>2. SUFFICES ASSUME NEW other \in ScopeIDs
                   PROVE  SetDefaultRow(rows, id)[other] \in Row \cup {Absent}
      BY DEF SetDefaultRow, Table
    <2>3. CASE rows[other] \in Row
      BY <2>1, <2>3 DEF SetDefaultRow, Row
    <2>4. CASE rows[other] = Absent
      <3>1. other # id /\ rows[other].ctx # rows[id].ctx
        BY <2>1, <2>4, <1>3 DEF Absent, Row, Exists
      <3>2. SetDefaultRow(rows, id)[other] = [Absent EXCEPT !.def = @]
        BY <2>4, <3>1 DEF SetDefaultRow
      <3> QED BY <3>2 DEF Absent
    <2> QED BY <2>3, <2>4 DEF Table
  <1>4. ASSUME NEW repl \in ScopeIDs \cup {NoScope}, repl # NoScope => Exists(rows, repl)
        PROVE  DeleteRow(rows, id, repl) \in Table
    <2>1. SUFFICES ASSUME NEW other \in ScopeIDs
                   PROVE  DeleteRow(rows, id, repl)[other] \in Row \cup {Absent}
      BY DEF DeleteRow, Table
    <2>2. CASE other = id
      BY <2>2 DEF DeleteRow
    <2>3. CASE other # id /\ other = repl
      <3>1. rows[other] \in Row
        BY <1>4, <2>3 DEF Exists, Table, Absent, ScopeIDs, NoScope
      <3> QED BY <2>3, <3>1 DEF DeleteRow, Row
    <2>4. CASE other # id /\ other # repl
      BY <2>4 DEF DeleteRow, Table
    <2> QED BY <2>2, <2>3, <2>4
  <1> QED BY <1>1, <1>2, <1>3, <1>4

\* Init establishes the types.
LEMMA InitType == Init => TypeOK
  <1> SUFFICES ASSUME Init PROVE TypeOK
    OBVIOUS
  <1>1. op \in [Requests -> Request]
    BY RestType DEF Init, Results
  <1>2. store \in [ctx : Contexts \cup {NoContext}, rows : Table]
    BY SelectionAssumption DEF Init
  <1> QED
    BY <1>1, <1>2 DEF Init, TypeOK, Binding, Resolution, Unbound, NoResolution, NoScope

\* Every step of a request that holds no lock, or only reads, keeps the types.
LEMMA RequestType ==
    ASSUME TypeOK, NEW r \in Requests,
           Compose(r) \/ ClientGone(r) \/ Begin(r) \/ Validate(r) \/ ReadBinding(r)
           \/ Prepare(r) \/ PrepareFails(r) \/ FenceRejects(r)
    PROVE  TypeOK'
  <1>a. op \in [Requests -> Request] /\ op[r] \in Request
    BY DEF TypeOK
  <1>1. CASE Compose(r)
    <2>1. op' \in [Requests -> Request]
      <3>1. PICK kind \in Kinds, ctx \in Contexts, id \in ScopeIDs \cup {NoScope},
                 repl \in ScopeIDs \cup {NoScope}, setup \in BOOLEAN :
              /\ kind \in ScopedKinds <=> id # NoScope
              /\ op' = [op EXCEPT ![r] = Draft(kind, ctx, id, repl, setup)]
        BY <1>1, Zenon DEF Compose
      <3>2. (IF id = NoScope THEN 0 ELSE store.rows[id].ver) \in Nat
        BY VersionType DEF TypeOK
      <3>3. kind \in AllKinds /\ gen \in Nat
        BY SelectionAssumption DEF TypeOK
      <3>4. Draft(kind, ctx, id, repl, setup) \in Request
        BY <3>1, <3>2, <3>3 DEF Draft, Request, RequestRecord, Unbound, NoResolution,
           Resolution, Binding, NoScope, Results
      <3> QED BY <3>1, <3>4, <1>a
    <2> QED BY <2>1, <1>1 DEF Compose, coordinator, state, TypeOK
  <1>2. CASE ClientGone(r)
    <2>1. op' \in [Requests -> Request]
      BY <1>a, <1>2, FieldTypes DEF ClientGone
    <2> QED BY <2>1, <1>2 DEF ClientGone, coordinator, state, TypeOK
  <1>3. CASE Begin(r)
    <2>1. op' \in [Requests -> Request]
      <3>1. op[r].pc = "composed" /\ sequence + 1 \in Nat
        BY <1>3 DEF Begin, TypeOK
      <3>2. [op[r] EXCEPT !.pc = "begun", !.seq = sequence + 1] \in Request
        BY <1>a, <3>1, FieldTypes
      <3>3. \A q \in Requests : [op[q] EXCEPT !.stop = TRUE] \in Request
        BY <1>a, FieldTypes
      <3> QED BY <1>a, <1>3, <3>2, <3>3 DEF Begin
    <2> QED BY <2>1, <1>3 DEF Begin, state, TypeOK
  <1>4. CASE Validate(r)
    <2>1. op' \in [Requests -> Request]
      BY <1>a, <1>4, GotoType, AnswerType DEF Validate, PrePCs, Results
    <2> QED BY <2>1, <1>4 DEF Validate, coordinator, state, TypeOK
  <1>5. CASE ReadBinding(r)
    <2>1. CASE binding.gen = op[r].expected
      <3>1. op[r].pc = "validated" /\ binding \in Binding
        BY <1>5 DEF ReadBinding, TypeOK
      <3>2. [op[r] EXCEPT !.pc = "read", !.seen = binding] \in Request
        BY <1>a, <3>1, FieldTypes
      <3>3. op' \in [Requests -> Request]
        BY <1>a, <1>5, <2>1, <3>2 DEF ReadBinding
      <3> QED BY <3>3, <1>5 DEF ReadBinding, coordinator, state, TypeOK
    <2>2. CASE binding.gen # op[r].expected
      <3>1. op' \in [Requests -> Request]
        BY <1>a, <1>5, <2>2, AnswerType DEF ReadBinding, Results
      <3> QED BY <3>1, <1>5 DEF ReadBinding, coordinator, state, TypeOK
    <2> QED BY <2>1, <2>2
  <1>6. CASE Prepare(r)
    <2>1. PreparedVersion(op[r], store.rows) \in Nat
      BY <1>a, PreparedVersionType DEF TypeOK
    <2>2. op[r].pc = "preparing"
      BY <1>6 DEF Prepare
    <2>3. [op[r] EXCEPT !.pc = "prepared", !.prep = PreparedVersion(op[r], store.rows)] \in Request
      BY <1>a, <2>1, <2>2, FieldTypes
    <2>4. op' \in [Requests -> Request]
      BY <1>a, <1>6, <2>3 DEF Prepare
    <2> QED BY <2>4, <1>6 DEF Prepare, coordinator, state, TypeOK
  <1>7. CASE PrepareFails(r)
    <2>1. op' \in [Requests -> Request]
      BY <1>a, <1>7, GotoType DEF PrepareFails, PrePCs
    <2> QED BY <2>1, <1>7 DEF PrepareFails, coordinator, state, TypeOK
  <1>8. CASE FenceRejects(r)
    <2>1. op' \in [Requests -> Request]
      BY <1>a, <1>8, AnswerType DEF FenceRejects, Results
    <2> QED BY <2>1, <1>8 DEF FenceRejects, coordinator, state, TypeOK
  <1> QED BY <1>1, <1>2, <1>3, <1>4, <1>5, <1>6, <1>7, <1>8

\* The transactions keep the types.
LEMMA CommitType ==
    ASSUME TypeOK, NEW r \in Requests, Commit(r)
    PROVE  TypeOK'
  <1>a. op \in [Requests -> Request] /\ op[r] \in Request /\ store.rows \in Table
    BY DEF TypeOK
  <1>f. ASSUME op' \in [Requests -> Request], holder' \in Requests \cup {NoRequest},
               store' \in [ctx : Contexts \cup {NoContext}, rows : Table], CommitFrame
        PROVE  TypeOK'
    BY <1>f DEF CommitFrame, TypeOK, state
  <1>p. ASSUME NEW act \in Resolution, Publish(r, act), op[r].pc = "ready"
        PROVE  op' \in [Requests -> Request] /\ holder' \in Requests \cup {NoRequest}
    <2>1. [op[r] EXCEPT !.pc = "rotate", !.act = act] \in Request
      BY <1>a, <1>p, FieldTypes
    <2> QED BY <2>1, <1>a, <1>p DEF Publish
  <1>s. ASSUME NEW res \in Results, Answer(r, res), UNCHANGED holder
        PROVE  op' \in [Requests -> Request] /\ holder' \in Requests \cup {NoRequest}
    BY <1>a, <1>s, AnswerType DEF TypeOK
  <1>r. ASSUME NEW rows \in Table
        PROVE  [store EXCEPT !.rows = rows] \in [ctx : Contexts \cup {NoContext}, rows : Table]
    BY DEF TypeOK
  <1>n. NoResolution \in Resolution
    BY DEF NoResolution, Resolution
  <1>o. "ok" \in Results /\ "failed" \in Results
    BY DEF Results
  <1>k. op[r].kind \in ScopedKinds => op[r].scope \in ScopeIDs
    BY <1>a DEF Request, RequestRecord
  <1>c. op[r].pc = "ready" => op[r].ctx \in Contexts
    BY <1>a DEF Request
  <1>1. CASE CommitContext(r)
    <2>1. store' \in [ctx : Contexts \cup {NoContext}, rows : Table]
      BY <1>1, <1>c DEF CommitContext, Fence, TypeOK
    <2> QED BY <1>1, <2>1, <1>n, <1>p, <1>f DEF CommitContext, Fence
  <1>2. CASE CommitContextUnread(r)
    <2>1. store' \in [ctx : Contexts \cup {NoContext}, rows : Table]
      BY <1>2, <1>c DEF CommitContextUnread, Fence, TypeOK
    <2> QED BY <1>2, <2>1, <1>o, <1>s, <1>f DEF CommitContextUnread
  <1>3. CASE CommitCreate(r)
    <2>1. op[r].ctx \in Contexts
      BY <1>3, <1>c DEF CommitCreate, Fence
    <2>2. PICK id \in ScopeIDs : store' = [store EXCEPT !.rows = CreateRow(@, id, op[r].ctx)]
      BY <1>3 DEF CommitCreate
    <2>3. store' \in [ctx : Contexts \cup {NoContext}, rows : Table]
      BY <2>1, <2>2, <1>a, <1>r, TableType
    <2> QED BY <1>3, <2>3, <1>o, <1>s, <1>f DEF CommitCreate, StorageOnly
  <1>4. CASE CommitCheck(r)
    BY <1>4, <1>o, <1>s, <1>f DEF CommitCheck, StorageOnly, TypeOK
  <1>5. CASE CommitUpdate(r)
    <2> DEFINE id == op[r].scope
    <2>1. id \in ScopeIDs /\ Exists(store.rows, id)
      BY <1>5, <1>k DEF CommitUpdate, ScopedKinds, MatchesBinding
    <2>2. store' \in [ctx : Contexts \cup {NoContext}, rows : Table]
      BY <1>5, <2>1, <1>a, <1>r, TableType DEF CommitUpdate
    <2>3. [scope |-> id, ver |-> op[r].ver + 1] \in Resolution
      BY <1>a, <2>1 DEF Resolution, Request, RequestRecord
    <2>4. op' \in [Requests -> Request] /\ holder' \in Requests \cup {NoRequest}
      <3>1. CASE binding.scope = id
        BY <1>5, <3>1, <2>3, <1>p DEF CommitUpdate, Fence
      <3>2. CASE binding.scope # id
        BY <1>5, <3>2, <1>o, <1>s DEF CommitUpdate, StorageOnly
      <3> QED BY <3>1, <3>2
    <2> QED BY <1>5, <2>2, <2>4, <1>f DEF CommitUpdate
  <1>6. CASE CommitDelete(r)
    <2> DEFINE id   == op[r].scope
               repl == op[r].repl
               heir == IF repl # NoScope /\ store.rows[id].def THEN repl ELSE NoScope
    <2>1. id \in ScopeIDs /\ repl \in ScopeIDs \cup {NoScope}
      BY <1>6, <1>a, <1>k DEF CommitDelete, ScopedKinds, Request, RequestRecord
    <2>2. heir \in ScopeIDs \cup {NoScope} /\ (heir # NoScope => Exists(store.rows, heir))
      BY <1>6, <2>1 DEF CommitDelete, MayDeleteRow
    <2>3. store' = [store EXCEPT !.rows = DeleteRow(@, id, heir)]
      BY <1>6 DEF CommitDelete
    <2>4. store' \in [ctx : Contexts \cup {NoContext}, rows : Table]
      BY <2>1, <2>2, <2>3, <1>a, <1>r, TableType
    <2>5. [scope |-> repl, ver |-> op[r].prep] \in Resolution
      BY <1>a, <2>1 DEF Resolution, Request, RequestRecord
    <2>6. op' \in [Requests -> Request] /\ holder' \in Requests \cup {NoRequest}
      <3>1. CASE binding.scope = id
        BY <1>6, <3>1, <2>5, <1>p DEF CommitDelete, Fence
      <3>2. CASE binding.scope # id
        BY <1>6, <3>2, <1>o, <1>s DEF CommitDelete, StorageOnly
      <3> QED BY <3>1, <3>2
    <2> QED BY <1>6, <2>4, <2>6, <1>f DEF CommitDelete
  <1>7. CASE CommitSelect(r)
    <2> DEFINE id == op[r].scope
    <2>1. id \in ScopeIDs /\ Exists(store.rows, id)
      BY <1>7, <1>k DEF CommitSelect, ScopedKinds, MatchesBinding
    <2>2. store' \in [ctx : Contexts \cup {NoContext}, rows : Table]
      <3>1. CASE op[r].kind = "default"
        BY <1>7, <3>1, <2>1, <1>a, <1>r, TableType DEF CommitSelect
      <3>2. CASE op[r].kind # "default"
        BY <1>7, <3>2 DEF CommitSelect, TypeOK
      <3> QED BY <3>1, <3>2
    <2>3. [scope |-> id, ver |-> store.rows[id].ver] \in Resolution
      BY <1>a, <2>1, VersionType DEF Resolution
    <2> QED BY <1>7, <2>2, <2>3, <1>p, <1>f DEF CommitSelect, Fence
  <1>8. CASE CommitFails(r)
    BY <1>8, <1>o, <1>s, <1>f DEF CommitFails, TypeOK
  <1>9. CASE FenceRejects(r)
    BY <1>9, RequestType
  <1> QED BY <1>1, <1>2, <1>3, <1>4, <1>5, <1>6, <1>7, <1>8, <1>9 DEF Commit

\* The publication steps, Close, Bootstrap and the session handler keep the
\* types.
LEMMA PublicationType ==
    ASSUME TypeOK, NEW r \in Requests,
           Rotate(r) \/ RotateFails(r) \/ RunHooks(r) \/ AfterPublish(r) \/ RotateSession(r)
    PROVE  TypeOK'
  <1>a. op \in [Requests -> Request] /\ op[r] \in Request
    BY DEF TypeOK
  <1>1. CASE Rotate(r)
    <2>1. op' \in [Requests -> Request]
      BY <1>a, <1>1, GotoType DEF Rotate, CommitPCs
    <2> QED BY <2>1, <1>1 DEF Rotate, coordinator, state, TypeOK
  <1>2. CASE RotateFails(r)
    <2>1. op' \in [Requests -> Request]
      BY <1>a, <1>2, AnswerType DEF RotateFails, Results
    <2> QED BY <2>1, <1>2 DEF RotateFails, state, TypeOK
  <1>3. CASE RunHooks(r)
    <2>1. op' \in [Requests -> Request]
      BY <1>a, <1>3, GotoType DEF RunHooks, CommitPCs
    <2> QED BY <2>1, <1>3 DEF RunHooks, state, TypeOK
  <1>4. CASE AfterPublish(r)
    <2>1. op' \in [Requests -> Request]
      BY <1>a, <1>4, GotoType DEF AfterPublish, CommitPCs
    <2>2. op[r].ctx \in Contexts \cup {NoContext} /\ op[r].act \in Resolution
      BY <1>a DEF Request, RequestRecord
    <2>3. op[r].act.scope \in ScopeIDs \cup {NoScope}
      BY <2>2 DEF Resolution
    <2>4. binding' \in Binding /\ resolution' \in Resolution
      BY <1>4, <2>2, <2>3 DEF AfterPublish, Binding, TypeOK
    <2> QED BY <2>1, <2>4, <1>4 DEF AfterPublish, coordinator, TypeOK
  <1>5. CASE RotateSession(r)
    <2>1. op' \in [Requests -> Request]
      BY <1>a, <1>5, AnswerType DEF RotateSession, Results
    <2>2. session' \in [gen : Nat, live : BOOLEAN]
      <3>1. session' = session \/ session' = [gen |-> gen, live |-> TRUE]
        BY <1>5 DEF RotateSession
      <3>2. session \in [gen : Nat, live : BOOLEAN] /\ gen \in Nat
        BY DEF TypeOK
      <3>3. [gen |-> gen, live |-> TRUE] \in [gen : Nat, live : BOOLEAN]
        BY <3>2
      <3> QED BY <3>1, <3>2, <3>3, Zenon
    <2>3. /\ holder' = NoRequest
          /\ UNCHANGED <<store, gen, sequence, intentStop, work, binding, resolution, boot, handler>>
      BY <1>5 DEF RotateSession, state
    <2> QED BY <2>1, <2>2, <2>3 DEF TypeOK
  <1> QED BY <1>1, <1>2, <1>3, <1>4, <1>5

\* Close, Bootstrap and the session handler keep the types.
LEMMA EnvironmentType ==
    ASSUME TypeOK, Close \/ BootStep \/ (\E h \in Handlers : SessionStep(h))
    PROVE  TypeOK'
  <1>1. CASE Close
    <2>1. \A q \in Requests : [op[q] EXCEPT !.stop = TRUE] \in Request
      BY FieldTypes DEF TypeOK
    <2>2. op' \in [Requests -> Request]
      BY <1>1, <2>1 DEF Close, TypeOK
    <2>3. work' \in [gen : Nat, live : BOOLEAN] /\ intentStop' \in Requests \cup {NoRequest}
      BY <1>1 DEF Close, TypeOK
    <2>4. UNCHANGED <<store, gen, session, sequence, holder, binding, resolution, boot, handler>>
      BY <1>1 DEF Close, state
    <2> QED BY <2>2, <2>3, <2>4 DEF TypeOK
  <1>2. CASE BootResolve
    BY <1>2 DEF BootResolve, coordinator, state, TypeOK
  <1>3. CASE BootPersist
    BY <1>3 DEF BootPersist, coordinator, state, TypeOK
  <1>4. CASE BootInitialize
    <2>1. CASE binding.ctx = NoContext
      BY <1>4, <2>1 DEF BootInitialize, coordinator, TypeOK, Binding, Resolution, NoResolution
    <2>2. CASE binding.ctx # NoContext
      BY <1>4, <2>2 DEF BootInitialize, coordinator, state, TypeOK
    <2> QED BY <2>1, <2>2
  <1>5. CASE \E h \in Handlers : SessionStep(h)
    <2>1. PICK h \in Handlers : SessionStep(h)
      BY <1>5
    <2>2. session' \in [gen : Nat, live : BOOLEAN]
      <3>1. session' = session \/ session' = [gen |-> handler[h].gen, live |-> TRUE]
        BY <2>1 DEF SessionStep, SessionRead, SessionCurrent
      <3>2. session \in [gen : Nat, live : BOOLEAN] /\ handler[h].gen \in Nat
        BY DEF TypeOK
      <3>3. [gen |-> handler[h].gen, live |-> TRUE] \in [gen : Nat, live : BOOLEAN]
        BY <3>2
      <3> QED BY <3>1, <3>2, <3>3, Zenon
    <2>3. handler' \in [Handlers -> [pc : {"idle", "read"}, gen : Nat]]
      BY <2>1 DEF SessionStep, SessionRead, SessionCurrent, TypeOK
    <2>4. UNCHANGED <<store, gen, sequence, intentStop, work, holder, binding, resolution, op, boot>>
      BY <2>1 DEF SessionStep, SessionRead, SessionCurrent, coordinator, state
    <2> QED BY <2>2, <2>3, <2>4 DEF TypeOK
  <1> QED BY <1>1, <1>2, <1>3, <1>4, <1>5 DEF BootStep

\* TypeOK is inductive on its own.
LEMMA TypeStep == TypeOK /\ [Next]_vars => TypeOK'
  <1> SUFFICES ASSUME TypeOK, [Next]_vars PROVE TypeOK'
    OBVIOUS
  <1>1. ASSUME NEW r \in Requests, Compose(r) \/ ClientGone(r) \/ RequestStep(r)
        PROVE  TypeOK'
    <2>1. CASE \/ Compose(r) \/ ClientGone(r) \/ Begin(r) \/ Validate(r) \/ ReadBinding(r)
               \/ Prepare(r) \/ PrepareFails(r)
      BY <2>1, RequestType
    <2>2. CASE Commit(r)
      BY <2>2, CommitType
    <2>3. CASE \/ Rotate(r) \/ RotateFails(r) \/ RunHooks(r) \/ AfterPublish(r)
               \/ RotateSession(r)
      BY <2>3, PublicationType
    <2> QED BY <1>1, <2>1, <2>2, <2>3 DEF RequestStep
  <1>2. CASE Close \/ BootStep \/ (\E h \in Handlers : SessionStep(h))
    BY <1>2, EnvironmentType
  <1>3. CASE UNCHANGED vars
    BY <1>3 DEF vars, coordinator, state, TypeOK
  <1> QED BY <1>1, <1>2, <1>3 DEF Next

\* Every variable of the selection protocol keeps its type, for any number of
\* requests, contexts and scopes and with every fault.
THEOREM SelectionTypes == Spec => []TypeOK
  BY InitType, TypeStep, PTL DEF Spec

-----------------------------------------------------------------------------
(* The inductive invariant *)

\* Nothing is locked, submitted or published initially.
LEMMA InitFenced == Init => Fenced
  BY SelectionAssumption
     DEF Init, Fenced, LockInv, SequenceInv, PublicationInv, ExpectationInv, Rest, Unbound,
         ActivePCs, PrePCs, CommitPCs

\* A step that leaves the lock, the generation and the binding alone, and
\* moves one request forward before its commit without changing its place in
\* the sequence, preserves the invariant if it validates when it leaves
\* "begun".
LEMMA MoveFenced ==
    ASSUME TypeOK, Fenced, NEW r \in Requests, NEW o \in Request,
           op' = [op EXCEPT ![r] = o],
           op[r].pc \notin CommitPCs, o.pc \notin CommitPCs,
           o.pc \in PrePCs => /\ op[r].pc \in PrePCs
                              /\ o.seq = op[r].seq
                              /\ o.expected = op[r].expected,
           (o.pc \in PrePCs \ {"begun"} /\ op[r].pc = "begun") => Valid(r),
           UNCHANGED <<gen, sequence, holder, binding, work>>
    PROVE  Fenced'
  <1>1. \A q \in Requests : q # r => op'[q] = op[q]
    BY DEF TypeOK
  <1>2. op'[r] = o
    BY DEF TypeOK
  <1>3. holder # r
    BY SelectionAssumption DEF Fenced, LockInv
  <1>4. LockInv'
    BY <1>1, <1>2, <1>3 DEF Fenced, LockInv, TypeOK
  <1>5. SequenceInv'
    BY <1>1, <1>2, <1>3 DEF Fenced, SequenceInv, TypeOK, ActivePCs
  <1>6. PublicationInv'
    BY <1>1, <1>2, <1>3 DEF Fenced, PublicationInv, TypeOK
  <1>7. ExpectationInv'
    BY <1>1, <1>2, <1>3 DEF Fenced, ExpectationInv, TypeOK, Valid
  <1> QED BY <1>4, <1>5, <1>6, <1>7 DEF Fenced

\* Answering a request that is not committing preserves the invariant.
LEMMA AnswerFenced ==
    ASSUME TypeOK, Fenced, NEW r \in Requests, NEW res \in Results, Answer(r, res),
           op[r].pc \notin CommitPCs, UNCHANGED <<gen, sequence, holder, binding, work>>
    PROVE  Fenced'
  <1>1. Rest("done", res) \in Request
    BY RestType
  <1>2. Rest("done", res).pc = "done"
    BY DEF Rest
  <1> QED BY <1>1, <1>2, MoveFenced DEF Answer, PrePCs, CommitPCs

\* Moving a request between control points before the fence.
LEMMA GotoFenced ==
    ASSUME TypeOK, Fenced, NEW r \in Requests, NEW pc \in PrePCs, Goto(r, pc),
           op[r].pc \in PrePCs, op[r].pc = "begun" => Valid(r),
           UNCHANGED <<gen, sequence, holder, binding, work>>
    PROVE  Fenced'
  <1> DEFINE o == [op[r] EXCEPT !.pc = pc]
  <1>1. op[r] \in Request /\ op[r].pc \notin {"idle", "done"}
    BY DEF TypeOK, PrePCs
  <1>2. o \in Request
    BY <1>1, FieldTypes
  <1>3. o.pc = pc /\ o.seq = op[r].seq /\ o.expected = op[r].expected
    BY <1>1 DEF Request, RequestRecord
  <1>4. op' = [op EXCEPT ![r] = o]
    BY DEF Goto
  <1> HIDE DEF o
  <1> QED BY <1>2, <1>3, <1>4, MoveFenced DEF PrePCs, CommitPCs

\* A request before its commit preserves the invariant.
LEMMA RequestFenced ==
    ASSUME TypeOK, Fenced, NEW r \in Requests,
           Compose(r) \/ ClientGone(r) \/ Begin(r) \/ Validate(r) \/ ReadBinding(r)
           \/ Prepare(r) \/ PrepareFails(r) \/ FenceRejects(r)
    PROVE  Fenced'
  <1>a. op \in [Requests -> Request] /\ op[r] \in Request
    BY DEF TypeOK
  <1>1. CASE Compose(r)
    <2>1. TypeOK'
      BY <1>1, RequestType
    <2>2. PICK kind \in Kinds, ctx \in Contexts, id \in ScopeIDs \cup {NoScope},
               repl \in ScopeIDs \cup {NoScope}, setup \in BOOLEAN :
            op' = [op EXCEPT ![r] = Draft(kind, ctx, id, repl, setup)]
      BY <1>1, Zenon DEF Compose
    <2> DEFINE o == Draft(kind, ctx, id, repl, setup)
    <2>3. o.pc = "composed"
      BY DEF Draft
    <2>4. UNCHANGED <<gen, sequence, holder, binding, work>> /\ op[r].pc = "idle"
      BY <1>1 DEF Compose, coordinator, state
    <2> HIDE DEF o
    <2>5. op' = [op EXCEPT ![r] = o]
      BY <2>2 DEF o
    <2>6. o \in Request
      <3>1. op'[r] = o
        BY <1>a, <2>5
      <3> QED BY <2>1, <3>1 DEF TypeOK
    <2> QED BY <2>3, <2>4, <2>5, <2>6, MoveFenced DEF PrePCs, CommitPCs
  <1>2. CASE ClientGone(r)
    <2> DEFINE o == [op[r] EXCEPT !.stop = TRUE]
    <2>1. o.pc = op[r].pc /\ o.seq = op[r].seq /\ o.expected = op[r].expected
      BY <1>a DEF Request, RequestRecord
    <2>4. o \in Request
      BY <1>a, FieldTypes
    <2>2. op' = [op EXCEPT ![r] = o] /\ op[r].pc \in PrePCs
      BY <1>2 DEF ClientGone
    <2>3. UNCHANGED <<gen, sequence, holder, binding, work>>
      BY <1>2 DEF ClientGone, coordinator, state
    <2> HIDE DEF o
    <2> QED BY <2>1, <2>2, <2>3, <2>4, MoveFenced DEF PrePCs, CommitPCs
  <1>3. CASE Begin(r)
    <2>1. op[r].pc = "composed" /\ holder = NoRequest /\ sequence' = sequence + 1
      BY <1>3 DEF Begin, LockFree
    <2>2. UNCHANGED <<gen, holder, binding, work>>
      BY <1>3 DEF Begin, state
    <2>3. op'[r].pc = "begun" /\ op'[r].seq = sequence + 1
      BY <1>a, <1>3 DEF Begin, Request, RequestRecord
    <2>4. \A q \in Requests : q # r =>
            op'[q].pc = op[q].pc /\ op'[q].seq = op[q].seq /\ op'[q].expected = op[q].expected
      BY <1>a, <1>3 DEF Begin, Request, RequestRecord
    <2>5. LockInv'
      BY <2>1, <2>2, <2>3, <2>4 DEF Fenced, LockInv, CommitPCs
    <2>6. \A q \in Requests : op[q].seq \in Nat
      BY <1>a DEF Request, RequestRecord
    <2>7. sequence \in Nat
      BY DEF TypeOK
    <2>8. SequenceInv'
      BY <2>1, <2>2, <2>3, <2>4, <2>6, <2>7 DEF Fenced, SequenceInv, ActivePCs
    <2>9. PublicationInv'
      BY <2>1, <2>2 DEF Fenced, PublicationInv
    <2>10. ExpectationInv'
      BY <2>1, <2>2, <2>3, <2>4, <2>6, <2>7
         DEF Fenced, SequenceInv, ExpectationInv, ActivePCs
    <2> QED BY <2>5, <2>8, <2>9, <2>10 DEF Fenced
  <1>4. CASE Validate(r)
    <2>1. UNCHANGED <<gen, sequence, holder, binding, work>>
      BY <1>4 DEF Validate, coordinator, state
    <2>2. op[r].pc \in {"begun", "read", "prepared", "failing"}
      BY <1>4 DEF Validate
    <2>3. CASE Valid(r)
      <3>1. \/ Goto(r, "validated") \/ Goto(r, "preparing") \/ Goto(r, "ready")
            \/ Answer(r, "failed")
        BY <1>4, <2>3 DEF Validate
      <3> QED BY <2>1, <2>2, <2>3, <3>1, GotoFenced, AnswerFenced DEF PrePCs, CommitPCs, Results
    <2>4. CASE ~ Valid(r)
      <3>1. Answer(r, "conflict")
        BY <1>4, <2>4 DEF Validate
      <3> QED BY <2>1, <2>2, <3>1, AnswerFenced DEF CommitPCs, Results
    <2> QED BY <2>3, <2>4
  <1>5. CASE ReadBinding(r)
    <2>1. UNCHANGED <<gen, sequence, holder, binding, work>> /\ op[r].pc = "validated"
      BY <1>5 DEF ReadBinding, coordinator, state
    <2>2. CASE binding.gen = op[r].expected
      <3> DEFINE o == [op[r] EXCEPT !.pc = "read", !.seen = binding]
      <3>1. binding \in Binding
        BY DEF TypeOK
      <3>2. o \in Request
        BY <1>a, <2>1, <3>1, FieldTypes
      <3>3. o.pc = "read" /\ o.seq = op[r].seq /\ o.expected = op[r].expected
        BY <1>a DEF Request, RequestRecord
      <3>4. op' = [op EXCEPT ![r] = o]
        BY <1>5, <2>2 DEF ReadBinding
      <3> HIDE DEF o
      <3> QED BY <2>1, <3>2, <3>3, <3>4, MoveFenced DEF PrePCs, CommitPCs
    <2>3. CASE binding.gen # op[r].expected
      BY <1>5, <2>1, <2>3, AnswerFenced DEF ReadBinding, CommitPCs, Results
    <2> QED BY <2>2, <2>3
  <1>6. CASE Prepare(r)
    <2> DEFINE o == [op[r] EXCEPT !.pc = "prepared", !.prep = PreparedVersion(op[r], store.rows)]
    <2>1. UNCHANGED <<gen, sequence, holder, binding, work>> /\ op[r].pc = "preparing"
      BY <1>6 DEF Prepare, coordinator, state
    <2>2. PreparedVersion(op[r], store.rows) \in Nat
      BY <1>a, PreparedVersionType DEF TypeOK
    <2>3. o \in Request
      BY <1>a, <2>1, <2>2, FieldTypes
    <2>4. o.pc = "prepared" /\ o.seq = op[r].seq /\ o.expected = op[r].expected
      BY <1>a DEF Request, RequestRecord
    <2>5. op' = [op EXCEPT ![r] = o]
      BY <1>6 DEF Prepare
    <2> HIDE DEF o
    <2> QED BY <2>1, <2>3, <2>4, <2>5, MoveFenced DEF PrePCs, CommitPCs
  <1>7. CASE PrepareFails(r)
    <2>1. UNCHANGED <<gen, sequence, holder, binding, work>> /\ op[r].pc = "preparing"
      BY <1>7 DEF PrepareFails, coordinator, state
    <2> QED BY <1>7, <2>1, GotoFenced DEF PrepareFails, PrePCs
  <1>8. CASE FenceRejects(r)
    <2>1. UNCHANGED <<gen, sequence, holder, binding, work>> /\ op[r].pc = "ready"
      BY <1>8 DEF FenceRejects, coordinator, state
    <2> QED BY <1>8, <2>1, AnswerFenced DEF FenceRejects, CommitPCs, Results
  <1> QED BY <1>1, <1>2, <1>3, <1>4, <1>5, <1>6, <1>7, <1>8

\* The fence lets only the newest intent take the lock.
LEMMA PublishFenced ==
    ASSUME TypeOK, Fenced, NEW r \in Requests, NEW act \in Resolution,
           Fence(r), Publish(r, act), UNCHANGED <<gen, sequence, binding, work>>
    PROVE  Fenced'
  <1> DEFINE o == [op[r] EXCEPT !.pc = "rotate", !.act = act]
  <1>1. op \in [Requests -> Request] /\ op[r] \in Request
    BY DEF TypeOK
  <1>2. /\ op[r].pc = "ready" /\ holder = NoRequest /\ op[r].seq = sequence
        /\ op[r].expected = gen /\ binding.gen = gen
    BY DEF Fence, LockFree, Valid, Newest
  <1>3. op'[r] = o /\ holder' = r
    BY <1>1 DEF Publish
  <1>4. o.pc = "rotate" /\ o.seq = op[r].seq /\ o.expected = op[r].expected
    BY <1>1 DEF Request, RequestRecord
  <1>5. \A q \in Requests : q # r => op'[q] = op[q]
    BY <1>1 DEF Publish
  <1> HIDE DEF o
  <1>6. LockInv'
    BY <1>2, <1>3, <1>4, <1>5, SelectionAssumption DEF Fenced, LockInv, CommitPCs
  <1>7. SequenceInv'
    BY <1>2, <1>3, <1>4, <1>5 DEF Fenced, SequenceInv, ActivePCs, PrePCs, CommitPCs
  <1>8. PublicationInv'
    BY <1>2, <1>3, <1>4, <1>5 DEF Fenced, PublicationInv
  <1>9. ExpectationInv'
    BY <1>2, <1>3, <1>4, <1>5 DEF Fenced, ExpectationInv, PrePCs
  <1> QED BY <1>6, <1>7, <1>8, <1>9 DEF Fenced

\* The transactions preserve the invariant.
LEMMA CommitFenced ==
    ASSUME TypeOK, Fenced, NEW r \in Requests, Commit(r)
    PROVE  Fenced'
  <1>f. CommitFrame => UNCHANGED <<gen, sequence, binding, work>>
    BY DEF CommitFrame, state
  <1>a. op[r] \in Request /\ store.rows \in Table
    BY DEF TypeOK
  <1>s. ASSUME NEW res \in Results, Answer(r, res), Fence(r), UNCHANGED holder, CommitFrame
        PROVE  Fenced'
    BY <1>s, <1>f, AnswerFenced DEF Fence, CommitPCs
  <1>o. "ok" \in Results /\ "failed" \in Results
    BY DEF Results
  <1>k. op[r].kind \in ScopedKinds => op[r].scope \in ScopeIDs
    BY <1>a DEF Request, RequestRecord
  <1>v. op[r].ver \in Nat /\ op[r].prep \in Nat /\ op[r].repl \in ScopeIDs \cup {NoScope}
    BY <1>a DEF Request, RequestRecord
  <1>1. CASE CommitContext(r)
    BY <1>1, <1>f, PublishFenced DEF CommitContext, NoResolution, Resolution
  <1>2. CASE CommitContextUnread(r)
    BY <1>2, <1>o, <1>s DEF CommitContextUnread
  <1>3. CASE CommitCreate(r)
    BY <1>3, <1>o, <1>s DEF CommitCreate, StorageOnly
  <1>4. CASE CommitCheck(r)
    BY <1>4, <1>o, <1>s DEF CommitCheck, StorageOnly
  <1>5. CASE CommitUpdate(r)
    <2>1. [scope |-> op[r].scope, ver |-> op[r].ver + 1] \in Resolution
      BY <1>5, <1>k, <1>v DEF CommitUpdate, ScopedKinds, Resolution
    <2>2. CASE binding.scope = op[r].scope
      BY <1>5, <2>1, <2>2, <1>f, PublishFenced DEF CommitUpdate
    <2>3. CASE binding.scope # op[r].scope
      BY <1>5, <2>3, <1>o, <1>s DEF CommitUpdate, StorageOnly
    <2> QED BY <2>2, <2>3
  <1>6. CASE CommitDelete(r)
    <2>1. [scope |-> op[r].repl, ver |-> op[r].prep] \in Resolution
      BY <1>v DEF Resolution
    <2>2. CASE binding.scope = op[r].scope
      BY <1>6, <2>1, <2>2, <1>f, PublishFenced DEF CommitDelete
    <2>3. CASE binding.scope # op[r].scope
      BY <1>6, <2>3, <1>o, <1>s DEF CommitDelete, StorageOnly
    <2> QED BY <2>2, <2>3
  <1>7. CASE CommitSelect(r)
    <2>1. [scope |-> op[r].scope, ver |-> store.rows[op[r].scope].ver] \in Resolution
      BY <1>7, <1>a, <1>k, VersionType DEF CommitSelect, ScopedKinds, Resolution
    <2> QED BY <1>7, <2>1, <1>f, PublishFenced DEF CommitSelect
  <1>8. CASE CommitFails(r)
    BY <1>8, <1>o, <1>s DEF CommitFails
  <1>9. CASE FenceRejects(r)
    BY <1>9, RequestFenced
  <1> QED BY <1>1, <1>2, <1>3, <1>4, <1>5, <1>6, <1>7, <1>8, <1>9 DEF Commit

\* A step of the lock holder inside the commit.
LEMMA PublicationFenced ==
    ASSUME TypeOK, Fenced, NEW r \in Requests,
           Rotate(r) \/ RotateFails(r) \/ RunHooks(r) \/ AfterPublish(r) \/ RotateSession(r)
    PROVE  Fenced'
  <1>a. op \in [Requests -> Request] /\ op[r] \in Request
    BY DEF TypeOK
  <1>b. op[r].pc \in CommitPCs
    BY DEF Rotate, RotateFails, RunHooks, AfterPublish, RotateSession, CommitPCs
  <1>c. holder = r /\ holder # NoRequest /\ op[r].seq = sequence
    BY <1>b, SelectionAssumption DEF Fenced, LockInv, SequenceInv
  <1>d. \A q \in Requests : q # r => op[q].pc \notin CommitPCs
    BY <1>c DEF Fenced, LockInv
  <1>e. \A q \in Requests : (q # r /\ op[q].pc \in PrePCs) => op[q].seq # sequence
    BY <1>b, <1>c DEF Fenced, SequenceInv, ActivePCs
  <1>g. ASSUME NEW pc \in CommitPCs, Goto(r, pc)
        PROVE  /\ op'[r].pc = pc /\ op'[r].seq = op[r].seq /\ op'[r].expected = op[r].expected
               /\ \A q \in Requests : q # r => op'[q] = op[q]
    BY <1>a, <1>g DEF Goto, Request, RequestRecord
  <1>m. ASSUME NEW pc \in CommitPCs, Goto(r, pc), UNCHANGED <<sequence, holder>>
        PROVE  LockInv' /\ SequenceInv' /\ ExpectationInv'
    <2>1. LockInv'
      BY <1>c, <1>d, <1>g, <1>m DEF LockInv
    <2>2. SequenceInv'
      BY <1>b, <1>c, <1>g, <1>m DEF Fenced, SequenceInv, ActivePCs
    <2>3. ExpectationInv'
      BY <1>e, <1>g, <1>m DEF ExpectationInv, PrePCs, CommitPCs
    <2> QED BY <2>1, <2>2, <2>3
  <1>x. ASSUME NEW res \in Results, Answer(r, res), holder' = NoRequest, UNCHANGED sequence
        PROVE  LockInv' /\ SequenceInv' /\ ExpectationInv'
    <2>1. op'[r].pc = "done" /\ \A q \in Requests : q # r => op'[q] = op[q]
      BY <1>a, <1>x DEF Answer, Rest
    <2>2. LockInv'
      BY <1>d, <1>x, <2>1 DEF LockInv, CommitPCs
    <2>3. SequenceInv'
      BY <1>x, <2>1 DEF Fenced, SequenceInv, ActivePCs, PrePCs, CommitPCs
    <2>4. ExpectationInv'
      BY <1>e, <1>x, <2>1 DEF ExpectationInv, PrePCs
    <2> QED BY <2>2, <2>3, <2>4
  <1>1. CASE Rotate(r)
    <2>1. Goto(r, "hooks") /\ gen' = gen + 1 /\ UNCHANGED <<sequence, holder, binding, work>>
      BY <1>1 DEF Rotate, coordinator, state
    <2>2. PublicationInv'
      BY <1>c, <1>g, <2>1 DEF PublicationInv, CommitPCs
    <2> QED BY <2>1, <2>2, <1>m DEF Fenced, CommitPCs
  <1>2. CASE RotateFails(r)
    <2>1. /\ Answer(r, "published") /\ holder' = NoRequest /\ op[r].pc = "rotate"
          /\ UNCHANGED <<gen, sequence, binding, work>>
      BY <1>2 DEF RotateFails, state
    <2>2. PublicationInv'
      BY <1>c, <2>1 DEF Fenced, PublicationInv
    <2> QED BY <2>1, <2>2, <1>x DEF Fenced, Results
  <1>3. CASE RunHooks(r)
    <2>1. /\ Goto(r, "bind") /\ work' = [gen |-> gen, live |-> TRUE]
          /\ UNCHANGED <<gen, sequence, holder, binding>>
      BY <1>3 DEF RunHooks, state
    <2>2. PublicationInv'
      BY <1>c, <1>g, <2>1 DEF PublicationInv, CommitPCs
    <2> QED BY <2>1, <2>2, <1>m DEF Fenced, CommitPCs
  <1>4. CASE AfterPublish(r)
    <2>1. /\ Goto(r, "nonce") /\ binding'.gen = gen /\ op[r].pc = "bind"
          /\ UNCHANGED <<gen, sequence, holder, work>>
      BY <1>4 DEF AfterPublish, coordinator
    <2>2. PublicationInv'
      BY <1>c, <1>g, <2>1 DEF Fenced, PublicationInv, CommitPCs
    <2> QED BY <2>1, <2>2, <1>m DEF Fenced, CommitPCs
  <1>5. CASE RotateSession(r)
    <2>1. /\ \E res \in Results : Answer(r, res)
          /\ holder' = NoRequest /\ op[r].pc = "nonce"
          /\ UNCHANGED <<gen, sequence, binding, work>>
      BY <1>5 DEF RotateSession, state, Results
    <2>2. PublicationInv'
      BY <1>c, <2>1 DEF Fenced, PublicationInv
    <2> QED BY <2>1, <2>2, <1>x DEF Fenced
  <1> QED BY <1>1, <1>2, <1>3, <1>4, <1>5

\* Close, Bootstrap and the session handler preserve the invariant.
LEMMA EnvironmentFenced ==
    ASSUME TypeOK, Fenced, Close \/ BootStep \/ (\E h \in Handlers : SessionStep(h))
    PROVE  Fenced'
  <1>1. CASE Close
    <2>1. /\ holder = NoRequest /\ UNCHANGED <<gen, sequence, holder, binding>>
          /\ work' = [work EXCEPT !.live = FALSE]
      BY <1>1 DEF Close, LockFree, state
    <2>2. \A q \in Requests :
            op'[q].pc = op[q].pc /\ op'[q].seq = op[q].seq /\ op'[q].expected = op[q].expected
      BY <1>1 DEF Close, TypeOK, Request, RequestRecord
    <2>3. ~ work'.live
      BY <2>1 DEF TypeOK
    <2>4. LockInv'
      BY <2>1, <2>2 DEF Fenced, LockInv
    <2>5. SequenceInv'
      BY <2>1, <2>2 DEF Fenced, SequenceInv
    <2>6. PublicationInv'
      BY <2>1, <2>3 DEF Fenced, PublicationInv
    <2>7. ExpectationInv'
      BY <2>1, <2>2 DEF Fenced, ExpectationInv
    <2> QED BY <2>4, <2>5, <2>6, <2>7 DEF Fenced
  <1>2. CASE BootStep \/ (\E h \in Handlers : SessionStep(h))
    <2>1. UNCHANGED <<gen, sequence, holder, op, work>>
      BY <1>2 DEF BootStep, BootResolve, BootPersist, BootInitialize, SessionStep, SessionRead,
         SessionCurrent, coordinator
    <2>2. binding' = binding \/ binding'.gen = gen
      BY <1>2 DEF BootStep, BootResolve, BootPersist, BootInitialize, SessionStep, SessionRead,
         SessionCurrent, state
    <2>3. PublicationInv'
      BY <2>1, <2>2 DEF Fenced, PublicationInv
    <2>4. LockInv' /\ SequenceInv' /\ ExpectationInv'
      BY <2>1 DEF Fenced, LockInv, SequenceInv, ExpectationInv
    <2> QED BY <2>3, <2>4 DEF Fenced
  <1> QED BY <1>1, <1>2

\* The fencing invariant is inductive, given the types.
LEMMA FencedStep == TypeOK /\ Fenced /\ [Next]_vars => Fenced'
  <1> SUFFICES ASSUME TypeOK, Fenced, [Next]_vars PROVE Fenced'
    OBVIOUS
  <1>1. ASSUME NEW r \in Requests, Compose(r) \/ ClientGone(r) \/ RequestStep(r)
        PROVE  Fenced'
    <2>1. CASE \/ Compose(r) \/ ClientGone(r) \/ Begin(r) \/ Validate(r) \/ ReadBinding(r)
               \/ Prepare(r) \/ PrepareFails(r)
      BY <2>1, RequestFenced
    <2>2. CASE Commit(r)
      BY <2>2, CommitFenced
    <2>3. CASE \/ Rotate(r) \/ RotateFails(r) \/ RunHooks(r) \/ AfterPublish(r)
               \/ RotateSession(r)
      BY <2>3, PublicationFenced
    <2> QED BY <1>1, <2>1, <2>2, <2>3 DEF RequestStep
  <1>2. CASE Close \/ BootStep \/ (\E h \in Handlers : SessionStep(h))
    BY <1>2, EnvironmentFenced
  <1>3. CASE UNCHANGED vars
    BY <1>3 DEF vars, coordinator, state, Fenced, LockInv, SequenceInv, PublicationInv,
       ExpectationInv
  <1> QED BY <1>1, <1>2, <1>3 DEF Next

\* The fencing invariant holds in every reachable state.
THEOREM SelectionFenced == Spec => [](TypeOK /\ Fenced)
  <1>1. Init => TypeOK /\ Fenced
    BY InitType, InitFenced
  <1>2. TypeOK /\ Fenced /\ [Next]_vars => (TypeOK /\ Fenced)'
    BY TypeStep, FencedStep
  <1> QED BY <1>1, <1>2, PTL DEF Spec

-----------------------------------------------------------------------------
(* What the invariant gives *)

\* State and GenerationStore name the same generation whenever Coordinator.mu
\* is free, for any number of racing requests and with every fault.
THEOREM SelectionAgreement == Spec => []GenerationAgreement
  <1>1. Fenced => GenerationAgreement
    BY DEF Fenced, PublicationInv, GenerationAgreement, LockFree
  <1> QED BY <1>1, SelectionFenced, PTL

\* Generation-scoped work outlives its generation only while the commit that
\* replaces it still holds Coordinator.mu.
THEOREM SelectionWork == Spec => []WorkFollowsGeneration
  <1>1. Fenced => WorkFollowsGeneration
    BY DEF Fenced, PublicationInv, WorkFollowsGeneration, LockFree
  <1> QED BY <1>1, SelectionFenced, PTL

\* The newest intent is never turned away for a generation change it did not
\* cause.
THEOREM SelectionUndisturbed == Spec => []NewestIntentUndisturbed
  <1>1. TypeOK /\ Fenced => NewestIntentUndisturbed
    <2> SUFFICES ASSUME TypeOK, Fenced, NEW r \in Requests,
                        op[r].pc \in PrePCs \ {"begun"}, op[r].seq = sequence
                 PROVE  op[r].expected = gen /\ binding.gen = gen
      BY DEF NewestIntentUndisturbed
    <2>1. op[r].expected = gen
      BY DEF Fenced, ExpectationInv
    <2>2. holder = NoRequest
      <3> SUFFICES ASSUME holder # NoRequest PROVE FALSE
        OBVIOUS
      <3>1. holder \in Requests /\ op[holder].pc \in CommitPCs /\ op[holder].seq = sequence
        BY DEF TypeOK, Fenced, LockInv, SequenceInv
      <3>2. holder = r
        BY <3>1 DEF Fenced, SequenceInv, ActivePCs
      <3> QED BY <3>1, <3>2 DEF PrePCs, CommitPCs
    <2> QED BY <2>1, <2>2 DEF Fenced, PublicationInv
  <1> QED BY <1>1, SelectionFenced, PTL

\* Only Rotate moves the generation.
LEMMA GenerationStep ==
    ASSUME TypeOK, [Next]_vars, gen' # gen
    PROVE  \E r \in Requests : Rotate(r)
  <1>1. ASSUME NEW r \in Requests, Compose(r) \/ ClientGone(r) \/ RequestStep(r)
        PROVE  Rotate(r)
    <2>1. ~ (Compose(r) \/ ClientGone(r) \/ Begin(r) \/ Validate(r) \/ ReadBinding(r)
             \/ Prepare(r) \/ PrepareFails(r))
      BY DEF Compose, ClientGone, Begin, Validate, ReadBinding, Prepare, PrepareFails
    <2>2. ~ Commit(r)
      BY DEF Commit, CommitContext, CommitContextUnread, CommitCreate, CommitCheck, CommitUpdate,
         CommitDelete, CommitSelect, CommitFails, FenceRejects, CommitFrame
    <2>3. ~ (RotateFails(r) \/ RunHooks(r) \/ AfterPublish(r) \/ RotateSession(r))
      BY DEF RotateFails, RunHooks, AfterPublish, RotateSession
    <2> QED BY <1>1, <2>1, <2>2, <2>3 DEF RequestStep
  <1>2. ~ (Close \/ BootStep \/ (\E h \in Handlers : SessionStep(h)))
    BY DEF Close, BootStep, BootResolve, BootPersist, BootInitialize, SessionStep, SessionRead,
       SessionCurrent
  <1>3. ~ UNCHANGED vars
    BY DEF vars
  <1> QED BY <1>1, <1>2, <1>3 DEF Next

\* Only the newest intent publishes a generation, and it replaces exactly the
\* generation its client saw.
THEOREM SelectionNewest == Spec => OnlyNewestPublishes
  <1>1. TypeOK /\ Fenced /\ [Next]_vars =>
          [gen' # gen =>
             /\ gen' = gen + 1
             /\ \E r \in Requests :
                  holder = r /\ op[r].seq = sequence /\ op[r].expected = gen]_vars
    <2> SUFFICES ASSUME TypeOK, Fenced, [Next]_vars, gen' # gen
                 PROVE  /\ gen' = gen + 1
                        /\ \E r \in Requests :
                             holder = r /\ op[r].seq = sequence /\ op[r].expected = gen
      OBVIOUS
    <2>1. PICK r \in Requests : Rotate(r)
      BY GenerationStep
    <2>2. gen' = gen + 1 /\ op[r].pc = "rotate"
      BY <2>1 DEF Rotate
    <2>3. holder = r /\ holder # NoRequest
      BY <2>2, SelectionAssumption DEF Fenced, LockInv, CommitPCs
    <2>4. op[r].seq = sequence /\ op[r].expected = gen
      BY <2>2, <2>3 DEF Fenced, SequenceInv, PublicationInv
    <2> QED BY <2>2, <2>3, <2>4
  <1> QED BY <1>1, SelectionFenced, PTL DEF Spec, OnlyNewestPublishes

\* Binding and generation-scoped work follow the generation store whenever
\* Coordinator.mu is free.
THEOREM SelectionFollows == Spec => []StateFollowsGeneration
  <1>1. GenerationAgreement /\ WorkFollowsGeneration => StateFollowsGeneration
    BY DEF StateFollowsGeneration
  <1> QED BY <1>1, SelectionAgreement, SelectionWork, PTL

\* The newest intent wins: it alone publishes, and nothing but a newer one makes
\* it stale.
THEOREM SelectionNewestWins == Spec => NewestIntentWins
  BY SelectionUndisturbed, SelectionNewest DEF NewestIntentWins
-----------------------------------------------------------------------------
(* The database and the binding *)

\* What binding context ctx with resolution res asks of the database.
Coherent(st, ctx, res) ==
    /\ ctx # NoContext => st.ctx = ctx
    /\ res.scope # NoScope =>
         /\ Exists(st.rows, res.scope) /\ st.rows[res.scope].ctx = ctx
         /\ st.rows[res.scope].ver = res.ver

\* The context that afterPublish will bind.
NextContext(o) == IF o.kind = "context" THEN o.ctx ELSE binding.ctx

Unpublished(o) == o.pc \in {"rotate", "hooks", "bind"}

\* Until Bootstrap is over nothing is bound and nobody asks.
BootInv ==
    boot.pc \notin {"bound", "unbound"} =>
        /\ binding.ctx = NoContext
        /\ \A r \in Requests : op[r].pc = "idle"
        /\ boot.pc = "initialize" => store.ctx = boot.ctx

\* A scope is not its own replacement: prepare records no version for it.
PrepInv == \A r \in Requests : op[r].kind = "delete" /\ op[r].repl = op[r].scope => op[r].prep = 0

\* While a commit is under way the database is ahead of the binding, by exactly
\* what afterPublish is about to bind.
AheadInv ==
    \/ /\ holder # NoRequest /\ Unpublished(op[holder])
       /\ Coherent(store, NextContext(op[holder]), op[holder].act)
    \/ /\ holder # NoRequest => op[holder].pc = "nonce"
       /\ Coherent(store, binding.ctx, resolution)

\* With TypeOK and Fenced, inductive without the faults that lose a commit.
StoreInv == BootInv /\ PrepInv /\ binding.scope = resolution.scope /\ AheadInv

\* A row, or the absence of one.
AnyRow == [ctx : Contexts \cup {NoContext}, ver : Nat, def : BOOLEAN]

LEMMA AnyRowType ==
    ASSUME NEW rows \in Table, NEW id \in ScopeIDs PROVE rows[id] \in AnyRow
  <1>1. CASE rows[id] \in Row
    BY <1>1 DEF Row, AnyRow
  <1>2. CASE rows[id] = Absent
    BY <1>2 DEF Absent, AnyRow
  <1> QED BY <1>1, <1>2 DEF Table

\* What the transactions do to the rows they are not about.
LEMMA RowsKept ==
    ASSUME NEW rows \in Table, NEW id \in ScopeIDs
    PROVE  /\ \A c \in Contexts, other \in ScopeIDs : other # id => CreateRow(rows, id, c)[other] = rows[other]
           /\ \A other \in ScopeIDs : other # id => UpdateRow(rows, id)[other] = rows[other]
           /\ UpdateRow(rows, id)[id].ver = rows[id].ver + 1 /\ UpdateRow(rows, id)[id].ctx = rows[id].ctx
           /\ UpdateRow(rows, id)[id].def = rows[id].def
           /\ \A other \in ScopeIDs :
                SetDefaultRow(rows, id)[other].ver = rows[other].ver /\ SetDefaultRow(rows, id)[other].ctx = rows[other].ctx
           /\ \A repl \in ScopeIDs \cup {NoScope}, other \in ScopeIDs : other # id =>
                /\ DeleteRow(rows, id, repl)[other].ver = rows[other].ver
                /\ DeleteRow(rows, id, repl)[other].ctx = rows[other].ctx
  <1>0. \A other \in ScopeIDs : rows[other] \in AnyRow
    BY AnyRowType
  <1>1. \A c \in Contexts, other \in ScopeIDs : other # id => CreateRow(rows, id, c)[other] = rows[other]
    BY DEF CreateRow, Table
  <1>2. /\ \A other \in ScopeIDs : other # id => UpdateRow(rows, id)[other] = rows[other]
        /\ UpdateRow(rows, id)[id] = [rows[id] EXCEPT !.ver = rows[id].ver + 1]
    BY DEF UpdateRow, Table
  <1>3. /\ UpdateRow(rows, id)[id].ver = rows[id].ver + 1 /\ UpdateRow(rows, id)[id].ctx = rows[id].ctx
        /\ UpdateRow(rows, id)[id].def = rows[id].def
    BY <1>0, <1>2 DEF AnyRow
  <1>4. \A other \in ScopeIDs :
          SetDefaultRow(rows, id)[other].ver = rows[other].ver /\ SetDefaultRow(rows, id)[other].ctx = rows[other].ctx
    BY <1>0 DEF SetDefaultRow, AnyRow
  <1>5. ASSUME NEW repl \in ScopeIDs \cup {NoScope}, NEW other \in ScopeIDs, other # id
        PROVE  /\ DeleteRow(rows, id, repl)[other].ver = rows[other].ver
               /\ DeleteRow(rows, id, repl)[other].ctx = rows[other].ctx
    BY <1>0, <1>5 DEF DeleteRow, AnyRow
  <1> QED BY <1>1, <1>2, <1>3, <1>4, <1>5

\* No transaction leaves a context with two defaults: the index never objects.
LEMMA DefaultsKept ==
    ASSUME NEW rows \in Table, OneDefault(rows), NEW id \in ScopeIDs
    PROVE  /\ \A c \in Contexts : OneDefault(CreateRow(rows, id, c))
           /\ OneDefault(UpdateRow(rows, id))
           /\ OneDefault(SetDefaultRow(rows, id))
           /\ OneDefault(DeleteRow(rows, id, NoScope))
           /\ \A heir \in ScopeIDs :
                rows[id].def /\ rows[heir].ctx = rows[id].ctx /\ heir # id => OneDefault(DeleteRow(rows, id, heir))
  <1>0. \A other \in ScopeIDs : rows[other] \in AnyRow
    BY AnyRowType
  <1>1. ASSUME NEW c \in Contexts PROVE OneDefault(CreateRow(rows, id, c))
    <2>1. \A other \in ScopeIDs : CreateRow(rows, id, c)[other].def => other # id /\ CreateRow(rows, id, c)[other] = rows[other]
      BY DEF CreateRow, Table
    <2> QED BY <2>1 DEF OneDefault
  <1>2. OneDefault(UpdateRow(rows, id))
    <2>1. \A other \in ScopeIDs : UpdateRow(rows, id)[other].def = rows[other].def /\ UpdateRow(rows, id)[other].ctx = rows[other].ctx
      BY RowsKept
    <2> QED BY <2>1, Zenon DEF OneDefault
  <1>3. OneDefault(SetDefaultRow(rows, id))
    <2> DEFINE s == SetDefaultRow(rows, id)
    <2>1. \A other \in ScopeIDs : s[other].ctx = rows[other].ctx
      BY RowsKept
    <2>2. \A other \in ScopeIDs : s[other].def /\ other # id => rows[other].ctx # rows[id].ctx /\ rows[other].def
      BY <1>0 DEF SetDefaultRow, AnyRow
    <2> HIDE DEF s
    <2>3. OneDefault(s)
      BY <2>1, <2>2 DEF OneDefault
    <2> QED BY <2>3 DEF s
  <1>4. OneDefault(DeleteRow(rows, id, NoScope))
    <2> DEFINE s == DeleteRow(rows, id, NoScope)
    <2>1. \A other \in ScopeIDs : s[other].def => other # id /\ s[other] = rows[other]
      BY DEF DeleteRow, Absent, ScopeIDs, NoScope
    <2> HIDE DEF s
    <2>3. OneDefault(s)
      BY <2>1 DEF OneDefault
    <2> QED BY <2>3 DEF s
  <1>5. ASSUME NEW heir \in ScopeIDs, rows[id].def, rows[heir].ctx = rows[id].ctx, heir # id
        PROVE  OneDefault(DeleteRow(rows, id, heir))
    <2> DEFINE s == DeleteRow(rows, id, heir)
    <2>1. \A other \in ScopeIDs : s[other].def /\ other # heir => other # id /\ s[other] = rows[other]
      BY DEF DeleteRow, Absent
    <2>2. s[heir].ctx = rows[heir].ctx
      BY <1>5, RowsKept
    <2> HIDE DEF s
    <2>3. OneDefault(s)
      BY <1>5, <2>1, <2>2 DEF OneDefault
    <2> QED BY <2>3 DEF s
  <1> QED BY <1>1, <1>2, <1>3, <1>4, <1>5

\* The rows that a commit writes.
LEMMA CommitRows ==
    ASSUME TypeOK, NEW r \in Requests, Commit(r), OneDefault(store.rows)
    PROVE  OneDefault(store'.rows)
  <1>a. op[r] \in Request /\ store.rows \in Table /\ store \in [ctx : Contexts \cup {NoContext}, rows : Table]
    BY DEF TypeOK
  <1>k. op[r].kind \in ScopedKinds => op[r].scope \in ScopeIDs
    BY <1>a DEF Request, RequestRecord
  <1>v. op[r].repl \in ScopeIDs \cup {NoScope} /\ op[r].pc = "ready" /\ op[r].ctx \in Contexts
    BY <1>a DEF Request, RequestRecord, Commit, CommitContext, CommitContextUnread, CommitCreate, CommitCheck,
       CommitUpdate, CommitDelete, CommitSelect, CommitFails, Fence, FenceRejects
  <1>1. CASE CommitContext(r) \/ CommitContextUnread(r) \/ CommitCheck(r) \/ CommitFails(r) \/ FenceRejects(r)
    BY <1>1, <1>a DEF CommitContext, CommitContextUnread, CommitCheck, CommitFails, FenceRejects
  <1>2. CASE CommitCreate(r)
    <2>1. PICK id \in ScopeIDs : store' = [store EXCEPT !.rows = CreateRow(@, id, op[r].ctx)]
      BY <1>2 DEF CommitCreate
    <2>2. store'.rows = CreateRow(store.rows, id, op[r].ctx)
      BY <1>a, <2>1
    <2> QED BY <1>a, <1>v, <2>2, DefaultsKept
  <1>3. CASE CommitUpdate(r)
    <2>1. store'.rows = UpdateRow(store.rows, op[r].scope) /\ op[r].scope \in ScopeIDs
      BY <1>a, <1>k, <1>3 DEF CommitUpdate, ScopedKinds
    <2> QED BY <1>a, <2>1, DefaultsKept
  <1>4. CASE CommitDelete(r)
    <2> DEFINE id == op[r].scope
               heir == IF op[r].repl # NoScope /\ store.rows[id].def THEN op[r].repl ELSE NoScope
    <2>1. /\ store'.rows = DeleteRow(store.rows, id, heir) /\ id \in ScopeIDs
          /\ MayDeleteRow(store.rows, id, op[r].ver, heir)
      BY <1>a, <1>k, <1>4 DEF CommitDelete, ScopedKinds
    <2>2. heir = NoScope \/ (heir \in ScopeIDs /\ store.rows[id].def /\ heir # NoScope)
      BY <1>v
    <2> HIDE DEF heir, id
    <2>3. CASE heir = NoScope
      BY <1>a, <2>1, <2>3, DefaultsKept
    <2>4. CASE heir # NoScope
      <3>1. heir # id /\ store.rows[heir].ctx = store.rows[id].ctx
        BY <2>1, <2>4 DEF MayDeleteRow
      <3> QED BY <1>a, <2>1, <2>2, <2>4, <3>1, DefaultsKept
    <2> QED BY <2>3, <2>4
  <1>5. CASE CommitSelect(r)
    <2>1. op[r].scope \in ScopeIDs /\ (store'.rows = store.rows \/ store'.rows = SetDefaultRow(store.rows, op[r].scope))
      BY <1>a, <1>k, <1>5 DEF CommitSelect, ScopedKinds
    <2> QED BY <1>a, <2>1, DefaultsKept
  <1> QED BY <1>1, <1>2, <1>3, <1>4, <1>5 DEF Commit

\* Whatever fails and whoever races, no context has two default scopes.
THEOREM SelectionOneDefault == Spec => []OneDefaultScope
  <1>1. Init => OneDefault(store.rows)
    BY SelectionAssumption DEF Init
  <1>2. TypeOK /\ OneDefault(store.rows) /\ [Next]_vars => OneDefault(store.rows)'
    <2> SUFFICES ASSUME TypeOK, OneDefault(store.rows), [Next]_vars PROVE OneDefault(store'.rows)
      BY DEF OneDefault
    <2>1. CASE \E r \in Requests : Commit(r)
      BY <2>1, CommitRows
    <2>2. CASE store'.rows = store.rows
      BY <2>2
    <2>3. CASE ~ \E r \in Requests : Commit(r)
      <3>1. store' = store \/ store' = [store EXCEPT !.ctx = boot.ctx]
        BY <2>3 DEF Next, RequestStep, Compose, ClientGone, Begin, Validate, ReadBinding, Prepare, PrepareFails,
           Rotate, RotateFails, RunHooks, AfterPublish, RotateSession, Close, BootStep, BootResolve, BootPersist,
           BootInitialize, SessionStep, SessionRead, SessionCurrent, vars
      <3> QED BY <2>2, <3>1 DEF TypeOK
    <2> QED BY <2>1, <2>3
  <1>3. OneDefault(store.rows) => OneDefaultScope
    BY DEF OneDefaultScope
  <1> QED BY <1>1, <1>2, <1>3, SelectionTypes, PTL DEF Spec

-----------------------------------------------------------------------------
(* The database and the binding agree *)

\* Without these faults a commit that is durable is published, and nobody
\* writes beside the coordinator.
NothingLost == Faults \cap {"rotate", "reread", "async"} = {}

LEMMA InitStore == Init => StoreInv
  BY ScopeStoreAssumption, SelectionAssumption
     DEF Init, StoreInv, BootInv, PrepInv, AheadInv, Coherent, Unbound, NoResolution, Rest, NoScope

\* A request that has been composed waits for nothing of Bootstrap.
LEMMA Booted ==
    ASSUME StoreInv, NEW r \in Requests, op[r].pc # "idle"
    PROVE  boot.pc \in {"bound", "unbound"}
  BY DEF StoreInv, BootInv

\* A step of a request that is not committing, and writes nothing.
LEMMA MoveStore ==
    ASSUME TypeOK, Fenced, StoreInv, NEW r \in Requests, NEW o \in Request, op' = [op EXCEPT ![r] = o],
           op[r].pc \notin CommitPCs, o.kind = "delete" /\ o.repl = o.scope => o.prep = 0,
           boot.pc \in {"bound", "unbound"}, UNCHANGED <<store, binding, resolution, holder, boot>>
    PROVE  StoreInv'
  <1>1. op'[r] = o /\ \A q \in Requests : q # r => op'[q] = op[q]
    BY DEF TypeOK
  <1>2. holder # NoRequest => op'[holder] = op[holder]
    BY <1>1 DEF Fenced, LockInv, TypeOK
  <1>3. BootInv' /\ PrepInv'
    BY <1>1 DEF StoreInv, BootInv, PrepInv
  <1>4. AheadInv'
    BY <1>2 DEF StoreInv, AheadInv, NextContext, Unpublished
  <1> QED BY <1>3, <1>4 DEF StoreInv

LEMMA AnswerStore ==
    ASSUME TypeOK, Fenced, StoreInv, NEW r \in Requests, NEW res \in Results, Answer(r, res),
           op[r].pc \notin CommitPCs \cup {"idle"}, UNCHANGED <<store, binding, resolution, holder, boot>>
    PROVE  StoreInv'
  <1>1. Rest("done", res) \in Request /\ Rest("done", res).kind # "delete"
    BY RestType DEF Rest
  <1> QED BY <1>1, Booted, MoveStore DEF Answer

LEMMA GotoStore ==
    ASSUME TypeOK, Fenced, StoreInv, NEW r \in Requests, NEW pc \in PrePCs, Goto(r, pc),
           op[r].pc \in PrePCs, UNCHANGED <<store, binding, resolution, holder, boot>>
    PROVE  StoreInv'
  <1> DEFINE o == [op[r] EXCEPT !.pc = pc]
  <1>1. op[r] \in Request /\ op[r].pc \notin {"idle", "done"} \cup CommitPCs
    BY DEF TypeOK, PrePCs, CommitPCs
  <1>2. o \in Request
    BY <1>1, FieldTypes
  <1>3. o.kind = op[r].kind /\ o.repl = op[r].repl /\ o.scope = op[r].scope /\ o.prep = op[r].prep
    BY <1>1 DEF Request, RequestRecord
  <1>4. op' = [op EXCEPT ![r] = o]
    BY DEF Goto
  <1>5. o.kind = "delete" /\ o.repl = o.scope => o.prep = 0
    BY <1>3 DEF StoreInv, PrepInv
  <1>6. boot.pc \in {"bound", "unbound"}
    BY <1>1, Booted
  <1> HIDE DEF o
  <1> QED BY <1>1, <1>2, <1>4, <1>5, <1>6, MoveStore

\* A request before its commit.
LEMMA RequestStore ==
    ASSUME TypeOK, Fenced, StoreInv, NothingLost, NEW r \in Requests,
           Compose(r) \/ ClientGone(r) \/ Begin(r) \/ Validate(r) \/ ReadBinding(r)
           \/ Prepare(r) \/ PrepareFails(r) \/ FenceRejects(r)
    PROVE  StoreInv'
  <1>a. op \in [Requests -> Request] /\ op[r] \in Request
    BY DEF TypeOK
  <1>b. UNCHANGED <<store, binding, resolution, holder, boot>>
    BY DEF Compose, ClientGone, Begin, Validate, ReadBinding, Prepare, PrepareFails, FenceRejects, coordinator, state
  <1>p. op[r].kind = "delete" /\ op[r].repl = op[r].scope => op[r].prep = 0
    BY DEF StoreInv, PrepInv
  <1>1. CASE Compose(r)
    <2>1. TypeOK' /\ boot.pc \in {"bound", "unbound"} /\ op[r].pc = "idle"
      BY <1>1, RequestType DEF Compose, NothingLost
    <2>2. PICK kind \in Kinds, ctx \in Contexts, id \in ScopeIDs \cup {NoScope},
               repl \in ScopeIDs \cup {NoScope}, setup \in BOOLEAN :
            op' = [op EXCEPT ![r] = Draft(kind, ctx, id, repl, setup)]
      BY <1>1, Zenon DEF Compose
    <2> DEFINE o == Draft(kind, ctx, id, repl, setup)
    <2>3. o.prep = 0
      BY DEF Draft
    <2> HIDE DEF o
    <2>4. op' = [op EXCEPT ![r] = o]
      BY <2>2 DEF o
    <2>5. o \in Request
      <3>1. op'[r] = o
        BY <1>a, <2>4
      <3> QED BY <2>1, <3>1 DEF TypeOK
    <2> QED BY <1>b, <2>1, <2>3, <2>4, <2>5, MoveStore DEF CommitPCs
  <1>2. CASE ClientGone(r)
    <2> DEFINE o == [op[r] EXCEPT !.stop = TRUE]
    <2>1. o.kind = op[r].kind /\ o.repl = op[r].repl /\ o.scope = op[r].scope /\ o.prep = op[r].prep
      BY <1>a DEF Request, RequestRecord
    <2>2. o \in Request
      BY <1>a, FieldTypes
    <2>3. op' = [op EXCEPT ![r] = o] /\ op[r].pc \notin CommitPCs \cup {"idle"}
      BY <1>2 DEF ClientGone, PrePCs, CommitPCs
    <2> HIDE DEF o
    <2> QED BY <1>b, <1>p, <2>1, <2>2, <2>3, Booted, MoveStore
  <1>3. CASE Begin(r)
    <2>1. op[r].pc = "composed" /\ holder = NoRequest
      BY <1>3 DEF Begin, LockFree
    <2>2. boot.pc \in {"bound", "unbound"}
      BY <2>1, Booted
    <2>3. \A q \in Requests : op'[q].kind = op[q].kind /\ op'[q].repl = op[q].repl
                              /\ op'[q].scope = op[q].scope /\ op'[q].prep = op[q].prep
      BY <1>a, <1>3 DEF Begin, Request, RequestRecord
    <2> QED BY <1>b, <2>1, <2>2, <2>3 DEF StoreInv, BootInv, PrepInv, AheadInv, NextContext, Unpublished
  <1>4. CASE Validate(r)
    <2>1. op[r].pc \in {"begun", "read", "prepared", "failing"}
      BY <1>4 DEF Validate
    <2>2. \/ Goto(r, "validated") \/ Goto(r, "preparing") \/ Goto(r, "ready")
          \/ Answer(r, "failed") \/ Answer(r, "conflict")
      BY <1>4 DEF Validate
    <2> QED BY <1>b, <2>1, <2>2, GotoStore, AnswerStore DEF PrePCs, CommitPCs, Results
  <1>5. CASE ReadBinding(r)
    <2>1. op[r].pc = "validated"
      BY <1>5 DEF ReadBinding
    <2>2. CASE binding.gen = op[r].expected
      <3> DEFINE o == [op[r] EXCEPT !.pc = "read", !.seen = binding]
      <3>1. binding \in Binding
        BY DEF TypeOK
      <3>2. o \in Request
        BY <1>a, <2>1, <3>1, FieldTypes
      <3>3. o.kind = op[r].kind /\ o.repl = op[r].repl /\ o.scope = op[r].scope /\ o.prep = op[r].prep
        BY <1>a DEF Request, RequestRecord
      <3>4. op' = [op EXCEPT ![r] = o]
        BY <1>5, <2>2 DEF ReadBinding
      <3> HIDE DEF o
      <3> QED BY <1>b, <1>p, <2>1, <3>2, <3>3, <3>4, Booted, MoveStore DEF CommitPCs
    <2>3. CASE binding.gen # op[r].expected
      BY <1>b, <1>5, <2>1, <2>3, AnswerStore DEF ReadBinding, CommitPCs, Results
    <2> QED BY <2>2, <2>3
  <1>6. CASE Prepare(r)
    <2> DEFINE v == PreparedVersion(op[r], store.rows)
               o == [op[r] EXCEPT !.pc = "prepared", !.prep = v]
    <2>1. op[r].pc = "preparing" /\ op' = [op EXCEPT ![r] = o]
      BY <1>6 DEF Prepare
    <2>2. v \in Nat
      BY <1>a, PreparedVersionType DEF TypeOK
    <2>3. op[r].kind = "delete" /\ op[r].repl = op[r].scope => v = 0
      BY DEF PreparedVersion
    <2> HIDE DEF v
    <2>4. o \in Request
      BY <1>a, <2>1, <2>2, FieldTypes
    <2>5. o.kind = op[r].kind /\ o.repl = op[r].repl /\ o.scope = op[r].scope /\ o.prep = v
      BY <1>a, <2>2 DEF Request, RequestRecord
    <2> HIDE DEF o
    <2> QED BY <1>b, <2>1, <2>3, <2>4, <2>5, Booted, MoveStore DEF CommitPCs
  <1>7. CASE PrepareFails(r)
    BY <1>b, <1>7, GotoStore DEF PrepareFails, PrePCs
  <1>8. CASE FenceRejects(r)
    BY <1>b, <1>8, AnswerStore DEF FenceRejects, CommitPCs, Results
  <1> QED BY <1>1, <1>2, <1>3, <1>4, <1>5, <1>6, <1>7, <1>8

\* A commit that publishes nothing leaves what is bound as it was.
LEMMA QuietCommit ==
    ASSUME TypeOK, Fenced, StoreInv, NEW r \in Requests, NEW res \in Results, Fence(r), Answer(r, res),
           Coherent(store', binding.ctx, resolution), UNCHANGED <<binding, resolution, holder, boot>>
    PROVE  StoreInv'
  <1>1. holder = NoRequest /\ op[r].pc = "ready"
    BY DEF Fence, LockFree
  <1>2. boot.pc \in {"bound", "unbound"}
    BY <1>1, Booted
  <1>3. op'[r] = Rest("done", res) /\ \A q \in Requests : q # r => op'[q] = op[q]
    BY DEF TypeOK, Answer
  <1>4. PrepInv'
    BY <1>3 DEF StoreInv, PrepInv, Rest
  <1> QED BY <1>1, <1>2, <1>4 DEF StoreInv, BootInv, AheadInv

\* A commit that publishes prepares what afterPublish binds.
LEMMA PublishStore ==
    ASSUME TypeOK, Fenced, StoreInv, NEW r \in Requests, NEW act \in Resolution, Fence(r), Publish(r, act),
           Coherent(store', NextContext(op[r]), act), UNCHANGED <<binding, resolution, boot>>
    PROVE  StoreInv'
  <1> DEFINE o == [op[r] EXCEPT !.pc = "rotate", !.act = act]
  <1>a. op \in [Requests -> Request] /\ op[r] \in Request
    BY DEF TypeOK
  <1>1. op[r].pc = "ready"
    BY DEF Fence
  <1>2. boot.pc \in {"bound", "unbound"}
    BY <1>1, Booted
  <1>3. o.pc = "rotate" /\ o.act = act /\ o.kind = op[r].kind /\ o.ctx = op[r].ctx
        /\ o.repl = op[r].repl /\ o.scope = op[r].scope /\ o.prep = op[r].prep
    BY <1>a DEF Request, RequestRecord
  <1>4. holder' = r /\ r # NoRequest /\ op'[r] = o /\ \A q \in Requests : q # r => op'[q] = op[q]
    BY <1>a, SelectionAssumption DEF Publish
  <1> HIDE DEF o
  <1>5. PrepInv'
    BY <1>3, <1>4 DEF StoreInv, PrepInv
  <1>6. NextContext(op[r]) = NextContext(op[holder])'
    BY <1>3, <1>4 DEF NextContext
  <1>7. AheadInv'
    BY <1>3, <1>4, <1>6 DEF AheadInv, Unpublished
  <1> QED BY <1>2, <1>5, <1>7 DEF StoreInv, BootInv

\* A transaction leaves the rows that are bound as the binding knows them.
LEMMA CoherentRows ==
    ASSUME NEW st, NEW tt, NEW ctx, NEW res \in Resolution, Coherent(st, ctx, res), tt.ctx = st.ctx,
           res.scope # NoScope => /\ tt.rows[res.scope].ver = st.rows[res.scope].ver
                                  /\ tt.rows[res.scope].ctx = st.rows[res.scope].ctx
    PROVE  Coherent(tt, ctx, res)
  BY DEF Coherent, Exists

\* The transactions keep the database coherent with what is, or will be, bound.
LEMMA CommitStore ==
    ASSUME TypeOK, Fenced, StoreInv, NothingLost, NEW r \in Requests, Commit(r)
    PROVE  StoreInv'
  <1>f. CommitFrame => UNCHANGED <<binding, resolution, boot>>
    BY DEF CommitFrame, state
  <1>a. /\ op[r] \in Request /\ store.rows \in Table /\ store \in [ctx : Contexts \cup {NoContext}, rows : Table]
        /\ resolution \in Resolution /\ (resolution.scope = NoScope \/ resolution.scope \in ScopeIDs)
    BY DEF TypeOK, Resolution
  <1>o. "ok" \in Results /\ "failed" \in Results
    BY DEF Results
  <1>k. op[r].kind \in ScopedKinds => op[r].scope \in ScopeIDs
    BY <1>a DEF Request, RequestRecord
  <1>v. /\ op[r].ver \in Nat /\ op[r].prep \in Nat /\ op[r].repl \in ScopeIDs \cup {NoScope}
        /\ op[r].pc = "ready" => op[r].ctx \in Contexts
    BY <1>a DEF Request, RequestRecord
  <1>c. Fence(r) => Coherent(store, binding.ctx, resolution) /\ op[r].pc = "ready"
    BY DEF Fence, LockFree, StoreInv, AheadInv
  <1>b. binding.scope = resolution.scope
    BY DEF StoreInv
  <1>1. CASE CommitContext(r)
    <2>1. /\ Fence(r) /\ op[r].kind = "context" /\ Publish(r, NoResolution) /\ CommitFrame
          /\ store'.ctx = op[r].ctx
      BY <1>1, <1>a DEF CommitContext
    <2>2. NoResolution \in Resolution /\ Coherent(store', NextContext(op[r]), NoResolution)
      BY <2>1 DEF Coherent, NextContext, NoResolution, Resolution
    <2> QED BY <1>f, <2>1, <2>2, PublishStore
  <1>2. ~ CommitContextUnread(r)
    BY DEF CommitContextUnread, NothingLost
  <1>3. CASE CommitCreate(r)
    <2>1. /\ Fence(r) /\ Answer(r, "ok") /\ UNCHANGED holder /\ CommitFrame
          /\ \E id \in ScopeIDs : /\ IsNextID(store.rows, id)
                                  /\ store' = [store EXCEPT !.rows = CreateRow(@, id, op[r].ctx)]
      BY <1>3 DEF CommitCreate, StorageOnly
    <2>2. PICK id \in ScopeIDs : ~ Exists(store.rows, id) /\ store'.rows = CreateRow(store.rows, id, op[r].ctx) /\ store'.ctx = store.ctx
      BY <1>a, <2>1 DEF IsNextID
    <2>3. resolution.scope # NoScope => resolution.scope \in ScopeIDs /\ resolution.scope # id
      BY <1>a, <1>c, <2>1, <2>2 DEF Coherent
    <2>4. resolution.scope # NoScope => store'.rows[resolution.scope] = store.rows[resolution.scope]
      BY <1>a, <1>c, <1>v, <2>1, <2>2, <2>3, RowsKept
    <2>5. Coherent(store', binding.ctx, resolution)
      BY <1>a, <1>c, <2>1, <2>2, <2>4, CoherentRows
    <2> QED BY <1>f, <1>o, <2>1, <2>5, QuietCommit
  <1>4. CASE CommitCheck(r) \/ CommitFails(r)
    BY <1>4, <1>c, <1>f, <1>o, QuietCommit DEF CommitCheck, CommitFails, StorageOnly
  <1>5. CASE CommitUpdate(r)
    <2> DEFINE id == op[r].scope
               act == [scope |-> id, ver |-> op[r].ver + 1]
    <2>1. /\ Fence(r) /\ CommitFrame /\ id \in ScopeIDs /\ op[r].kind = "update"
          /\ store.rows[id].ctx = binding.ctx /\ store.rows[id].ver = op[r].ver
          /\ store'.ctx = store.ctx /\ store'.rows = UpdateRow(store.rows, id)
      BY <1>5, <1>a, <1>k DEF CommitUpdate, ScopedKinds, MatchesBinding, MayUpdateRow
    <2>2. CASE binding.scope = id
      <3>1. Publish(r, act)
        BY <1>5, <2>2 DEF CommitUpdate
      <3>2. act \in Resolution
        BY <1>v, <2>1 DEF Resolution
      <3>3. store'.rows[id].ver = op[r].ver + 1 /\ store'.rows[id].ctx = binding.ctx
        BY <1>a, <2>1, RowsKept
      <3>4. binding.ctx # NoContext => store.ctx = binding.ctx
        BY <1>c, <2>1 DEF Coherent
      <3>5. Coherent(store', NextContext(op[r]), act)
        BY <1>v, <2>1, <3>3, <3>4 DEF Coherent, NextContext, Exists
      <3> QED BY <1>f, <2>1, <3>1, <3>2, <3>5, PublishStore
    <2>3. CASE binding.scope # id
      <3>1. Answer(r, "ok") /\ UNCHANGED holder
        BY <1>5, <2>3 DEF CommitUpdate, StorageOnly
      <3>2. resolution.scope # NoScope => store'.rows[resolution.scope] = store.rows[resolution.scope]
        BY <1>a, <1>b, <2>1, <2>3, RowsKept
      <3>3. Coherent(store', binding.ctx, resolution)
        BY <1>a, <1>c, <2>1, <3>2, CoherentRows
      <3> QED BY <1>f, <1>o, <2>1, <3>1, <3>3, QuietCommit
    <2> QED BY <2>2, <2>3
  <1>6. CASE CommitDelete(r)
    <2> DEFINE id == op[r].scope
               repl == op[r].repl
               heir == IF repl # NoScope /\ store.rows[id].def THEN repl ELSE NoScope
               act == [scope |-> repl, ver |-> op[r].prep]
    <2>1. /\ Fence(r) /\ CommitFrame /\ id \in ScopeIDs /\ op[r].kind = "delete"
          /\ repl # NoScope => /\ Exists(store.rows, repl) /\ store.rows[repl].ctx = binding.ctx
                               /\ store.rows[repl].ver = op[r].prep
          /\ store'.ctx = store.ctx /\ store'.rows = DeleteRow(store.rows, id, heir)
      BY <1>6, <1>a, <1>k DEF CommitDelete, ScopedKinds, MatchesBinding
    <2>2. heir \in ScopeIDs \cup {NoScope} /\ repl \in ScopeIDs \cup {NoScope}
      BY <1>v
    <2>3. repl # NoScope => repl # id
      BY <2>1 DEF StoreInv, PrepInv, Exists
    <2>4. CASE binding.scope = id
      <3>1. Publish(r, act)
        BY <1>6, <2>4 DEF CommitDelete
      <3>2. act \in Resolution
        BY <1>v DEF Resolution
      <3> HIDE DEF heir
      <3>3. repl # NoScope => store'.rows[repl].ver = store.rows[repl].ver /\ store'.rows[repl].ctx = store.rows[repl].ctx
        BY <1>a, <2>1, <2>2, <2>3, RowsKept
      <3>4. binding.ctx # NoContext => store.ctx = binding.ctx
        BY <1>c, <2>1 DEF Coherent
      <3>5. Coherent(store', NextContext(op[r]), act)
        BY <2>1, <3>3, <3>4 DEF Coherent, NextContext, Exists
      <3> QED BY <1>f, <2>1, <3>1, <3>2, <3>5, PublishStore
    <2>5. CASE binding.scope # id
      <3>1. Answer(r, "ok") /\ UNCHANGED holder
        BY <1>6, <2>5 DEF CommitDelete, StorageOnly
      <3> HIDE DEF heir
      <3>2. resolution.scope # NoScope => /\ store'.rows[resolution.scope].ver = store.rows[resolution.scope].ver
                                          /\ store'.rows[resolution.scope].ctx = store.rows[resolution.scope].ctx
        BY <1>a, <1>b, <2>1, <2>2, <2>5, RowsKept
      <3>3. Coherent(store', binding.ctx, resolution)
        BY <1>a, <1>c, <2>1, <3>2, CoherentRows
      <3> QED BY <1>f, <1>o, <2>1, <3>1, <3>3, QuietCommit
    <2> QED BY <2>4, <2>5
  <1>7. CASE CommitSelect(r)
    <2> DEFINE id == op[r].scope
               act == [scope |-> id, ver |-> store.rows[id].ver]
    <2>1. /\ Fence(r) /\ CommitFrame /\ id \in ScopeIDs /\ op[r].kind # "context" /\ Publish(r, act)
          /\ Exists(store.rows, id) /\ store.rows[id].ctx = binding.ctx /\ store'.ctx = store.ctx
          /\ store'.rows = store.rows \/ store'.rows = SetDefaultRow(store.rows, id)
      BY <1>7, <1>a, <1>k DEF CommitSelect, ScopedKinds, MatchesBinding
    <2>2. act \in Resolution
      BY <1>a, <2>1, VersionType DEF Resolution
    <2>3. store'.rows[id].ver = store.rows[id].ver /\ store'.rows[id].ctx = store.rows[id].ctx
      BY <1>a, <2>1, RowsKept
    <2>4. binding.ctx # NoContext => store.ctx = binding.ctx
      BY <1>c, <2>1 DEF Coherent
    <2>5. Coherent(store', NextContext(op[r]), act)
      BY <2>1, <2>3, <2>4 DEF Coherent, NextContext, Exists
    <2> QED BY <1>f, <2>1, <2>2, <2>5, PublishStore
  <1>8. CASE FenceRejects(r)
    BY <1>8, RequestStore
  <1> QED BY <1>1, <1>2, <1>3, <1>4, <1>5, <1>6, <1>7, <1>8 DEF Commit

\* The lock holder brings the binding up to the database.
LEMMA PublicationStore ==
    ASSUME TypeOK, Fenced, StoreInv, NothingLost, NEW r \in Requests,
           Rotate(r) \/ RotateFails(r) \/ RunHooks(r) \/ AfterPublish(r) \/ RotateSession(r)
    PROVE  StoreInv'
  <1>a. op \in [Requests -> Request] /\ op[r] \in Request
    BY DEF TypeOK
  <1>b. op[r].pc \in CommitPCs
    BY DEF Rotate, RotateFails, RunHooks, AfterPublish, RotateSession, CommitPCs
  <1>c. holder = r /\ holder # NoRequest /\ boot.pc \in {"bound", "unbound"}
    BY <1>b, SelectionAssumption, Booted DEF Fenced, LockInv, CommitPCs
  <1>g. ASSUME NEW pc \in CommitPCs, Goto(r, pc)
        PROVE  /\ op'[r].pc = pc /\ op'[r].kind = op[r].kind /\ op'[r].ctx = op[r].ctx /\ op'[r].act = op[r].act
               /\ PrepInv'
    <2>1. /\ op'[r].pc = pc /\ op'[r].kind = op[r].kind /\ op'[r].ctx = op[r].ctx /\ op'[r].act = op[r].act
          /\ op'[r].repl = op[r].repl /\ op'[r].scope = op[r].scope /\ op'[r].prep = op[r].prep
      BY <1>a, <1>g DEF Goto, Request, RequestRecord
    <2>2. \A q \in Requests : q # r => op'[q] = op[q]
      BY <1>a, <1>g DEF Goto
    <2> QED BY <2>1, <2>2 DEF StoreInv, PrepInv
  <1>1. CASE Rotate(r) \/ RunHooks(r)
    <2>1. /\ Goto(r, "hooks") \/ Goto(r, "bind")
          /\ op[r].pc \in {"rotate", "hooks"} /\ UNCHANGED <<store, binding, resolution, holder, boot>>
      BY <1>1 DEF Rotate, RunHooks, coordinator, state
    <2>2. /\ op'[r].pc \in {"hooks", "bind"} /\ op'[r].kind = op[r].kind /\ op'[r].ctx = op[r].ctx
          /\ op'[r].act = op[r].act /\ PrepInv'
      BY <1>g, <2>1 DEF CommitPCs
    <2>3. Coherent(store, NextContext(op[r]), op[r].act)
      BY <1>c, <2>1 DEF StoreInv, AheadInv
    <2>4. NextContext(op[r]) = NextContext(op[holder])'
      BY <1>c, <2>1, <2>2 DEF NextContext
    <2>5. AheadInv'
      BY <1>c, <2>1, <2>2, <2>3, <2>4 DEF AheadInv, Unpublished
    <2> QED BY <1>c, <2>1, <2>2, <2>5 DEF StoreInv, BootInv
  <1>2. ~ RotateFails(r)
    BY DEF RotateFails, NothingLost
  <1>3. CASE AfterPublish(r)
    <2>1. /\ Goto(r, "nonce") /\ op[r].pc = "bind" /\ UNCHANGED <<store, holder, boot>>
          /\ binding'.ctx = NextContext(op[r]) /\ binding'.scope = op[r].act.scope /\ resolution' = op[r].act
      BY <1>3 DEF AfterPublish, NextContext, coordinator
    <2>2. op'[r].pc = "nonce" /\ PrepInv'
      BY <1>g, <2>1 DEF CommitPCs
    <2>3. Coherent(store, NextContext(op[r]), op[r].act)
      BY <1>c, <2>1 DEF StoreInv, AheadInv
    <2>4. AheadInv'
      BY <1>c, <2>1, <2>2, <2>3 DEF AheadInv
    <2> QED BY <1>c, <2>1, <2>2, <2>4 DEF StoreInv, BootInv
  <1>4. CASE RotateSession(r)
    <2>1. /\ \E res \in Results : Answer(r, res)
          /\ holder' = NoRequest /\ op[r].pc = "nonce" /\ UNCHANGED <<store, binding, resolution, boot>>
      BY <1>4 DEF RotateSession, state, Results
    <2>2. Coherent(store, binding.ctx, resolution)
      BY <1>c, <2>1 DEF StoreInv, AheadInv, Unpublished
    <2>3. PrepInv'
      BY <1>a, <2>1 DEF StoreInv, PrepInv, Answer, Rest
    <2> QED BY <1>c, <2>1, <2>2, <2>3 DEF StoreInv, BootInv, AheadInv
  <1> QED BY <1>1, <1>2, <1>3, <1>4

\* Bootstrap binds what it has stored, before anybody asks.
LEMMA EnvironmentStore ==
    ASSUME TypeOK, Fenced, StoreInv, NothingLost, Close \/ BootStep \/ (\E h \in Handlers : SessionStep(h))
    PROVE  StoreInv'
  <1>b. boot \in [pc : {"resolve", "persist", "initialize", "bound", "unbound"},
                  ctx : Contexts \cup {NoContext}, profile : Contexts \cup {NoContext}]
    BY DEF TypeOK
  <1>h. boot.pc \notin {"bound", "unbound"} =>
          /\ holder = NoRequest /\ binding.ctx = NoContext /\ Coherent(store, binding.ctx, resolution)
          /\ \A q \in Requests : op[q].pc = "idle"
    BY DEF StoreInv, BootInv, AheadInv, Fenced, LockInv, TypeOK, CommitPCs
  <1>1. CASE Close
    <2>1. holder = NoRequest /\ UNCHANGED <<store, binding, resolution, holder, boot>>
      BY <1>1 DEF Close, LockFree, state
    <2>2. \A q \in Requests : /\ op'[q].pc = op[q].pc /\ op'[q].kind = op[q].kind /\ op'[q].repl = op[q].repl
                              /\ op'[q].scope = op[q].scope /\ op'[q].prep = op[q].prep
      BY <1>1 DEF Close, TypeOK, Request, RequestRecord
    <2> QED BY <2>1, <2>2 DEF StoreInv, BootInv, PrepInv, AheadInv, NextContext, Unpublished
  <1>2. CASE BootResolve
    <2>1. /\ UNCHANGED <<store, binding, resolution, holder, op>> /\ boot.pc = "resolve"
          /\ boot'.pc = "initialize" => store.ctx = boot'.ctx
      BY <1>2, <1>b DEF BootResolve, coordinator, state
    <2> QED BY <1>h, <2>1 DEF StoreInv, BootInv, PrepInv, AheadInv
  <1>3. CASE BootPersist
    <2>1. /\ UNCHANGED <<binding, resolution, holder, op>> /\ boot.pc = "persist"
          /\ boot'.ctx = boot.ctx /\ store'.ctx = boot.ctx /\ store'.rows = store.rows
      BY <1>3, <1>b DEF BootPersist, coordinator, state, TypeOK
    <2>2. Coherent(store', binding.ctx, resolution)
      BY <1>h, <2>1 DEF Coherent
    <2> QED BY <1>h, <2>1, <2>2 DEF StoreInv, BootInv, PrepInv, AheadInv
  <1>4. CASE BootInitialize
    <2>1. /\ UNCHANGED <<store, holder, op>> /\ boot.pc = "initialize" /\ store.ctx = boot.ctx
          /\ binding'.ctx = boot.ctx /\ binding'.scope = NoScope /\ resolution' = NoResolution /\ boot'.pc = "bound"
      BY <1>4, <1>b, <1>h DEF BootInitialize, coordinator, StoreInv, BootInv
    <2> QED BY <1>h, <2>1 DEF StoreInv, BootInv, PrepInv, AheadInv, Coherent, NoResolution
  <1>5. CASE \E h \in Handlers : SessionStep(h)
    <2>1. UNCHANGED <<store, binding, resolution, holder, op, boot>>
      BY <1>5 DEF SessionStep, SessionRead, SessionCurrent, coordinator, state
    <2> QED BY <2>1 DEF StoreInv, BootInv, PrepInv, AheadInv, NextContext, Unpublished
  <1> QED BY <1>1, <1>2, <1>3, <1>4, <1>5 DEF BootStep

LEMMA StoreStep == TypeOK /\ Fenced /\ StoreInv /\ NothingLost /\ [Next]_vars => StoreInv'
  <1> SUFFICES ASSUME TypeOK, Fenced, StoreInv, NothingLost, [Next]_vars PROVE StoreInv'
    OBVIOUS
  <1>1. ASSUME NEW r \in Requests, Compose(r) \/ ClientGone(r) \/ RequestStep(r)
        PROVE  StoreInv'
    <2>1. CASE \/ Compose(r) \/ ClientGone(r) \/ Begin(r) \/ Validate(r) \/ ReadBinding(r)
               \/ Prepare(r) \/ PrepareFails(r)
      BY <2>1, RequestStore
    <2>2. CASE Commit(r)
      BY <2>2, CommitStore
    <2>3. CASE \/ Rotate(r) \/ RotateFails(r) \/ RunHooks(r) \/ AfterPublish(r)
               \/ RotateSession(r)
      BY <2>3, PublicationStore
    <2> QED BY <1>1, <2>1, <2>2, <2>3 DEF RequestStep
  <1>2. CASE Close \/ BootStep \/ (\E h \in Handlers : SessionStep(h))
    BY <1>2, EnvironmentStore
  <1>3. CASE UNCHANGED vars
    BY <1>3 DEF vars, coordinator, state, StoreInv, BootInv, PrepInv, AheadInv, NextContext, Unpublished
  <1> QED BY <1>1, <1>2, <1>3 DEF Next

\* As long as no durable commit is lost on its way to the binding, SQLite and
\* memory agree whenever Coordinator.mu is free, for any number of racing
\* requests, contexts and scopes: the stored context is the bound one, the
\* active scope is a current row of it, and one scope at most is its default.
THEOREM SelectionStoreCoherent == NothingLost => (Spec => []StoreCoherent)
  <1>1. Init => StoreInv
    BY InitStore
  <1>2. TypeOK /\ Fenced /\ StoreInv => CommittedContextIsPublished /\ ActiveScopeStored
    <2> SUFFICES ASSUME TypeOK, Fenced, StoreInv, holder = NoRequest
                 PROVE  CommittedContextIsPublished /\ ActiveScopeStored
      BY DEF CommittedContextIsPublished, ActiveScopeStored, LockFree
    <2>1. Coherent(store, binding.ctx, resolution) /\ binding.scope = resolution.scope
      BY DEF StoreInv, AheadInv
    <2>2. resolution = [scope |-> resolution.scope, ver |-> resolution.ver]
      BY DEF TypeOK, Resolution
    <2> QED BY <2>1, <2>2 DEF CommittedContextIsPublished, ActiveScopeStored, Coherent, MatchesBinding
  <1>3. NothingLost /\ TypeOK /\ Fenced /\ StoreInv /\ [Next]_vars => StoreInv'
    BY StoreStep
  <1>4. CommittedContextIsPublished /\ ActiveScopeStored /\ OneDefaultScope => StoreCoherent
    BY DEF StoreCoherent
  <1>5. NothingLost => []NothingLost
    <2>1. NothingLost => NothingLost'
      BY DEF NothingLost
    <2> QED BY <2>1, PTL
  <1> QED BY <1>1, <1>2, <1>3, <1>4, <1>5, SelectionFenced, SelectionOneDefault, PTL DEF Spec
=============================================================================
