---------------------------- MODULE OperationsProof ----------------------------
(***************************************************************************)
(* What users do to the cluster, for any number of requests, tickets, keys     *)
(* and generations.  Cluster mutations: what callers are told is what          *)
(* Kubernetes did (MutationsHonest), and nothing leaves behind a rotation or   *)
(* a shutdown (MutationsFenced).  Exec sessions: a ticket starts one command,  *)
(* no command is left outside the registry or behind its fences, and a         *)
(* session ends with one word (CommandsAccounted).                             *)
(***************************************************************************)
EXTENDS Actions, Exec, TLAPS

-----------------------------------------------------------------------------
(* Cluster mutations *)

USE ActionsAssumption

PCs == {"idle", "do", "waiting", "review", "callback", "check", "sending", "sent", "after", "finish", "done"}

Executing == {"review", "callback", "check", "sending", "sent", "after", "finish"}

Registered == {"check", "sending", "sent", "after"}

-----------------------------------------------------------------------------
(* The inductive invariant *)

\* operations are the requests between beginOperation and its release.
OperationsMatch == \A r \in Requests : r \in operations <=> req[r].pc \in Registered

\* An entry of the registry belongs to a restart that executes or has executed;
\* only those that have may grow old.
EntriesOwned ==
    /\ \A k \in IKeys : entries[k] # NoOne =>
         /\ req[entries[k]].key = k /\ req[entries[k]].op = "restart" /\ req[entries[k]].on = NoOne
         /\ req[entries[k]].pc \in Executing \cup {"done"}
    /\ \A k \in elapsed : entries[k] # NoOne /\ req[entries[k]].pc = "done"

\* A restart that executes holds its key's entry, and loses it only by leaving
\* the registry.
ExecutionsEntered ==
    \A r \in Requests :
        /\ req[r].pc \in {"do", "finish"} => req[r].op = "restart"
        /\ req[r].op = "restart" =>
             /\ req[r].pc \in Executing => entries[req[r].key] = r
             /\ req[r].sent => req[r].pc # "idle" /\ (entries[req[r].key] = r \/ r \in released)

\* Who waits, or waited, waits for an execution of its own identity.
WaitsForItsLike ==
    \A r \in Requests :
        /\ req[r].on # NoOne =>
             /\ req[r].pc \in {"waiting", "done"} /\ SameIdentity(r, req[r].on)
             /\ req[req[r].on].on = NoOne /\ req[req[r].on].pc \in Executing \cup {"done"}
        /\ req[r].pc = "waiting" => req[r].on # NoOne

\* An outcome "ok" is that of an applied mutation, or of the execution waited for.
OkIsApplied ==
    \A r \in Requests : req[r].outcome = "ok" =>
        \/ req[r].served = "applied"
        \/ req[r].on # NoOne /\ req[req[r].on].served = "applied"

\* A mutation that was applied changed the version it was confirmed for.
AppliedIsPast ==
    \A r \in Requests : req[r].served = "applied" /\ req[r].op # "trigger" => req[r].body < object.version

\* An operation of an older generation that may still send is about to be
\* stopped by the hook that runs.
HookReaches ==
    /\ hook.ended <= gen
    /\ \A r \in Requests : req[r].pc = "sending" =>
         \/ req[r].stop
         \/ req[r].gen = gen
         \/ /\ req[r].gen >= hook.ended
            /\ hook.step = "collect" \/ (hook.step = "cancel" /\ r \in hook.cancels)

\* The same of a shutdown.
ShutdownReaches ==
    /\ down.ended => down.flag
    /\ \A r \in Requests : req[r].pc \in {"check", "sending"} /\ down.flag =>
         req[r].stop \/ (~ down.ended /\ r \in down.cancels)

ActionsInv ==
    /\ OperationsMatch /\ EntriesOwned /\ ExecutionsEntered /\ WaitsForItsLike
    /\ OkIsApplied /\ AppliedIsPast /\ SeenChangesOnce /\ HookReaches /\ ShutdownReaches

-----------------------------------------------------------------------------
(* Requests *)

\* The updates that the actions make keep a request a request.
LEMMA Updates ==
    ASSUME NEW o \in Request
    PROVE  /\ \A p \in PCs : [o EXCEPT !.pc = p] \in Request
           /\ \A x \in Outcomes \cup {"none"} : [o EXCEPT !.outcome = x, !.pc = "done", !.left = FALSE, !.stop = FALSE] \in Request
           /\ \A x \in Outcomes \cup {"none"} : [o EXCEPT !.outcome = x, !.pc = "finish"] \in Request
           /\ \A g \in Nat, p \in PCs : [o EXCEPT !.gen = g, !.pc = p] \in Request
           /\ \A s \in Requests : [o EXCEPT !.pc = "waiting", !.on = s] \in Request
           /\ [o EXCEPT !.pc = "sent", !.sent = TRUE] \in Request
           /\ \A x \in Outcomes \cup {"none"} : [o EXCEPT !.pc = "after", !.outcome = x] \in Request
           /\ [o EXCEPT !.left = TRUE] \in Request
           /\ [o EXCEPT !.stop = TRUE] \in Request
           /\ \A v \in {"applied", "refused"} : [o EXCEPT !.served = v] \in Request
  <1>1. ASSUME NEW p \in PCs PROVE [o EXCEPT !.pc = p] \in Request
    BY <1>1 DEF Request, PCs
  <1>2. ASSUME NEW x \in Outcomes \cup {"none"} PROVE [o EXCEPT !.outcome = x, !.pc = "done", !.left = FALSE, !.stop = FALSE] \in Request
    BY <1>2 DEF Request, PCs
  <1>3. ASSUME NEW x \in Outcomes \cup {"none"} PROVE [o EXCEPT !.outcome = x, !.pc = "finish"] \in Request
    BY <1>3 DEF Request, PCs
  <1>4. ASSUME NEW g \in Nat, NEW p \in PCs PROVE [o EXCEPT !.gen = g, !.pc = p] \in Request
    BY <1>4 DEF Request, PCs
  <1>5. ASSUME NEW s \in Requests PROVE [o EXCEPT !.pc = "waiting", !.on = s] \in Request
    BY <1>5 DEF Request, PCs
  <1>6. [o EXCEPT !.pc = "sent", !.sent = TRUE] \in Request
    BY DEF Request, PCs
  <1>7. ASSUME NEW x \in Outcomes \cup {"none"} PROVE [o EXCEPT !.pc = "after", !.outcome = x] \in Request
    BY <1>7 DEF Request, PCs
  <1>8. [o EXCEPT !.left = TRUE] \in Request
    BY DEF Request, PCs
  <1>9. [o EXCEPT !.stop = TRUE] \in Request
    BY DEF Request, PCs
  <1>10. ASSUME NEW v \in {"applied", "refused"} PROVE [o EXCEPT !.served = v] \in Request
    BY <1>10 DEF Request, PCs
  <1> QED BY <1>1, <1>2, <1>3, <1>4, <1>5, <1>6, <1>7, <1>8, <1>9, <1>10

Objects == [kind : Kinds, version : Nat, exists : BOOLEAN, changes : Nat]

\* So do those of the object.
LEMMA ObjectUpdates ==
    ASSUME NEW o \in Objects, NEW n \in Nat, NEW m \in Nat, NEW b \in BOOLEAN
    PROVE  /\ o.version \in Nat /\ o.changes \in Nat
           /\ [o EXCEPT !.version = n, !.exists = b] \in Objects
           /\ [o EXCEPT !.version = n, !.exists = TRUE, !.changes = m] \in Objects
  <1>1. o.version \in Nat /\ o.changes \in Nat
    BY DEF Objects
  <1>2. [o EXCEPT !.version = n, !.exists = b] \in Objects
    BY DEF Objects
  <1>3. [o EXCEPT !.version = n, !.exists = TRUE, !.changes = m] \in Objects
    BY DEF Objects
  <1> QED BY <1>1, <1>2, <1>3

LEMMA SetTypes ==
    ASSUME TypeOK, NEW r \in Requests, NEW o \in Request, Set(r, o)
    PROVE  req' \in [Requests -> Request]
  BY DEF TypeOK, Set

LEMMA AnswersTypes ==
    ASSUME TypeOK, NEW r \in Requests, NEW x \in Outcomes \cup {"none"}, Answers(r, x)
    PROVE  req' \in [Requests -> Request]
  <1> DEFINE o == [req[r] EXCEPT !.outcome = x, !.pc = "done", !.left = FALSE, !.stop = FALSE]
  <1>0. req[r] \in Request
    BY DEF TypeOK
  <1>1. o \in Request
    BY <1>0, ZenonT(60) DEF Request
  <1>2. Set(r, o)
    BY DEF Answers
  <1> QED BY <1>1, <1>2, SetTypes

LEMMA EndsTypes ==
    ASSUME TypeOK, NEW r \in Requests, NEW x \in Outcomes \cup {"none"}, Ends(r, x)
    PROVE  req' \in [Requests -> Request]
  <1> DEFINE o == [req[r] EXCEPT !.outcome = x, !.pc = "finish"]
  <1>1. o \in Request
    BY Updates DEF TypeOK, PCs
  <1>2. Answers(r, x) \/ Set(r, o)
    BY DEF Ends
  <1> QED BY <1>1, <1>2, SetTypes, AnswersTypes

LEMMA GotoTypes ==
    ASSUME TypeOK, NEW r \in Requests, NEW p \in {"review", "callback", "check", "sending"}, Goto(r, p)
    PROVE  req' \in [Requests -> Request]
  BY Updates, SetTypes, ZenonT(60) DEF Goto, TypeOK, PCs

LEMMA StopTypes ==
    ASSUME TypeOK, NEW rs, Stop(rs)
    PROVE  req' \in [Requests -> Request]
  BY Updates DEF Stop, TypeOK, PCs

LEMMA PrunedTypes ==
    ASSUME TypeOK, EntriesOwned, DoPrunes
    PROVE  /\ Pruned \in [IKeys -> Requests \cup {NoOne}]
           /\ elapsed' \subseteq IKeys /\ released' \subseteq Requests
  BY DEF TypeOK, Pruned, DoPrunes, EntriesOwned

\* Every action keeps the types.
LEMMA TypesKept ==
    ASSUME TypeOK, EntriesOwned, WaitsForItsLike, [Next]_vars
    PROVE  TypeOK'
  <1>1. ASSUME NEW r \in Requests, NEW seen \in 0..gen, Rejects(r, seen), UNCHANGED object PROVE TypeOK'
    BY <1>1, AnswersTypes, SMTT(30) DEF Rejects, Outcomes, TypeOK
  <1>2. ASSUME NEW r \in Requests, NEW seen \in 0..gen, Arrive(r, seen), UNCHANGED object PROVE TypeOK'
    BY <1>2, Updates, SetTypes, ZenonT(60) DEF Arrive, PCs, TypeOK
  <1>3. ASSUME NEW r \in Requests, DoConflicts(r), UNCHANGED object PROVE TypeOK'
    BY <1>3, AnswersTypes, PrunedTypes DEF DoConflicts, Outcomes, TypeOK
  <1>4. ASSUME NEW r \in Requests, DoWaits(r), UNCHANGED object PROVE TypeOK'
    <2>1. Pruned[req[r].key] \in Requests
      BY <1>4, PrunedTypes DEF DoWaits, TypeOK, Request
    <2>2. [req[r] EXCEPT !.pc = "waiting", !.on = Pruned[req[r].key]] \in Request
      BY <1>4, <2>1, Updates DEF TypeOK
    <2>3. req' \in [Requests -> Request]
      BY <1>4, <2>2, SetTypes DEF DoWaits
    <2> QED BY <1>4, <2>3, PrunedTypes DEF DoWaits, TypeOK
  <1>5. ASSUME NEW r \in Requests, DoLimited(r), UNCHANGED object PROVE TypeOK'
    BY <1>5, AnswersTypes, PrunedTypes DEF DoLimited, Outcomes, TypeOK
  <1>6. ASSUME NEW r \in Requests, DoExecutes(r), UNCHANGED object PROVE TypeOK'
    BY <1>6, GotoTypes, PrunedTypes DEF DoExecutes, TypeOK
  <1>7. ASSUME NEW r \in Requests, Replay(r), UNCHANGED object PROVE TypeOK'
    <2>1. req[r].on \in Requests
      BY <1>7 DEF Replay, WaitsForItsLike, TypeOK, Request
    <2>2. req[req[r].on].outcome \in Outcomes \cup {"none"}
      BY <1>7, <2>1 DEF TypeOK, Request
    <2>3. req' \in [Requests -> Request]
      BY <1>7, <2>2, AnswersTypes DEF Replay
    <2> QED BY <1>7, <2>3 DEF Replay, TypeOK
  <1>8. ASSUME NEW r \in Requests, WaiterLeaves(r), UNCHANGED object PROVE TypeOK'
    BY <1>8, AnswersTypes DEF WaiterLeaves, Outcomes, TypeOK
  <1>9. ASSUME NEW r \in Requests, ReviewRefuses(r), UNCHANGED object PROVE TypeOK'
    BY <1>9, EndsTypes DEF ReviewRefuses, Outcomes, TypeOK
  <1>10. ASSUME NEW r \in Requests, ReviewPasses(r), UNCHANGED object PROVE TypeOK'
    BY <1>10, GotoTypes DEF ReviewPasses, TypeOK
  <1>11. ASSUME NEW r \in Requests, Begin(r), UNCHANGED object PROVE TypeOK'
    BY <1>11, EndsTypes, GotoTypes DEF Begin, Outcomes, TypeOK
  <1>12. ASSUME NEW r \in Requests, Check(r), UNCHANGED object PROVE TypeOK'
    BY <1>12, EndsTypes, GotoTypes DEF Check, Outcomes, TypeOK
  <1>13. ASSUME NEW r \in Requests, NEW outcome \in {"ok", "failed", "canceled"}, Returns(r, outcome), UNCHANGED object PROVE TypeOK'
    <2>1. [req[r] EXCEPT !.pc = "after", !.outcome = outcome] \in Request
      BY <1>13, Updates DEF TypeOK, Outcomes
    <2>2. req' \in [Requests -> Request]
      BY <1>13, <2>1, SetTypes DEF Returns
    <2> QED BY <1>13, <2>2, SMTT(30) DEF Returns, TypeOK
  <1>14. ASSUME NEW r \in Requests, After(r), UNCHANGED object PROVE TypeOK'
    <2>1. req[r].outcome \in Outcomes \cup {"none"}
      BY <1>14 DEF TypeOK, Request
    <2>2. req' \in [Requests -> Request]
      BY <1>14, <2>1, EndsTypes DEF After, Outcomes
    <2> QED BY <1>14, <2>2 DEF After, TypeOK
  <1>15. ASSUME NEW r \in Requests, Finish(r), UNCHANGED object PROVE TypeOK'
    <2>1. req[r].outcome \in Outcomes \cup {"none"}
      BY <1>15 DEF TypeOK, Request
    <2>2. req' \in [Requests -> Request]
      BY <1>15, <2>1, AnswersTypes DEF Finish
    <2> QED BY <1>15, <2>2, ZenonT(60) DEF Finish, TypeOK
  <1>16. ASSUME NEW r \in Requests, Send(r), UNCHANGED object PROVE TypeOK'
    <2>1. [req[r] EXCEPT !.pc = "sent", !.sent = TRUE] \in Request
      BY <1>16, Updates DEF TypeOK
    <2>2. req' \in [Requests -> Request]
      BY <1>16, <2>1, SetTypes DEF Send
    <2> QED BY <1>16, <2>2 DEF Send, TypeOK
  <1>17. ASSUME NEW r \in Requests, Serve(r) PROVE TypeOK'
    <2>1. [req[r] EXCEPT !.served = IF Fits(r) THEN "applied" ELSE "refused"] \in Request
      BY <1>17, Updates DEF TypeOK
    <2>2. req' \in [Requests -> Request]
      BY <1>17, <2>1, SetTypes DEF Serve
    <2>3. object \in Objects /\ object.version + 1 \in Nat
      BY <1>17 DEF TypeOK, Objects
    <2>4. (req[r].op # "delete") \in BOOLEAN
      BY <1>17
    <2>5. object' \in Objects
      BY <1>17, <2>3, <2>4, ObjectUpdates DEF Serve
    <2> QED BY <1>17, <2>2, <2>5 DEF Serve, TypeOK, Objects
  <1>18. ASSUME ChangeElsewhere PROVE TypeOK'
    <2>1. object \in Objects /\ object.version + 1 \in Nat /\ object.changes + 1 \in Nat
      BY <1>18 DEF TypeOK, Objects
    <2>2. object' \in Objects
      BY <1>18, <2>1, ObjectUpdates DEF ChangeElsewhere
    <2> QED BY <1>18, <2>2 DEF ChangeElsewhere, TypeOK, Objects
  <1>19. ASSUME NEW r \in Requests, Disconnect(r), UNCHANGED object PROVE TypeOK'
    <2>1. [req[r] EXCEPT !.left = TRUE] \in Request
      BY <1>19, Updates DEF TypeOK
    <2>2. req' \in [Requests -> Request]
      BY <1>19, <2>1, SetTypes DEF Disconnect
    <2> QED BY <1>19, <2>2, SMTT(30) DEF Disconnect, TypeOK
  <1>20. ASSUME Publish, UNCHANGED object PROVE TypeOK'
    BY <1>20 DEF Publish, TypeOK
  <1>21. ASSUME OnGenerationCollects, UNCHANGED object PROVE TypeOK'
    BY <1>21 DEF OnGenerationCollects, TypeOK
  <1>22. ASSUME OnGenerationCancels, UNCHANGED object PROVE TypeOK'
    BY <1>22, StopTypes DEF OnGenerationCancels, TypeOK
  <1>23. ASSUME ShutdownCollects, UNCHANGED object PROVE TypeOK'
    BY <1>23 DEF ShutdownCollects, TypeOK
  <1>24. ASSUME ShutdownCancels, UNCHANGED object PROVE TypeOK'
    BY <1>24, StopTypes DEF ShutdownCancels, TypeOK
  <1>25. ASSUME NEW k \in IKeys, Elapse(k), UNCHANGED object PROVE TypeOK'
    BY <1>25 DEF Elapse, TypeOK
  <1> QED
    BY <1>1, <1>2, <1>3, <1>4, <1>5, <1>6, <1>7, <1>8, <1>9, <1>10, <1>11, <1>12, <1>13, <1>14, <1>15, <1>16, <1>17, <1>18, <1>19, <1>20, <1>21, <1>22, <1>23, <1>24, <1>25 DEF Next, Step, Do, Return, vars, TypeOK

-----------------------------------------------------------------------------
(* What a step does to its request *)

\* The other requests, and what identifies this one, stay as they are.
Same(r) ==
    /\ \A s \in Requests \ {r} : req'[s] = req[s]
    /\ req'[r].op = req[r].op /\ req'[r].key = req[r].key /\ req'[r].body = req[r].body
    /\ req'[r].served = req[r].served

LEMMA AnswersEffect ==
    ASSUME TypeOK, NEW r \in Requests, NEW x, Answers(r, x)
    PROVE  /\ Same(r) /\ req'[r].gen = req[r].gen /\ req'[r].on = req[r].on /\ req'[r].sent = req[r].sent
           /\ req'[r].pc = "done" /\ req'[r].outcome = x
  BY DEF TypeOK, Request, Answers, Set, Same

LEMMA EndsEffect ==
    ASSUME TypeOK, NEW r \in Requests, NEW x, Ends(r, x)
    PROVE  /\ Same(r) /\ req'[r].gen = req[r].gen /\ req'[r].on = req[r].on /\ req'[r].sent = req[r].sent
           /\ req'[r].pc = (IF req[r].op = "restart" THEN "finish" ELSE "done") /\ req'[r].outcome = x
  <1>1. CASE req[r].op # "restart"
    BY <1>1, AnswersEffect DEF Ends
  <1>2. CASE req[r].op = "restart"
    <2>1. Set(r, [req[r] EXCEPT !.outcome = x, !.pc = "finish"])
      BY <1>2 DEF Ends
    <2> QED BY <1>2, <2>1 DEF TypeOK, Request, Set, Same
  <1> QED BY <1>1, <1>2

LEMMA GotoEffect ==
    ASSUME TypeOK, NEW r \in Requests, NEW p, Goto(r, p)
    PROVE  /\ Same(r) /\ req'[r].gen = req[r].gen /\ req'[r].on = req[r].on /\ req'[r].sent = req[r].sent
           /\ req'[r].pc = p /\ req'[r].outcome = req[r].outcome /\ req'[r].stop = req[r].stop
  BY DEF TypeOK, Request, Goto, Set, Same

LEMMA ArriveEffect ==
    ASSUME TypeOK, NEW r \in Requests, NEW seen, Arrive(r, seen)
    PROVE  /\ Same(r) /\ req'[r].on = req[r].on /\ req'[r].sent = req[r].sent /\ req'[r].outcome = req[r].outcome
           /\ req[r].pc = "idle" /\ req'[r].gen = gen
           /\ req'[r].pc = (IF req[r].op = "restart" THEN "do" ELSE "review")
  BY DEF TypeOK, Request, Arrive, Asked, Set, Same

\* An operation that ends, with all that it registered.
LEMMA EndsKeeps ==
    ASSUME TypeOK, ActionsInv, NEW r \in Requests, NEW x, Ends(r, x),
           req[r].pc \in Executing \ {"finish"}, x = "ok" => req[r].served = "applied",
           operations' = operations \ {r}, UNCHANGED <<gen, hook, down, entries, elapsed, released, object>>
    PROVE  ActionsInv'
  <1>0. /\ Same(r) /\ req'[r].gen = req[r].gen /\ req'[r].on = req[r].on /\ req'[r].sent = req[r].sent
        /\ req'[r].pc = (IF req[r].op = "restart" THEN "finish" ELSE "done") /\ req'[r].outcome = x
    BY EndsEffect
  <1>1. OperationsMatch'
    BY <1>0 DEF ActionsInv, OperationsMatch, Registered, Same
  <1>2. EntriesOwned'
    BY <1>0 DEF ActionsInv, EntriesOwned, Executing, Same, TypeOK
  <1>3. ExecutionsEntered'
    BY <1>0 DEF ActionsInv, ExecutionsEntered, Executing, Same
  <1>4. WaitsForItsLike'
    BY <1>0 DEF ActionsInv, WaitsForItsLike, Executing, SameIdentity, Same, TypeOK, Request
  <1>5. OkIsApplied'
    BY <1>0 DEF ActionsInv, OkIsApplied, Same, TypeOK, Request
  <1>6. AppliedIsPast' /\ SeenChangesOnce'
    BY <1>0 DEF ActionsInv, AppliedIsPast, SeenChangesOnce, Same
  <1>7. HookReaches' /\ ShutdownReaches'
    BY <1>0 DEF ActionsInv, HookReaches, ShutdownReaches, Same
  <1> QED BY <1>1, <1>2, <1>3, <1>4, <1>5, <1>6, <1>7 DEF ActionsInv

\* Pruning takes entries of ended executions only, and says so.
LEMMA PrunedOwned ==
    ASSUME TypeOK, ActionsInv, DoPrunes
    PROVE  /\ elapsed' = {}
           /\ \A k \in IKeys : Pruned[k] # NoOne => Pruned[k] = entries[k]
           /\ \A s \in Requests : req[s].op = "restart" =>
                /\ req[s].pc \in Executing => Pruned[req[s].key] = s
                /\ req[s].sent => req[s].pc # "idle" /\ (Pruned[req[s].key] = s \/ s \in released')
  <1>1. elapsed' = {} /\ \A k \in IKeys : Pruned[k] # NoOne => Pruned[k] = entries[k]
    BY DEF DoPrunes, Pruned, TypeOK
  <1>2. ASSUME NEW s \in Requests, req[s].op = "restart", req[s].pc \in Executing
        PROVE  Pruned[req[s].key] = s
    BY <1>2 DEF Pruned, ActionsInv, ExecutionsEntered, EntriesOwned, Executing, TypeOK, Request
  <1>3. ASSUME NEW s \in Requests, req[s].op = "restart", req[s].sent
        PROVE  req[s].pc # "idle" /\ (Pruned[req[s].key] = s \/ s \in released')
    BY <1>3 DEF DoPrunes, Pruned, ActionsInv, ExecutionsEntered, TypeOK, Request
  <1> QED BY <1>1, <1>2, <1>3

LEMMA RejectsKeeps ==
    ASSUME TypeOK, ActionsInv, NEW r \in Requests, NEW seen, Rejects(r, seen), UNCHANGED object
    PROVE  ActionsInv'
  <1>0. /\ Same(r) /\ req'[r].gen = req[r].gen /\ req'[r].on = req[r].on /\ req'[r].sent = req[r].sent
        /\ req'[r].pc = "done" /\ req'[r].outcome = "invalid" /\ req[r].pc = "idle"
    BY AnswersEffect DEF Rejects, Asked
  <1>1. OperationsMatch'
    BY <1>0 DEF Rejects, Same, ActionsInv, OperationsMatch, Registered
  <1>2. EntriesOwned'
    BY <1>0 DEF Rejects, Same, ActionsInv, EntriesOwned, Executing, WaitsForItsLike, TypeOK, Request
  <1>3. ExecutionsEntered'
    BY <1>0 DEF Rejects, Same, ActionsInv, ExecutionsEntered, EntriesOwned, Executing, TypeOK, Request
  <1>4. WaitsForItsLike'
    BY <1>0 DEF Rejects, Same, ActionsInv, WaitsForItsLike, EntriesOwned, Executing, SameIdentity, TypeOK, Request
  <1>5. OkIsApplied'
    BY <1>0 DEF Rejects, Same, ActionsInv, OkIsApplied, WaitsForItsLike, TypeOK, Request
  <1>6. AppliedIsPast' /\ SeenChangesOnce'
    BY <1>0 DEF Rejects, Same, ActionsInv, AppliedIsPast, SeenChangesOnce
  <1>7. HookReaches' /\ ShutdownReaches'
    BY <1>0 DEF Rejects, Same, ActionsInv, HookReaches, ShutdownReaches
  <1> QED BY <1>1, <1>2, <1>3, <1>4, <1>5, <1>6, <1>7 DEF ActionsInv

LEMMA ArriveKeeps ==
    ASSUME TypeOK, ActionsInv, NEW r \in Requests, NEW seen, Arrive(r, seen), UNCHANGED object
    PROVE  ActionsInv'
  <1>0. /\ Same(r) /\ req'[r].on = req[r].on /\ req'[r].sent = req[r].sent /\ req'[r].outcome = req[r].outcome
        /\ req[r].pc = "idle" /\ req'[r].gen = gen
        /\ req'[r].pc = (IF req[r].op = "restart" THEN "do" ELSE "review")
    BY ArriveEffect
  <1>1. OperationsMatch'
    BY <1>0 DEF Arrive, Same, ActionsInv, OperationsMatch, Registered
  <1>2. EntriesOwned'
    BY <1>0 DEF Arrive, Same, ActionsInv, EntriesOwned, Executing, WaitsForItsLike, TypeOK, Request
  <1>3. ExecutionsEntered'
    BY <1>0 DEF Arrive, Same, ActionsInv, ExecutionsEntered, EntriesOwned, Executing, TypeOK, Request
  <1>4. WaitsForItsLike'
    BY <1>0 DEF Arrive, Same, ActionsInv, WaitsForItsLike, EntriesOwned, Executing, SameIdentity, TypeOK, Request
  <1>5. OkIsApplied'
    BY <1>0 DEF Same, ActionsInv, OkIsApplied, WaitsForItsLike, TypeOK, Request
  <1>6. AppliedIsPast' /\ SeenChangesOnce'
    BY <1>0 DEF Arrive, Same, ActionsInv, AppliedIsPast, SeenChangesOnce
  <1>7. HookReaches' /\ ShutdownReaches'
    BY <1>0 DEF Arrive, Same, ActionsInv, HookReaches, ShutdownReaches
  <1> QED BY <1>1, <1>2, <1>3, <1>4, <1>5, <1>6, <1>7 DEF ActionsInv

LEMMA DoConflictsKeeps ==
    ASSUME TypeOK, ActionsInv, NEW r \in Requests, DoConflicts(r), UNCHANGED object
    PROVE  ActionsInv'
  <1>0. /\ Same(r) /\ req'[r].gen = req[r].gen /\ req'[r].on = req[r].on /\ req'[r].sent = req[r].sent
        /\ req'[r].pc = "done" /\ req'[r].outcome = "conflict" /\ req[r].pc = "do"
    BY AnswersEffect DEF DoConflicts
  <1>1. OperationsMatch'
    BY <1>0 DEF DoConflicts, DoPrunes, Pruned, Same, ActionsInv, OperationsMatch, Registered
  <1>2. EntriesOwned'
    BY <1>0, PrunedOwned DEF DoConflicts, Same, ActionsInv, EntriesOwned, Executing, WaitsForItsLike, TypeOK, Request
  <1>3. ExecutionsEntered'
    BY <1>0, PrunedOwned DEF DoConflicts, Same, ActionsInv, ExecutionsEntered, Executing, TypeOK, Request
  <1>4. WaitsForItsLike'
    BY <1>0 DEF DoConflicts, DoPrunes, Pruned, Same, ActionsInv, WaitsForItsLike, EntriesOwned, Executing, SameIdentity, TypeOK, Request
  <1>5. OkIsApplied'
    BY <1>0 DEF DoConflicts, DoPrunes, Pruned, Same, ActionsInv, OkIsApplied, WaitsForItsLike, TypeOK, Request
  <1>6. AppliedIsPast' /\ SeenChangesOnce'
    BY <1>0 DEF DoConflicts, DoPrunes, Pruned, Same, ActionsInv, AppliedIsPast, SeenChangesOnce
  <1>7. HookReaches' /\ ShutdownReaches'
    BY <1>0 DEF DoConflicts, DoPrunes, Pruned, Same, ActionsInv, HookReaches, ShutdownReaches
  <1> QED BY <1>1, <1>2, <1>3, <1>4, <1>5, <1>6, <1>7 DEF ActionsInv

LEMMA DoLimitedKeeps ==
    ASSUME TypeOK, ActionsInv, NEW r \in Requests, DoLimited(r), UNCHANGED object
    PROVE  ActionsInv'
  <1>0. /\ Same(r) /\ req'[r].gen = req[r].gen /\ req'[r].on = req[r].on /\ req'[r].sent = req[r].sent
        /\ req'[r].pc = "done" /\ req'[r].outcome = "limit" /\ req[r].pc = "do"
    BY AnswersEffect DEF DoLimited
  <1>1. OperationsMatch'
    BY <1>0 DEF DoLimited, DoPrunes, Pruned, Same, ActionsInv, OperationsMatch, Registered
  <1>2. EntriesOwned'
    BY <1>0, PrunedOwned DEF DoLimited, Same, ActionsInv, EntriesOwned, Executing, WaitsForItsLike, TypeOK, Request
  <1>3. ExecutionsEntered'
    BY <1>0, PrunedOwned DEF DoLimited, Same, ActionsInv, ExecutionsEntered, Executing, TypeOK, Request
  <1>4. WaitsForItsLike'
    BY <1>0 DEF DoLimited, DoPrunes, Pruned, Same, ActionsInv, WaitsForItsLike, EntriesOwned, Executing, SameIdentity, TypeOK, Request
  <1>5. OkIsApplied'
    BY <1>0 DEF DoLimited, DoPrunes, Pruned, Same, ActionsInv, OkIsApplied, WaitsForItsLike, TypeOK, Request
  <1>6. AppliedIsPast' /\ SeenChangesOnce'
    BY <1>0 DEF DoLimited, DoPrunes, Pruned, Same, ActionsInv, AppliedIsPast, SeenChangesOnce
  <1>7. HookReaches' /\ ShutdownReaches'
    BY <1>0 DEF DoLimited, DoPrunes, Pruned, Same, ActionsInv, HookReaches, ShutdownReaches
  <1> QED BY <1>1, <1>2, <1>3, <1>4, <1>5, <1>6, <1>7 DEF ActionsInv

LEMMA DoWaitsKeeps ==
    ASSUME TypeOK, ActionsInv, NEW r \in Requests, DoWaits(r), UNCHANGED object
    PROVE  ActionsInv'
  <1>0. /\ Same(r) /\ req'[r].gen = req[r].gen /\ req'[r].sent = req[r].sent /\ req'[r].outcome = req[r].outcome
        /\ req'[r].pc = "waiting" /\ req[r].pc = "do" /\ req'[r].on = Pruned[req[r].key]
        /\ Pruned[req[r].key] # NoOne /\ SameIdentity(r, Pruned[req[r].key])
    BY DEF DoWaits, Set, Same, TypeOK, Request
  <1>1. OperationsMatch'
    BY <1>0 DEF DoWaits, DoPrunes, Pruned, Same, ActionsInv, OperationsMatch, Registered
  <1>2. EntriesOwned'
    BY <1>0, PrunedOwned DEF DoWaits, Same, ActionsInv, EntriesOwned, Executing, WaitsForItsLike, TypeOK, Request
  <1>3. ExecutionsEntered'
    BY <1>0, PrunedOwned DEF DoWaits, Same, ActionsInv, ExecutionsEntered, Executing, TypeOK, Request
  <1>4. WaitsForItsLike'
    BY <1>0 DEF DoWaits, DoPrunes, Pruned, Same, ActionsInv, WaitsForItsLike, EntriesOwned, Executing, SameIdentity, TypeOK, Request
  <1>5. OkIsApplied'
    BY <1>0 DEF DoWaits, DoPrunes, Pruned, Same, ActionsInv, OkIsApplied, WaitsForItsLike, TypeOK, Request
  <1>6. AppliedIsPast' /\ SeenChangesOnce'
    BY <1>0 DEF DoWaits, DoPrunes, Pruned, Same, ActionsInv, AppliedIsPast, SeenChangesOnce
  <1>7. HookReaches' /\ ShutdownReaches'
    BY <1>0 DEF DoWaits, DoPrunes, Pruned, Same, ActionsInv, HookReaches, ShutdownReaches
  <1> QED BY <1>1, <1>2, <1>3, <1>4, <1>5, <1>6, <1>7 DEF ActionsInv

LEMMA DoExecutesKeeps ==
    ASSUME TypeOK, ActionsInv, NEW r \in Requests, DoExecutes(r), UNCHANGED object
    PROVE  ActionsInv'
  <1>0. /\ Same(r) /\ req'[r].gen = req[r].gen /\ req'[r].on = req[r].on /\ req'[r].sent = req[r].sent
        /\ req'[r].pc = "review" /\ req'[r].outcome = req[r].outcome /\ req[r].pc = "do"
    BY GotoEffect DEF DoExecutes
  <1>1. OperationsMatch'
    BY <1>0 DEF DoExecutes, DoPrunes, Pruned, Same, ActionsInv, OperationsMatch, Registered
  <1>2. EntriesOwned'
    <2>1. Pruned \in [IKeys -> Requests \cup {NoOne}] /\ req[r].key \in IKeys /\ elapsed' = {}
      BY PrunedTypes DEF DoExecutes, ActionsInv, DoPrunes, TypeOK, Request
    <2>2. req'[r].on = NoOne /\ req'[r].op = "restart"
      BY <1>0 DEF Same, ActionsInv, WaitsForItsLike, ExecutionsEntered, TypeOK, Request
    <2>3. ASSUME NEW k \in IKeys, k # req[r].key, entries'[k] # NoOne
          PROVE  entries'[k] = entries[k] /\ entries[k] # r
      BY <1>0, <2>1, <2>3, PrunedOwned DEF DoExecutes, ActionsInv, EntriesOwned, Executing
    <2>4. entries'[req[r].key] = r
      BY <2>1 DEF DoExecutes
    <2>5. ASSUME NEW k \in IKeys, entries'[k] # NoOne
          PROVE  /\ req'[entries'[k]].key = k /\ req'[entries'[k]].op = "restart" /\ req'[entries'[k]].on = NoOne
                 /\ req'[entries'[k]].pc \in Executing \cup {"done"}
      <3>1. CASE k = req[r].key
        BY <1>0, <2>2, <2>4, <3>1 DEF Same, Executing
      <3>2. CASE k # req[r].key
        BY <1>0, <2>3, <2>5, <3>2 DEF Same, ActionsInv, EntriesOwned, TypeOK
      <3> QED BY <3>1, <3>2
    <2> QED BY <2>1, <2>5 DEF EntriesOwned
  <1>3. ExecutionsEntered'
    <2>1. Pruned \in [IKeys -> Requests \cup {NoOne}] /\ \A s \in Requests : req[s].key \in IKeys
      BY PrunedTypes DEF DoExecutes, ActionsInv, TypeOK, Request
    <2>2. entries' = [Pruned EXCEPT ![req[r].key] = r] /\ DoPrunes /\ Pruned[req[r].key] = NoOne
      BY DEF DoExecutes
    <2> QED BY <1>0, <2>1, <2>2, PrunedOwned DEF ActionsInv, ExecutionsEntered, Executing, Same
  <1>4. WaitsForItsLike'
    BY <1>0 DEF DoExecutes, DoPrunes, Pruned, Same, ActionsInv, WaitsForItsLike, EntriesOwned, Executing, SameIdentity, TypeOK, Request
  <1>5. OkIsApplied'
    BY <1>0 DEF DoExecutes, DoPrunes, Pruned, Same, ActionsInv, OkIsApplied, WaitsForItsLike, TypeOK, Request
  <1>6. AppliedIsPast' /\ SeenChangesOnce'
    BY <1>0 DEF DoExecutes, DoPrunes, Pruned, Same, ActionsInv, AppliedIsPast, SeenChangesOnce
  <1>7. HookReaches' /\ ShutdownReaches'
    BY <1>0 DEF DoExecutes, DoPrunes, Pruned, Same, ActionsInv, HookReaches, ShutdownReaches
  <1> QED BY <1>1, <1>2, <1>3, <1>4, <1>5, <1>6, <1>7 DEF ActionsInv

LEMMA ReplayKeeps ==
    ASSUME TypeOK, ActionsInv, NEW r \in Requests, Replay(r), UNCHANGED object
    PROVE  ActionsInv'
  <1>0. /\ Same(r) /\ req'[r].gen = req[r].gen /\ req'[r].on = req[r].on /\ req'[r].sent = req[r].sent
        /\ req'[r].pc = "done" /\ req'[r].outcome = req[req[r].on].outcome /\ req[r].pc = "waiting"
    BY AnswersEffect DEF Replay
  <1>1. OperationsMatch'
    BY <1>0 DEF Replay, Same, ActionsInv, OperationsMatch, Registered
  <1>2. EntriesOwned'
    BY <1>0 DEF Replay, Same, ActionsInv, EntriesOwned, Executing, WaitsForItsLike, TypeOK, Request
  <1>3. ExecutionsEntered'
    BY <1>0 DEF Replay, Same, ActionsInv, ExecutionsEntered, EntriesOwned, Executing, TypeOK, Request
  <1>4. WaitsForItsLike'
    BY <1>0 DEF Replay, Same, ActionsInv, WaitsForItsLike, EntriesOwned, Executing, SameIdentity, TypeOK, Request
  <1>5. OkIsApplied'
    BY <1>0 DEF Replay, Same, ActionsInv, OkIsApplied, WaitsForItsLike, TypeOK, Request
  <1>6. AppliedIsPast' /\ SeenChangesOnce'
    BY <1>0 DEF Replay, Same, ActionsInv, AppliedIsPast, SeenChangesOnce
  <1>7. HookReaches' /\ ShutdownReaches'
    BY <1>0 DEF Replay, Same, ActionsInv, HookReaches, ShutdownReaches
  <1> QED BY <1>1, <1>2, <1>3, <1>4, <1>5, <1>6, <1>7 DEF ActionsInv

LEMMA WaiterLeavesKeeps ==
    ASSUME TypeOK, ActionsInv, NEW r \in Requests, WaiterLeaves(r), UNCHANGED object
    PROVE  ActionsInv'
  <1>0. /\ Same(r) /\ req'[r].gen = req[r].gen /\ req'[r].on = req[r].on /\ req'[r].sent = req[r].sent
        /\ req'[r].pc = "done" /\ req'[r].outcome = "canceled" /\ req[r].pc = "waiting"
    BY AnswersEffect DEF WaiterLeaves
  <1>1. OperationsMatch'
    BY <1>0 DEF WaiterLeaves, Same, ActionsInv, OperationsMatch, Registered
  <1>2. EntriesOwned'
    BY <1>0 DEF WaiterLeaves, Same, ActionsInv, EntriesOwned, Executing, WaitsForItsLike, TypeOK, Request
  <1>3. ExecutionsEntered'
    BY <1>0 DEF WaiterLeaves, Same, ActionsInv, ExecutionsEntered, EntriesOwned, Executing, TypeOK, Request
  <1>4. WaitsForItsLike'
    BY <1>0 DEF WaiterLeaves, Same, ActionsInv, WaitsForItsLike, EntriesOwned, Executing, SameIdentity, TypeOK, Request
  <1>5. OkIsApplied'
    BY <1>0 DEF WaiterLeaves, Same, ActionsInv, OkIsApplied, WaitsForItsLike, TypeOK, Request
  <1>6. AppliedIsPast' /\ SeenChangesOnce'
    BY <1>0 DEF WaiterLeaves, Same, ActionsInv, AppliedIsPast, SeenChangesOnce
  <1>7. HookReaches' /\ ShutdownReaches'
    BY <1>0 DEF WaiterLeaves, Same, ActionsInv, HookReaches, ShutdownReaches
  <1> QED BY <1>1, <1>2, <1>3, <1>4, <1>5, <1>6, <1>7 DEF ActionsInv

LEMMA ReviewPassesKeeps ==
    ASSUME TypeOK, ActionsInv, NEW r \in Requests, ReviewPasses(r), UNCHANGED object
    PROVE  ActionsInv'
  <1>0. /\ Same(r) /\ req'[r].gen = req[r].gen /\ req'[r].on = req[r].on /\ req'[r].sent = req[r].sent
        /\ req'[r].pc = "callback" /\ req'[r].outcome = req[r].outcome /\ req[r].pc = "review"
    BY GotoEffect DEF ReviewPasses
  <1>1. OperationsMatch'
    BY <1>0 DEF ReviewPasses, Same, ActionsInv, OperationsMatch, Registered
  <1>2. EntriesOwned'
    BY <1>0 DEF ReviewPasses, Same, ActionsInv, EntriesOwned, Executing, WaitsForItsLike, TypeOK, Request
  <1>3. ExecutionsEntered'
    BY <1>0 DEF ReviewPasses, Same, ActionsInv, ExecutionsEntered, EntriesOwned, Executing, TypeOK, Request
  <1>4. WaitsForItsLike'
    BY <1>0 DEF ReviewPasses, Same, ActionsInv, WaitsForItsLike, EntriesOwned, Executing, SameIdentity, TypeOK, Request
  <1>5. OkIsApplied'
    BY <1>0 DEF ReviewPasses, Same, ActionsInv, OkIsApplied, WaitsForItsLike, TypeOK, Request
  <1>6. AppliedIsPast' /\ SeenChangesOnce'
    BY <1>0 DEF ReviewPasses, Same, ActionsInv, AppliedIsPast, SeenChangesOnce
  <1>7. HookReaches' /\ ShutdownReaches'
    BY <1>0 DEF ReviewPasses, Same, ActionsInv, HookReaches, ShutdownReaches
  <1> QED BY <1>1, <1>2, <1>3, <1>4, <1>5, <1>6, <1>7 DEF ActionsInv

LEMMA ReviewRefusesKeeps ==
    ASSUME TypeOK, ActionsInv, NEW r \in Requests, ReviewRefuses(r), UNCHANGED object
    PROVE  ActionsInv'
  <1>1. operations' = operations \ {r}
    BY DEF ReviewRefuses, ActionsInv, OperationsMatch, Registered
  <1> QED BY <1>1, EndsKeeps DEF ReviewRefuses, Executing

LEMMA BeginKeeps ==
    ASSUME TypeOK, ActionsInv, NEW r \in Requests, Begin(r), UNCHANGED object
    PROVE  ActionsInv'
  <1>1. ASSUME NEW x \in {"canceled", "shutdown"}, Ends(r, x), UNCHANGED operations PROVE ActionsInv'
    <2>1. operations' = operations \ {r}
      BY <1>1 DEF Begin, ActionsInv, OperationsMatch, Registered
    <2> QED BY <1>1, <2>1, EndsKeeps DEF Begin, Executing
  <1>2. ASSUME ~ down.flag, operations' = operations \cup {r}, Goto(r, "check") PROVE ActionsInv'
    <2>0. /\ Same(r) /\ req'[r].gen = req[r].gen /\ req'[r].on = req[r].on /\ req'[r].sent = req[r].sent
          /\ req'[r].pc = "check" /\ req'[r].outcome = req[r].outcome /\ req[r].pc = "callback"
          /\ ~ down.flag /\ operations' = operations \cup {r}
          /\ UNCHANGED <<gen, hook, down, entries, elapsed, released>>
      BY <1>2, GotoEffect DEF Begin
    <2>1. OperationsMatch'
      BY <2>0 DEF vars, Same, ActionsInv, OperationsMatch, Registered
    <2>2. EntriesOwned'
      BY <2>0 DEF vars, Same, ActionsInv, EntriesOwned, Executing, WaitsForItsLike, TypeOK, Request
    <2>3. ExecutionsEntered'
      BY <2>0 DEF vars, Same, ActionsInv, ExecutionsEntered, EntriesOwned, Executing, TypeOK, Request
    <2>4. WaitsForItsLike'
      BY <2>0 DEF vars, Same, ActionsInv, WaitsForItsLike, EntriesOwned, Executing, SameIdentity, TypeOK, Request
    <2>5. OkIsApplied'
      BY <2>0 DEF vars, Same, ActionsInv, OkIsApplied, WaitsForItsLike, TypeOK, Request
    <2>6. AppliedIsPast' /\ SeenChangesOnce'
      BY <2>0 DEF vars, Same, ActionsInv, AppliedIsPast, SeenChangesOnce
    <2>7. HookReaches' /\ ShutdownReaches'
      BY <2>0 DEF vars, Same, ActionsInv, HookReaches, ShutdownReaches
    <2> QED BY <2>1, <2>2, <2>3, <2>4, <2>5, <2>6, <2>7 DEF ActionsInv
  <1> QED BY <1>1, <1>2 DEF Begin

LEMMA CheckKeeps ==
    ASSUME TypeOK, ActionsInv, NEW r \in Requests, Check(r), UNCHANGED object
    PROVE  ActionsInv'
  <1>1. ASSUME Ends(r, "changed"), operations' = operations \ {r} PROVE ActionsInv'
    BY <1>1, EndsKeeps DEF Check, Executing
  <1>2. ASSUME req[r].gen = gen, Goto(r, "sending"), UNCHANGED operations PROVE ActionsInv'
    <2>0. /\ Same(r) /\ req'[r].gen = req[r].gen /\ req'[r].on = req[r].on /\ req'[r].sent = req[r].sent
          /\ req'[r].pc = "sending" /\ req'[r].outcome = req[r].outcome /\ req[r].pc = "check"
          /\ req[r].gen = gen /\ req'[r].stop = req[r].stop
          /\ UNCHANGED <<gen, hook, operations, down, entries, elapsed, released>>
      BY <1>2, GotoEffect DEF Check
    <2>1. OperationsMatch'
      BY <2>0 DEF vars, Same, ActionsInv, OperationsMatch, Registered
    <2>2. EntriesOwned'
      BY <2>0 DEF vars, Same, ActionsInv, EntriesOwned, Executing, WaitsForItsLike, TypeOK, Request
    <2>3. ExecutionsEntered'
      BY <2>0 DEF vars, Same, ActionsInv, ExecutionsEntered, EntriesOwned, Executing, TypeOK, Request
    <2>4. WaitsForItsLike'
      BY <2>0 DEF vars, Same, ActionsInv, WaitsForItsLike, EntriesOwned, Executing, SameIdentity, TypeOK, Request
    <2>5. OkIsApplied'
      BY <2>0 DEF vars, Same, ActionsInv, OkIsApplied, WaitsForItsLike, TypeOK, Request
    <2>6. AppliedIsPast' /\ SeenChangesOnce'
      BY <2>0 DEF vars, Same, ActionsInv, AppliedIsPast, SeenChangesOnce
    <2>7. HookReaches' /\ ShutdownReaches'
      BY <2>0 DEF vars, Same, ActionsInv, HookReaches, ShutdownReaches
    <2> QED BY <2>1, <2>2, <2>3, <2>4, <2>5, <2>6, <2>7 DEF ActionsInv
  <1> QED BY <1>1, <1>2 DEF Check

LEMMA SendKeeps ==
    ASSUME TypeOK, ActionsInv, NEW r \in Requests, Send(r), UNCHANGED object
    PROVE  ActionsInv'
  <1>0. /\ Same(r) /\ req'[r].gen = req[r].gen /\ req'[r].on = req[r].on /\ req'[r].sent
        /\ req'[r].pc = "sent" /\ req'[r].outcome = req[r].outcome /\ req[r].pc = "sending"
    BY DEF Send, Set, Same, TypeOK, Request
  <1>1. OperationsMatch'
    BY <1>0 DEF Send, Same, ActionsInv, OperationsMatch, Registered
  <1>2. EntriesOwned'
    BY <1>0 DEF Send, Same, ActionsInv, EntriesOwned, Executing, WaitsForItsLike, TypeOK, Request
  <1>3. ExecutionsEntered'
    BY <1>0 DEF Send, Same, ActionsInv, ExecutionsEntered, EntriesOwned, Executing, TypeOK, Request
  <1>4. WaitsForItsLike'
    BY <1>0 DEF Send, Same, ActionsInv, WaitsForItsLike, EntriesOwned, Executing, SameIdentity, TypeOK, Request
  <1>5. OkIsApplied'
    BY <1>0 DEF Send, Same, ActionsInv, OkIsApplied, WaitsForItsLike, TypeOK, Request
  <1>6. AppliedIsPast' /\ SeenChangesOnce'
    BY <1>0 DEF Send, Same, ActionsInv, AppliedIsPast, SeenChangesOnce
  <1>7. HookReaches' /\ ShutdownReaches'
    BY <1>0 DEF Send, Same, ActionsInv, HookReaches, ShutdownReaches
  <1> QED BY <1>1, <1>2, <1>3, <1>4, <1>5, <1>6, <1>7 DEF ActionsInv

LEMMA ReturnsKeeps ==
    ASSUME TypeOK, ActionsInv, NEW r \in Requests, NEW outcome, Returns(r, outcome), UNCHANGED object
    PROVE  ActionsInv'
  <1>0. /\ Same(r) /\ req'[r].gen = req[r].gen /\ req'[r].on = req[r].on /\ req'[r].sent = req[r].sent
        /\ req'[r].pc = "after" /\ req'[r].outcome = outcome /\ req[r].pc \in {"sending", "sent"}
        /\ outcome = "ok" => req[r].served = "applied"
    BY DEF Returns, Set, Same, TypeOK, Request
  <1>1. OperationsMatch'
    BY <1>0 DEF Returns, Same, ActionsInv, OperationsMatch, Registered
  <1>2. EntriesOwned'
    BY <1>0 DEF Returns, Same, ActionsInv, EntriesOwned, Executing, WaitsForItsLike, TypeOK, Request
  <1>3. ExecutionsEntered'
    BY <1>0 DEF Returns, Same, ActionsInv, ExecutionsEntered, EntriesOwned, Executing, TypeOK, Request
  <1>4. WaitsForItsLike'
    BY <1>0 DEF Returns, Same, ActionsInv, WaitsForItsLike, EntriesOwned, Executing, SameIdentity, TypeOK, Request
  <1>5. OkIsApplied'
    BY <1>0 DEF Returns, Same, ActionsInv, OkIsApplied, WaitsForItsLike, TypeOK, Request
  <1>6. AppliedIsPast' /\ SeenChangesOnce'
    BY <1>0 DEF Returns, Same, ActionsInv, AppliedIsPast, SeenChangesOnce
  <1>7. HookReaches' /\ ShutdownReaches'
    BY <1>0 DEF Returns, Same, ActionsInv, HookReaches, ShutdownReaches
  <1> QED BY <1>1, <1>2, <1>3, <1>4, <1>5, <1>6, <1>7 DEF ActionsInv

LEMMA AfterKeeps ==
    ASSUME TypeOK, ActionsInv, NEW r \in Requests, After(r), UNCHANGED object
    PROVE  ActionsInv'
  <1>1. req[r].outcome = "ok" => req[r].served = "applied"
    BY DEF After, ActionsInv, OkIsApplied, WaitsForItsLike
  <1> QED BY <1>1, EndsKeeps DEF After, Executing

LEMMA FinishKeeps ==
    ASSUME TypeOK, ActionsInv, NEW r \in Requests, Finish(r), UNCHANGED object
    PROVE  ActionsInv'
  <1>0. /\ Same(r) /\ req'[r].gen = req[r].gen /\ req'[r].on = req[r].on /\ req'[r].sent = req[r].sent
        /\ req'[r].pc = "done" /\ req'[r].outcome = req[r].outcome /\ req[r].pc = "finish"
    BY AnswersEffect DEF Finish
  <1>1. OperationsMatch'
    BY <1>0 DEF Finish, Same, ActionsInv, OperationsMatch, Registered
  <1>2. EntriesOwned'
    <2>1. entries[req[r].key] = r /\ req[r].key \in IKeys
      BY <1>0 DEF ActionsInv, ExecutionsEntered, Executing, TypeOK, Request
    <2>2. req[r].key \notin elapsed
      BY <1>0, <2>1 DEF ActionsInv, EntriesOwned
    <2>3. \A k \in IKeys : entries'[k] \in {NoOne, entries[k]} /\ (k # req[r].key => entries'[k] = entries[k])
      BY <2>1 DEF Finish, TypeOK
    <2> QED BY <1>0, <2>2, <2>3 DEF Finish, Same, ActionsInv, EntriesOwned, TypeOK
  <1>3. ExecutionsEntered'
    <2>1. \A k \in IKeys : k # req[r].key => entries'[k] = entries[k]
      BY DEF Finish, TypeOK
    <2>2. entries'[req[r].key] = r \/ r \in released'
      BY <1>0 DEF Finish, ActionsInv, ExecutionsEntered, Executing, TypeOK, Request
    <2>3. ASSUME NEW s \in Requests, s # r, entries[req[s].key] = s
          PROVE  entries'[req[s].key] = s
      BY <1>0, <2>1, <2>3 DEF ActionsInv, ExecutionsEntered, Executing, TypeOK, Request
    <2> QED BY <1>0, <2>2, <2>3 DEF Finish, Same, ActionsInv, ExecutionsEntered, Executing
  <1>4. WaitsForItsLike'
    BY <1>0 DEF Finish, Same, ActionsInv, WaitsForItsLike, EntriesOwned, Executing, SameIdentity, TypeOK, Request
  <1>5. OkIsApplied'
    BY <1>0 DEF Finish, Same, ActionsInv, OkIsApplied, WaitsForItsLike, TypeOK, Request
  <1>6. AppliedIsPast' /\ SeenChangesOnce'
    BY <1>0 DEF Finish, Same, ActionsInv, AppliedIsPast, SeenChangesOnce
  <1>7. HookReaches' /\ ShutdownReaches'
    BY <1>0 DEF Finish, Same, ActionsInv, HookReaches, ShutdownReaches
  <1> QED BY <1>1, <1>2, <1>3, <1>4, <1>5, <1>6, <1>7 DEF ActionsInv

LEMMA ServeKeeps ==
    ASSUME TypeOK, ActionsInv, NEW r \in Requests, Serve(r)
    PROVE  ActionsInv'
  <1>0. /\ \A s \in Requests \ {r} : req'[s] = req[s]
        /\ req'[r].gen = req[r].gen /\ req'[r].on = req[r].on /\ req'[r].sent = req[r].sent /\ req'[r].stop = req[r].stop
        /\ req'[r].pc = req[r].pc /\ req'[r].outcome = req[r].outcome /\ req[r].served = "no"
        /\ req'[r].op = req[r].op /\ req'[r].key = req[r].key /\ req'[r].body = req[r].body
        /\ req'[r].served = IF Fits(r) THEN "applied" ELSE "refused"
    <2> DEFINE v == IF Fits(r) THEN "applied" ELSE "refused"
    <2>1. req' = [req EXCEPT ![r] = [req[r] EXCEPT !.served = v]] /\ req[r].served = "no"
      BY DEF Serve, Set
    <2> HIDE DEF v
    <2>2. /\ \A s \in Requests \ {r} : req'[s] = req[s]
          /\ req'[r].gen = req[r].gen /\ req'[r].on = req[r].on /\ req'[r].sent = req[r].sent /\ req'[r].stop = req[r].stop
          /\ req'[r].pc = req[r].pc /\ req'[r].outcome = req[r].outcome /\ req[r].served = "no"
          /\ req'[r].op = req[r].op /\ req'[r].key = req[r].key /\ req'[r].body = req[r].body
          /\ req'[r].served = v
      BY <2>1 DEF TypeOK, Request
    <2> QED BY <2>2 DEF v
  <1>1. OperationsMatch'
    BY <1>0 DEF Serve, Same, ActionsInv, OperationsMatch, Registered
  <1>2. EntriesOwned'
    BY <1>0 DEF Serve, Same, ActionsInv, EntriesOwned, Executing, WaitsForItsLike, TypeOK, Request
  <1>3. ExecutionsEntered'
    BY <1>0 DEF Serve, Same, ActionsInv, ExecutionsEntered, EntriesOwned, Executing, TypeOK, Request
  <1>4. WaitsForItsLike'
    BY <1>0 DEF Serve, Same, ActionsInv, WaitsForItsLike, EntriesOwned, Executing, SameIdentity, TypeOK, Request
  <1>5. OkIsApplied'
    BY <1>0 DEF Serve, Same, ActionsInv, OkIsApplied, WaitsForItsLike, TypeOK, Request
  <1>6. AppliedIsPast' /\ SeenChangesOnce'
    <2>1. object.version \in Nat /\ \A s \in Requests : req[s].body \in Nat /\ req[s].op \in MutationKinds
      BY DEF TypeOK, Request
    <2>2. Fits(r) /\ req[r].op # "trigger" => object.version = req[r].body /\ object'.version = object.version + 1
      BY <2>1 DEF Serve, Fits, PatchFits, ScaleFits, DeleteFits, MutationKinds, TypeOK
    <2>3. object'.version \in {object.version, object.version + 1}
      BY DEF Serve, TypeOK
    <2>4. AppliedIsPast'
      BY <1>0, <2>1, <2>2, <2>3 DEF ActionsInv, AppliedIsPast
    <2>5. SeenChangesOnce'
      BY <1>0, <2>1, <2>2 DEF ActionsInv, AppliedIsPast, SeenChangesOnce
    <2> QED BY <2>4, <2>5
  <1>7. HookReaches' /\ ShutdownReaches'
    BY <1>0 DEF Serve, Same, ActionsInv, HookReaches, ShutdownReaches
  <1> QED BY <1>1, <1>2, <1>3, <1>4, <1>5, <1>6, <1>7 DEF ActionsInv

LEMMA DisconnectKeeps ==
    ASSUME TypeOK, ActionsInv, NEW r \in Requests, Disconnect(r), UNCHANGED object
    PROVE  ActionsInv'
  <1>0. /\ Same(r) /\ req'[r].gen = req[r].gen /\ req'[r].on = req[r].on /\ req'[r].sent = req[r].sent
        /\ req'[r].pc = req[r].pc /\ req'[r].outcome = req[r].outcome /\ req'[r].stop = req[r].stop
    BY DEF Disconnect, Set, Same, TypeOK, Request
  <1>1. OperationsMatch'
    BY <1>0 DEF Disconnect, Same, ActionsInv, OperationsMatch, Registered
  <1>2. EntriesOwned'
    BY <1>0 DEF Disconnect, Same, ActionsInv, EntriesOwned, Executing, WaitsForItsLike, TypeOK, Request
  <1>3. ExecutionsEntered'
    BY <1>0 DEF Disconnect, Same, ActionsInv, ExecutionsEntered, EntriesOwned, Executing, TypeOK, Request
  <1>4. WaitsForItsLike'
    BY <1>0 DEF Same, ActionsInv, WaitsForItsLike, SameIdentity, TypeOK, Request
  <1>5. OkIsApplied'
    BY <1>0 DEF Disconnect, Same, ActionsInv, OkIsApplied, WaitsForItsLike, TypeOK, Request
  <1>6. AppliedIsPast' /\ SeenChangesOnce'
    BY <1>0 DEF Disconnect, Same, ActionsInv, AppliedIsPast, SeenChangesOnce
  <1>7. HookReaches' /\ ShutdownReaches'
    BY <1>0 DEF Disconnect, Same, ActionsInv, HookReaches, ShutdownReaches
  <1> QED BY <1>1, <1>2, <1>3, <1>4, <1>5, <1>6, <1>7 DEF ActionsInv

LEMMA StopKeeps ==
    ASSUME TypeOK, ActionsInv, NEW rs, Stop(rs), UNCHANGED <<gen, operations, entries, elapsed, released, object>>
    PROVE  /\ OperationsMatch' /\ EntriesOwned' /\ ExecutionsEntered' /\ WaitsForItsLike'
           /\ OkIsApplied' /\ AppliedIsPast' /\ SeenChangesOnce'
           /\ \A s \in Requests :
                /\ req'[s].pc = req[s].pc /\ req'[s].gen = req[s].gen
                /\ req[s].stop \/ s \in rs \cap operations => req'[s].stop
  <1>0. \A s \in Requests :
          /\ req'[s].op = req[s].op /\ req'[s].key = req[s].key /\ req'[s].body = req[s].body
          /\ req'[s].gen = req[s].gen /\ req'[s].on = req[s].on /\ req'[s].sent = req[s].sent
          /\ req'[s].pc = req[s].pc /\ req'[s].outcome = req[s].outcome /\ req'[s].served = req[s].served
          /\ req[s].stop \/ s \in rs \cap operations => req'[s].stop
    <2> TAKE s \in Requests
    <2>1. CASE s \in rs \cap operations
      <3>1. req'[s] = [req[s] EXCEPT !.stop = TRUE]
        BY <2>1 DEF Stop
      <3> QED BY <3>1 DEF TypeOK, Request
    <2>2. CASE s \notin rs \cap operations
      <3>1. req'[s] = req[s]
        BY <2>2 DEF Stop
      <3> QED BY <2>2, <3>1
    <2> QED BY <2>1, <2>2
  <1>1. OperationsMatch' /\ EntriesOwned' /\ ExecutionsEntered'
    BY <1>0 DEF ActionsInv, OperationsMatch, EntriesOwned, ExecutionsEntered, TypeOK
  <1>2. WaitsForItsLike' /\ OkIsApplied'
    BY <1>0 DEF ActionsInv, WaitsForItsLike, SameIdentity, OkIsApplied, TypeOK, Request
  <1>3. AppliedIsPast' /\ SeenChangesOnce'
    BY <1>0 DEF ActionsInv, AppliedIsPast, SeenChangesOnce
  <1> QED BY <1>0, <1>1, <1>2, <1>3

LEMMA OnGenerationCancelsKeeps ==
    ASSUME TypeOK, ActionsInv, OnGenerationCancels, UNCHANGED object
    PROVE  ActionsInv'
  <1>0. Stop(hook.cancels) /\ UNCHANGED <<gen, operations, entries, elapsed, released, object>>
    BY DEF OnGenerationCancels
  <1>1. /\ OperationsMatch' /\ EntriesOwned' /\ ExecutionsEntered' /\ WaitsForItsLike'
        /\ OkIsApplied' /\ AppliedIsPast' /\ SeenChangesOnce'
    BY ONLY <1>0, StopKeeps, TypeOK, ActionsInv
  <1>11. \A s \in Requests :
           /\ req'[s].pc = req[s].pc /\ req'[s].gen = req[s].gen
           /\ req[s].stop \/ s \in hook.cancels \cap operations => req'[s].stop
    BY ONLY <1>0, StopKeeps, TypeOK, ActionsInv
  <1>2. hook.step = "cancel" /\ gen' = gen /\ hook'.ended = gen /\ gen \in Nat /\ down' = down
    BY DEF OnGenerationCancels, TypeOK
  <1>3. HookReaches'
    <2>1. ASSUME NEW s \in Requests, req'[s].pc = "sending", ~ req'[s].stop PROVE req'[s].gen = gen'
      BY <1>11, <1>2, <2>1 DEF ActionsInv, HookReaches, OperationsMatch, Registered, TypeOK, Request
    <2> QED BY <1>2, <2>1 DEF HookReaches
  <1>4. ShutdownReaches'
    BY <1>11, <1>2 DEF ActionsInv, ShutdownReaches, TypeOK, Request
  <1> QED BY <1>1, <1>3, <1>4 DEF ActionsInv

LEMMA ShutdownCancelsKeeps ==
    ASSUME TypeOK, ActionsInv, ShutdownCancels, UNCHANGED object
    PROVE  ActionsInv'
  <1>0. Stop(down.cancels) /\ UNCHANGED <<gen, operations, entries, elapsed, released, object>>
    BY DEF ShutdownCancels
  <1>1. /\ OperationsMatch' /\ EntriesOwned' /\ ExecutionsEntered' /\ WaitsForItsLike'
        /\ OkIsApplied' /\ AppliedIsPast' /\ SeenChangesOnce'
    BY ONLY <1>0, StopKeeps, TypeOK, ActionsInv
  <1>11. \A s \in Requests :
           /\ req'[s].pc = req[s].pc /\ req'[s].gen = req[s].gen
           /\ req[s].stop \/ s \in down.cancels \cap operations => req'[s].stop
    BY ONLY <1>0, StopKeeps, TypeOK, ActionsInv
  <1>2. down.flag /\ ~ down.ended /\ down'.flag = down.flag /\ gen' = gen /\ hook' = hook
    BY DEF ShutdownCancels, TypeOK
  <1>3. HookReaches'
    BY <1>11, <1>2 DEF ActionsInv, HookReaches, TypeOK, Request
  <1>4. ShutdownReaches'
    <2>1. ASSUME NEW s \in Requests, req'[s].pc \in {"check", "sending"} PROVE req'[s].stop
      BY <1>11, <1>2, <2>1 DEF ActionsInv, ShutdownReaches, OperationsMatch, Registered, TypeOK, Request
    <2> QED BY <1>2, <2>1 DEF ShutdownReaches
  <1> QED BY <1>1, <1>3, <1>4 DEF ActionsInv

\* What depends on the requests and the registry alone.
LEMMA FrameKeeps ==
    ASSUME ActionsInv, UNCHANGED <<operations, entries, released, req>>, UNCHANGED elapsed,
           object'.version >= object.version, TypeOK, TypeOK'
    PROVE  /\ OperationsMatch' /\ EntriesOwned' /\ ExecutionsEntered' /\ WaitsForItsLike'
           /\ OkIsApplied' /\ AppliedIsPast' /\ SeenChangesOnce'
  <1>1. AppliedIsPast'
    BY DEF ActionsInv, AppliedIsPast, TypeOK, Request
  <1> QED
    BY <1>1 DEF ActionsInv, OperationsMatch, EntriesOwned, ExecutionsEntered, WaitsForItsLike, SameIdentity,
                OkIsApplied, SeenChangesOnce

LEMMA OthersKeep ==
    ASSUME TypeOK, TypeOK', ActionsInv,
           \/ (Publish \/ OnGenerationCollects \/ ShutdownCollects) /\ UNCHANGED object
           \/ ChangeElsewhere
    PROVE  ActionsInv'
  <1>1. CASE Publish /\ UNCHANGED object
    <2>1. HookReaches'
      BY <1>1 DEF Publish, ActionsInv, HookReaches, TypeOK, Request
    <2>2. ShutdownReaches'
      BY <1>1 DEF Publish, ActionsInv, ShutdownReaches
    <2> QED BY <1>1, <2>1, <2>2, FrameKeeps DEF Publish, ActionsInv, TypeOK
  <1>2. CASE OnGenerationCollects /\ UNCHANGED object
    <2>1. HookReaches'
      BY <1>2 DEF OnGenerationCollects, ActionsInv, HookReaches, OperationsMatch, Registered, TypeOK, Request
    <2>2. ShutdownReaches'
      BY <1>2 DEF OnGenerationCollects, ActionsInv, ShutdownReaches
    <2>3. UNCHANGED <<operations, entries, released, req>> /\ UNCHANGED elapsed /\ object' = object
      BY <1>2 DEF OnGenerationCollects
    <2>4. object'.version >= object.version
      BY <2>3 DEF TypeOK
    <2> QED BY <2>1, <2>2, <2>3, <2>4, FrameKeeps DEF ActionsInv
  <1>3. CASE ShutdownCollects /\ UNCHANGED object
    <2>1. HookReaches'
      BY <1>3 DEF ShutdownCollects, ActionsInv, HookReaches
    <2>2. ShutdownReaches'
      BY <1>3 DEF ShutdownCollects, ActionsInv, ShutdownReaches, OperationsMatch, Registered, TypeOK
    <2> QED BY <1>3, <2>1, <2>2, FrameKeeps DEF ShutdownCollects, ActionsInv, TypeOK
  <1>4. CASE ChangeElsewhere
    <2>1. HookReaches' /\ ShutdownReaches'
      BY <1>4 DEF ChangeElsewhere, ActionsInv, HookReaches, ShutdownReaches
    <2>2. object'.version >= object.version
      BY <1>4 DEF ChangeElsewhere, TypeOK
    <2> QED BY <1>4, <2>1, <2>2, FrameKeeps DEF ChangeElsewhere, ActionsInv
  <1> QED BY <1>1, <1>2, <1>3, <1>4

LEMMA ElapseKeeps ==
    ASSUME TypeOK, ActionsInv, NEW k \in IKeys, Elapse(k), UNCHANGED object
    PROVE  ActionsInv'
  <1>1. EntriesOwned'
    BY DEF Elapse, Old, ActionsInv, EntriesOwned
  <1>2. OperationsMatch' /\ ExecutionsEntered' /\ WaitsForItsLike' /\ OkIsApplied' /\ AppliedIsPast'
    BY DEF Elapse, ActionsInv, OperationsMatch, ExecutionsEntered, WaitsForItsLike, SameIdentity, OkIsApplied, AppliedIsPast
  <1>3. SeenChangesOnce' /\ HookReaches' /\ ShutdownReaches'
    BY DEF Elapse, ActionsInv, SeenChangesOnce, HookReaches, ShutdownReaches
  <1> QED BY <1>1, <1>2, <1>3 DEF ActionsInv

-----------------------------------------------------------------------------
(* The theorems *)

LEMMA ActionsStarts == Init => TypeOK /\ ActionsInv
  <1> SUFFICES ASSUME Init PROVE TypeOK /\ ActionsInv
    OBVIOUS
  <1>1. PICK call \in Calls :
          req = [r \in Requests |->
              [pc |-> "idle", op |-> call[r].op, key |-> call[r].key, body |-> call[r].body,
               gen |-> 0, on |-> NoOne, left |-> FALSE, stop |-> FALSE, sent |-> FALSE,
               served |-> "no", outcome |-> "none"]]
    BY DEF Init
  <1>2. \A r \in Requests : call[r].op \in MutationKinds /\ call[r].key \in IKeys /\ call[r].body \in Nat
    BY DEF Call
  <1>3. req \in [Requests -> Request]
    BY <1>1, <1>2 DEF Request
  <1>4. TypeOK
    BY <1>3 DEF Init, TypeOK
  <1>5. \A r \in Requests : /\ req[r].pc = "idle" /\ req[r].on = NoOne /\ ~ req[r].sent
                            /\ req[r].served = "no" /\ req[r].outcome = "none"
    BY <1>1
  <1>6. OperationsMatch /\ EntriesOwned /\ ExecutionsEntered /\ WaitsForItsLike
    BY <1>5 DEF Init, OperationsMatch, Registered, EntriesOwned, ExecutionsEntered, Executing, WaitsForItsLike
  <1>7. OkIsApplied /\ AppliedIsPast /\ SeenChangesOnce /\ HookReaches /\ ShutdownReaches
    BY <1>5 DEF Init, OkIsApplied, AppliedIsPast, SeenChangesOnce, HookReaches, ShutdownReaches
  <1> QED BY <1>4, <1>6, <1>7 DEF ActionsInv

LEMMA ActionsStep == TypeOK /\ ActionsInv /\ [Next]_vars => TypeOK' /\ ActionsInv'
  <1> SUFFICES ASSUME TypeOK, ActionsInv, [Next]_vars PROVE TypeOK' /\ ActionsInv'
    OBVIOUS
  <1>1. TypeOK'
    BY TypesKept DEF ActionsInv
  <1>2. ASSUME NEW r \in Requests, Step(r), UNCHANGED object PROVE ActionsInv'
    BY <1>2, DoConflictsKeeps, DoWaitsKeeps, DoLimitedKeeps, DoExecutesKeeps, ReplayKeeps, WaiterLeavesKeeps,
       ReviewRefusesKeeps, ReviewPassesKeeps, BeginKeeps, CheckKeeps, ReturnsKeeps, AfterKeeps, FinishKeeps
       DEF Step, Do, Return
  <1>3. ASSUME NEW r \in Requests, NEW seen \in 0..gen, Arrive(r, seen) \/ Rejects(r, seen), UNCHANGED object
        PROVE  ActionsInv'
    BY <1>3, ArriveKeeps, RejectsKeeps
  <1>4. ASSUME NEW r \in Requests, ((Send(r) \/ Disconnect(r)) /\ UNCHANGED object) \/ Serve(r) PROVE ActionsInv'
    BY <1>4, SendKeeps, DisconnectKeeps, ServeKeeps
  <1>5. ASSUME (OnGenerationCancels \/ ShutdownCancels \/ \E k \in IKeys : Elapse(k)) /\ UNCHANGED object PROVE ActionsInv'
    BY <1>5, OnGenerationCancelsKeeps, ShutdownCancelsKeeps, ElapseKeeps
  <1>6. ASSUME \/ (Publish \/ OnGenerationCollects \/ ShutdownCollects) /\ UNCHANGED object
               \/ ChangeElsewhere
        PROVE  ActionsInv'
    BY <1>1, <1>6, OthersKeep
  <1>7. ASSUME UNCHANGED vars PROVE ActionsInv'
    BY <1>7 DEF vars, ActionsInv, OperationsMatch, EntriesOwned, ExecutionsEntered, WaitsForItsLike, SameIdentity,
                OkIsApplied, AppliedIsPast, SeenChangesOnce, HookReaches, ShutdownReaches
  <1> QED BY <1>1, <1>2, <1>3, <1>4, <1>5, <1>6, <1>7 DEF Next

\* The types and the inductive invariant hold in every state.
THEOREM ActionsHold == Spec => [](TypeOK /\ ActionsInv)
  BY ActionsStarts, ActionsStep, PTL DEF Spec

\* What callers are told is what Kubernetes did: an acceptance stands for an
\* applied mutation of the same identity, a key repeats only what the registry
\* forgot, and of what was confirmed on sight of one version one is applied at
\* most (Do, guarded and the preconditions of every mutation).
THEOREM ActionsHonest == Spec => []MutationsHonest
  <1>1. ASSUME TypeOK, ActionsInv PROVE MutationsHonest
    <2>1. AcceptedWasApplied
      BY <1>1 DEF AcceptedWasApplied, ActionsInv, OkIsApplied, WaitsForItsLike, SameIdentity, TypeOK, Request
    <2>2. RepeatOnlyReleased
      BY <1>1 DEF RepeatOnlyReleased, ActionsInv, ExecutionsEntered
    <2> QED BY <1>1, <2>1, <2>2 DEF MutationsHonest, ActionsInv
  <1> QED BY <1>1, ActionsHold, PTL

\* No other step than Send marks a mutation as sent.
LEMMA SentBySend ==
    ASSUME TypeOK, [Next]_vars, NEW r \in Requests, req'[r].sent, ~ req[r].sent
    PROVE  Send(r)
  <1>1. ASSUME NEW s \in Requests, Same(s), req'[s].sent = req[s].sent PROVE FALSE
    BY <1>1 DEF Same
  <1>2. ASSUME NEW s \in Requests, NEW x, Answers(s, x) \/ Ends(s, x) \/ Goto(s, x) PROVE FALSE
    BY <1>1, <1>2, AnswersEffect, EndsEffect, GotoEffect
  <1>3. ASSUME NEW s \in Requests, NEW seen, Arrive(s, seen) \/ Rejects(s, seen) PROVE FALSE
    BY <1>1, <1>2, <1>3, ArriveEffect DEF Rejects
  <1>4. ASSUME NEW s \in Requests, DoWaits(s) \/ Disconnect(s) PROVE FALSE
    <2>1. CASE Disconnect(s)
      <3>1. req'[s].sent = req[s].sent /\ Same(s)
        BY <2>1 DEF Disconnect, Set, Same, TypeOK, Request
      <3> QED BY <1>1, <3>1
    <2>2. CASE DoWaits(s)
      <3>1. req'[s].sent = req[s].sent /\ Same(s)
        BY <2>2 DEF DoWaits, Set, Same, TypeOK, Request
      <3> QED BY <1>1, <3>1
    <2> QED BY <1>4, <2>1, <2>2
  <1>5. ASSUME NEW s \in Requests, DoConflicts(s) \/ DoLimited(s) \/ DoExecutes(s) PROVE FALSE
    BY <1>2, <1>5 DEF DoConflicts, DoLimited, DoExecutes
  <1>6. ASSUME NEW s \in Requests, Replay(s) \/ WaiterLeaves(s) \/ ReviewRefuses(s) \/ ReviewPasses(s) PROVE FALSE
    BY <1>2, <1>6 DEF Replay, WaiterLeaves, ReviewRefuses, ReviewPasses
  <1>7. ASSUME NEW s \in Requests, Begin(s) \/ Check(s) \/ After(s) \/ Finish(s) PROVE FALSE
    BY <1>2, <1>7 DEF Begin, Check, After, Finish
  <1>8. ASSUME NEW s \in Requests, NEW x, Returns(s, x) PROVE FALSE
    <2>1. req'[s].sent = req[s].sent /\ Same(s)
      BY <1>8 DEF Returns, Set, Same, TypeOK, Request
    <2> QED BY <1>1, <2>1
  <1>9. ASSUME NEW s \in Requests, Serve(s) PROVE FALSE
    <2>1. \A t \in Requests : req'[t].sent = req[t].sent
      BY <1>9 DEF Serve, Set, TypeOK, Request
    <2> QED BY <2>1
  <1>10. ASSUME NEW rs, Stop(rs) PROVE FALSE
    BY <1>10 DEF Stop, TypeOK, Request
  <1>11. ASSUME UNCHANGED req PROVE FALSE
    BY <1>11
  <1>12. ASSUME NEW s \in Requests, Send(s) PROVE Send(r)
    BY <1>12 DEF Send, Set, TypeOK
  <1>13. ASSUME NEW s \in Requests, Step(s) PROVE FALSE
    BY <1>4, <1>5, <1>6, <1>7, <1>8, <1>13, Zenon DEF Step, Do, Return
  <1>14. ASSUME OnGenerationCancels \/ ShutdownCancels PROVE FALSE
    BY <1>10, <1>14 DEF OnGenerationCancels, ShutdownCancels
  <1>15. ASSUME Publish \/ OnGenerationCollects \/ ShutdownCollects \/ ChangeElsewhere \/ (\E k \in IKeys : Elapse(k)) PROVE FALSE
    BY <1>11, <1>15 DEF Publish, OnGenerationCollects, ShutdownCollects, ChangeElsewhere, Elapse
  <1>16. ASSUME UNCHANGED vars PROVE FALSE
    BY <1>11, <1>16 DEF vars
  <1> QED BY <1>3, <1>4, <1>9, <1>12, <1>13, <1>14, <1>15, <1>16, Zenon DEF Next

\* What is sent, is sent under a lease whose context was not cancelled.
LEMMA SendIsLeased ==
    ASSUME NEW r \in Requests, Send(r)
    PROVE  req[r].pc = "sending" /\ ~ req[r].stop
  BY DEF Send, Leased, Cancelled

\* Nothing leaves behind the back of a rotation or a shutdown that was told
\* every operation has ended: neither OnGeneration's cancels nor those of
\* Shutdown, which are made outside the lock, miss an operation that registered
\* before and checked the generation after (beginOperation, requireCurrent).
THEOREM ActionsFenced == Spec => MutationsFenced
  <1>1. ASSUME TypeOK, ActionsInv, [Next]_vars, NEW r \in Requests, req'[r].sent, ~ req[r].sent
        PROVE  req[r].gen >= hook.ended /\ ~ down.ended
    <2>1. req[r].pc = "sending" /\ ~ req[r].stop
      BY <1>1, SentBySend, SendIsLeased
    <2>2. hook.ended \in Nat /\ gen \in Nat /\ req[r].gen \in Nat
      BY <1>1 DEF TypeOK, Request
    <2>3. req[r].gen >= hook.ended
      BY <1>1, <2>1, <2>2 DEF ActionsInv, HookReaches
    <2>4. ~ down.ended
      BY <1>1, <2>1 DEF ActionsInv, ShutdownReaches
    <2> QED BY <2>3, <2>4
  <1>2. TypeOK /\ ActionsInv /\ [Next]_vars =>
          [\A r \in Requests : req'[r].sent /\ ~ req[r].sent => req[r].gen >= hook.ended]_vars
    BY <1>1
  <1>3. TypeOK /\ ActionsInv /\ [Next]_vars =>
          [\A r \in Requests : req'[r].sent /\ ~ req[r].sent => ~ down.ended]_vars
    BY <1>1
  <1> QED BY <1>2, <1>3, ActionsHold, PTL DEF Spec, MutationsFenced, HookFences, ShutdownFences

HIDE ActionsAssumption

-----------------------------------------------------------------------------
(* Exec sessions *)

USE ExecAssumption

\* Exec on its own, as the scene "sessions" of the run.
SessionsSpec == SessionsInit /\ [][SessionsNext]_sessionVars

-----------------------------------------------------------------------------
(* The inductive invariant *)

UpgradePCs == {"idle", "spent", "granted", "starting", "started", "checked", "serving", "waiting", "done"}

\* Words requestTerminal may be called with, and words a session may end with.
AskedWords == AbortReasons \cup TimerEnds \cup {"canceled", "generation", "shutdown"}
Words == AskedWords \cup ExitWords

\* What may be queued for the client of a session whose word is w.
Say(w) == {"data", "internal"} \cup ({w} \ {None})

Ticket == [state : {"none", "asked", "issued", "lapsed", "gone"}, gen : Nat]

Upgrade ==
    [pc : UpgradePCs, id : Ids \cup {None}, gen : Nat, timer : BOOLEAN, active : BOOLEAN, canceled : BOOLEAN,
     requested : AskedWords \cup {None}, remote : {"none", "open", "closed"} \cup ExitWords,
     word : Words \cup {None}, finished : BOOLEAN, closes : Nat, queue : Seq({"data"} \cup Words),
     ended : BOOLEAN, writable : BOOLEAN, told : Words \cup {None}]

ExecTypes ==
    /\ generation \in Nat /\ hooked \in Nat /\ hooked <= generation /\ shutdown \in BOOLEAN
    /\ ticket \in [Ids -> Ticket]
    /\ sessions \in [Ids -> Upgrades \cup {None}]
    /\ up \in [Upgrades -> Upgrade]
    /\ toEnd \subseteq Upgrades \X {"generation", "shutdown"}

\* An upgrade has spent a ticket that is gone for the others.
SpentOnce ==
    /\ \A u \in Upgrades : up[u].pc # "idle" => up[u].id \in Ids /\ ticket[up[u].id].state = "gone"
    /\ \A u, w \in Upgrades : up[u].pc # "idle" /\ up[w].pc # "idle" /\ u # w => up[u].id # up[w].id

\* A session id is held by the upgrade that spent its ticket.
SessionsOwned ==
    \A i \in Ids : sessions[i] # None =>
        up[sessions[i]].id = i /\ up[sessions[i]].pc \notin {"idle", "spent"}

\* An upgrade by itself: its command, its word and what its client was told.
Good(r) ==
    /\ r.active => r.pc \in {"serving", "waiting", "done"}
    /\ r.pc \in {"serving", "waiting"} => r.active
    /\ ~ r.active =>
         /\ r.requested = None /\ r.word = None /\ ~ r.finished /\ r.told = None /\ r.queue = <<>>
         /\ r.remote = "open" => r.pc \in {"started", "checked"}
    /\ r.pc = "idle" => r.remote = "none"
    /\ r.requested # None \/ r.finished => r.remote # "open"
    /\ r.finished => r.word # None
    /\ r.word # None => \/ r.word = r.requested \/ r.word = "internal"
                        \/ r.word \in ExitWords /\ r.remote = r.word
    /\ r.queue \in Seq(Say(r.word))
    /\ r.told \in {None, "internal", r.word}
    /\ r.closes \in {0, 1}
    /\ r.pc \in {"idle", "spent"} => r.closes = 0 /\ ~ r.timer

Listed(u) == \E i \in Ids : sessions[i] = u

\* An upgrade, the registry and the sweeps: a reservation is of the generation
\* that was last hooked, an active session is registered until it finishes, and
\* if it outlives a fence the sweep still has its word to ask for.
Stands(u, r, registered, ends) ==
    /\ registered => r.closes = 0 /\ ~ r.finished
    /\ r.active /\ ~ r.finished => registered
    /\ registered /\ ~ r.active => r.gen >= hooked /\ ~ shutdown
    /\ r.active /\ r.remote = "open" =>
         /\ r.gen >= hooked \/ <<u, "generation">> \in ends
         /\ shutdown => <<u, "generation">> \in ends \/ <<u, "shutdown">> \in ends
    /\ ~ r.active => <<u, "generation">> \notin ends /\ <<u, "shutdown">> \notin ends

AllGood  == \A u \in Upgrades : Good(up[u])
AllStand == \A u \in Upgrades : Stands(u, up[u], Listed(u), toEnd)

ExecInv == ExecTypes /\ SpentOnce /\ SessionsOwned /\ AllGood /\ AllStand

-----------------------------------------------------------------------------
(* Words and queues *)

LEMMA WordsApart ==
  /\ AskedWords \cap ExitWords = {} /\ None \notin Words /\ "data" \notin Words
  /\ "internal" \in AskedWords /\ "exceeded" \in AskedWords /\ "violation" \in AskedWords
  /\ {"none", "open", "closed"} \cap ExitWords = {}
  /\ AbortWords \subseteq AskedWords /\ TimerWords \subseteq AskedWords /\ RemoteWords \subseteq ExitWords
  BY DEF AskedWords, Words, AbortReasons, TimerEnds, ExitWords

LEMMA QueueTail ==
  ASSUME NEW S, NEW q \in Seq(S), q # <<>>
  PROVE  Head(q) \in S /\ Tail(q) \in Seq(S)
  OBVIOUS

LEMMA QueueAppend ==
  ASSUME NEW S, NEW q \in Seq(S), NEW x \in S
  PROVE  Append(q, x) \in Seq(S)
  OBVIOUS

LEMMA QueueWider ==
  ASSUME NEW S, NEW T, S \subseteq T, NEW q \in Seq(S)
  PROVE  q \in Seq(T)
  OBVIOUS

LEMMA QueueEmpty == ASSUME NEW S PROVE <<>> \in Seq(S)
  OBVIOUS

LEMMA SayWords == ASSUME NEW w \in Words \cup {None} PROVE Say(w) \subseteq {"data"} \cup Words
  BY DEF Say, Words, AskedWords, AbortReasons

-----------------------------------------------------------------------------
(* Initially *)

LEMMA NewGood == NewUpgrade \in Upgrade /\ Good(NewUpgrade)
<1>1. <<>> \in Seq({"data"} \cup Words) /\ <<>> \in Seq(Say(None))
  BY QueueEmpty
<1>2. NewUpgrade \in Upgrade
  BY <1>1 DEF NewUpgrade, Upgrade, UpgradePCs
<1>3. Good(NewUpgrade)
  BY <1>1 DEF NewUpgrade, Good
<1>4. QED  BY <1>2, <1>3

LEMMA ExecStart == SessionsInit => ExecInv
<1> SUFFICES ASSUME SessionsInit PROVE ExecInv
  OBVIOUS
<1>1. up = [u \in Upgrades |-> NewUpgrade] /\ sessions = [i \in Ids |-> None] /\ toEnd = {}
  BY DEF SessionsInit
<1>2. ExecTypes
  <2>1. up \in [Upgrades -> Upgrade]
    BY <1>1, NewGood
  <2>2. ticket \in [Ids -> Ticket]
    BY DEF SessionsInit, Ticket
  <2>3. shutdown \in BOOLEAN
    BY Zenon DEF SessionsInit
  <2>4. generation \in Nat /\ hooked \in Nat /\ hooked <= generation
    BY DEF SessionsInit
  <2>5. QED  BY <1>1, <2>1, <2>2, <2>3, <2>4 DEF ExecTypes
<1>3. AllGood
  BY <1>1, NewGood DEF AllGood
<1>4. \A u \in Upgrades : up[u].pc = "idle" /\ up[u].active = FALSE /\ ~ Listed(u)
  BY <1>1 DEF NewUpgrade, Listed
<1>5. AllStand
  BY <1>1, <1>4 DEF AllStand, Stands
<1>6. SpentOnce /\ SessionsOwned
  BY <1>1, <1>4 DEF SpentOnce, SessionsOwned
<1>7. QED  BY <1>2, <1>3, <1>5, <1>6 DEF ExecInv

-----------------------------------------------------------------------------
(* One upgrade moves *)

TicketsKept ==
    /\ ticket' \in [Ids -> Ticket]
    /\ \A i \in Ids : ticket[i].state = "gone" => ticket'[i].state = "gone"

\* Its record goes from up[u] to n; it keeps its slot or leaves it.
LEMMA OneMoves ==
  ASSUME ExecInv, NEW u \in Upgrades, NEW n \in Upgrade,
         up' = [up EXCEPT ![u] = n], up[u].pc # "idle", n.pc \notin {"idle", "spent"}, n.id = up[u].id,
         UNCHANGED <<generation, hooked, shutdown, ticket>>,
         \/ sessions' = sessions
         \/ sessions' = Without(u),
         toEnd' \subseteq toEnd, \A x \in toEnd : x[1] # u => x \in toEnd',
         Good(n), Stands(u, n, Listed(u)', toEnd')
  PROVE  ExecInv'
<1> USE DEF ExecInv
<1>1. up'[u] = n /\ \A w \in Upgrades : w # u => up'[w] = up[w]
  BY DEF ExecTypes
<1>2. sessions' \in [Ids -> Upgrades \cup {None}] /\ \A i \in Ids : sessions'[i] # None => sessions'[i] = sessions[i]
  BY DEF ExecTypes, Without
<1>3. \A w \in Upgrades : w # u => (Listed(w)' <=> Listed(w))
  BY DEF Listed, Without, ExecTypes
<1>4. ExecTypes'
  BY <1>2 DEF ExecTypes
<1>5. SpentOnce'
  BY <1>1 DEF SpentOnce
<1>6. SessionsOwned'
  BY <1>1, <1>2 DEF SessionsOwned, ExecTypes
<1>7. AllGood'
  BY <1>1 DEF AllGood
<1>8. ASSUME NEW w \in Upgrades PROVE Stands(w, up[w], Listed(w), toEnd)'
  <2>1. CASE w = u
    BY <1>1, <2>1 DEF Stands
  <2>2. CASE w # u
    <3>1. up'[w] = up[w] /\ (Listed(w)' <=> Listed(w))
      BY <1>1, <1>3, <2>2
    <3>2. \A x \in {"generation", "shutdown"} : <<w, x>> \in toEnd' <=> <<w, x>> \in toEnd
      BY <2>2
    <3>3. Stands(w, up[w], Listed(w), toEnd)
      BY DEF AllStand
    <3>4. QED  BY <3>1, <3>2, <3>3 DEF Stands
  <2>3. QED  BY <2>1, <2>2
<1>9. QED  BY <1>4, <1>5, <1>6, <1>7, <1>8 DEF AllStand

\* An upgrade that is over before its session was active, and has no slot.
LEMMA DropsOut ==
  ASSUME ExecInv, NEW u \in Upgrades, NEW n \in Upgrade,
         up' = [up EXCEPT ![u] = n], up[u].pc # "idle", ~ up[u].active,
         UNCHANGED <<generation, hooked, shutdown, ticket, toEnd>>,
         \/ sessions' = sessions /\ ~ Listed(u)
         \/ sessions' = Without(u),
         n.pc = "done", n.id = up[u].id, n.active = FALSE, n.remote # "open", n.finished = FALSE,
         n.requested = None, n.word = None, n.told = None, n.queue = <<>>, n.closes \in {0, 1}
  PROVE  ExecInv'
<1>1. ~ Listed(u)'
  BY DEF Listed, Without
<1>2. <<u, "generation">> \notin toEnd /\ <<u, "shutdown">> \notin toEnd
  BY DEF ExecInv, AllStand, Stands
<1>3. Good(n)
  BY QueueEmpty DEF Good
<1>4. Stands(u, n, Listed(u)', toEnd')
  BY <1>1, <1>2 DEF Stands
<1>5. QED  BY <1>3, <1>4, OneMoves

\* What Refused keeps.
LEMMA RefusedIs ==
  ASSUME ExecInv, NEW u \in Upgrades
  PROVE  LET n == Refused(u) IN
         /\ n \in Upgrade /\ n.pc = "done" /\ n.id = up[u].id /\ n.active = FALSE /\ n.remote = "none"
         /\ n.finished = FALSE /\ n.requested = None /\ n.word = None /\ n.told = None /\ n.queue = <<>>
         /\ n.closes = up[u].closes /\ n.closes \in {0, 1}
<1>1. up[u] \in Upgrade /\ up[u].closes \in {0, 1}
  BY DEF ExecInv, ExecTypes, AllGood, Good
<1>2. up[u].id \in Ids \cup {None} /\ up[u].timer \in BOOLEAN /\ up[u].closes \in Nat
  BY <1>1 DEF Upgrade
<1>3. NewUpgrade \in Upgrade
  BY NewGood
<1>4. Refused(u) \in Upgrade
  BY <1>2, <1>3 DEF Refused, Upgrade, UpgradePCs
<1>5. QED  BY <1>1, <1>4 DEF Refused, NewUpgrade

\* A record of the invariant, by its fields.
LEMMA Fields ==
  ASSUME ExecInv, NEW u \in Upgrades
  PROVE  /\ up[u] \in Upgrade /\ Good(up[u]) /\ Stands(u, up[u], Listed(u), toEnd)
         /\ up[u].pc # "idle" => up[u].id \in Ids
         /\ up[u].pc # "idle" => (sessions[up[u].id] = u <=> Listed(u))
<1> USE DEF ExecInv
<1>1. up[u] \in Upgrade /\ Good(up[u]) /\ Stands(u, up[u], Listed(u), toEnd)
  BY DEF ExecTypes, AllGood, AllStand
<1>2. u # None
  OBVIOUS
<1>3. QED  BY <1>1, <1>2 DEF SpentOnce, SessionsOwned, Listed

-----------------------------------------------------------------------------
(* From the ticket to the command *)

LEMMA TicketsMove ==
  ASSUME ExecInv, NEW i \in Ids, AskTicket(i) \/ IssueTicket(i) \/ Lapse(i)
  PROVE  ExecInv'
<1> USE DEF ExecInv
<1>0. ticket \in [Ids -> Ticket] /\ generation \in Nat /\ Gone \in Ticket
  BY DEF ExecTypes, Gone, Ticket
<1>1. UNCHANGED <<generation, hooked, shutdown, sessions, up, toEnd>>
  BY DEF AskTicket, IssueTicket, Lapse
<1>2. TicketsPruned \in [Ids -> Ticket] /\ \A j \in Ids : TicketsPruned[j] \in {ticket[j], Gone}
  BY <1>0 DEF TicketsPruned
<1>3. TicketsKept
  <2>1. CASE AskTicket(i)
    <3>1. [state |-> "asked", gen |-> generation] \in Ticket
      BY <1>0 DEF Ticket
    <3>2. QED  BY <1>0, <2>1, <3>1 DEF AskTicket, TicketsKept
  <2>2. CASE IssueTicket(i)
    <3>1. ticket[i].state = "asked" /\ TicketsPruned[i] = ticket[i]
      BY <2>2 DEF IssueTicket, TicketsPruned
    <3>2. [ticket[i] EXCEPT !.state = "issued"] \in Ticket
      BY <1>0 DEF Ticket
    <3>3. PICK t \in Ticket : ticket' = [TicketsPruned EXCEPT ![i] = t]
      BY <1>0, <2>2, <3>1, <3>2 DEF IssueTicket
    <3>4. Gone.state = "gone"
      BY DEF Gone
    <3>5. QED  BY <1>2, <3>1, <3>3, <3>4 DEF TicketsKept
  <2>3. CASE Lapse(i)
    <3>1. [ticket[i] EXCEPT !.state = "lapsed"] \in Ticket
      BY <1>0 DEF Ticket
    <3>2. QED  BY <1>0, <2>3, <3>1 DEF Lapse, TicketsKept
  <2>4. QED  BY <2>1, <2>2, <2>3
<1>4. ExecTypes'
  BY <1>1, <1>3 DEF ExecTypes, TicketsKept
<1>5. SpentOnce' /\ SessionsOwned' /\ AllGood'
  BY <1>1, <1>3 DEF SpentOnce, SessionsOwned, AllGood, TicketsKept
<1>6. AllStand'
  BY <1>1 DEF AllStand, Stands, Listed
<1>7. QED  BY <1>4, <1>5, <1>6

LEMMA SpendKeeps ==
  ASSUME ExecInv, NEW u \in Upgrades, NEW i \in Ids, Spend(u, i)
  PROVE  ExecInv'
<1> USE DEF ExecInv
<1> DEFINE r == up[u]
<1>0. r \in Upgrade /\ r.pc = "idle" /\ Good(r) /\ Stands(u, r, Listed(u), toEnd) /\ generation \in Nat
  BY Fields DEF Spend, ExecTypes
<1>1. UNCHANGED <<generation, hooked, shutdown, sessions, toEnd>>
  BY DEF Spend
<1>2. ~ Listed(u)
  BY <1>0 DEF Listed, SessionsOwned
<1>3. PICK n \in {[r EXCEPT !.pc = "spent", !.id = i, !.gen = generation], [r EXCEPT !.pc = "done", !.id = i]} :
           up' = [up EXCEPT ![u] = n]
  BY DEF Spend, ExecTypes
<1> DEFINE Kept(m) == /\ m \in Upgrade /\ m.id = i /\ m.pc \in {"spent", "done"}
                      /\ m.active = r.active /\ m.requested = r.requested /\ m.word = r.word
                      /\ m.finished = r.finished /\ m.told = r.told /\ m.queue = r.queue
                      /\ m.remote = r.remote /\ m.closes = r.closes /\ m.timer = r.timer
<1>a. Kept([r EXCEPT !.pc = "spent", !.id = i, !.gen = generation])
  BY <1>0 DEF Upgrade, UpgradePCs
<1>b. Kept([r EXCEPT !.pc = "done", !.id = i])
  BY <1>0 DEF Upgrade, UpgradePCs
<1>4. n \in Upgrade /\ n.id = i /\ n.pc \in {"spent", "done"}
  BY <1>3, <1>a, <1>b
<1>5. /\ n.active = r.active /\ n.requested = r.requested /\ n.word = r.word /\ n.finished = r.finished
      /\ n.told = r.told /\ n.queue = r.queue /\ n.remote = r.remote /\ n.closes = r.closes /\ n.timer = r.timer
  BY <1>3, <1>a, <1>b
<1> HIDE DEF r
<1>6. r.active = FALSE
  BY <1>0 DEF Good, Upgrade
<1>7. Good(n)
  BY <1>0, <1>4, <1>5, <1>6 DEF Good
<1>8. up'[u] = n /\ \A w \in Upgrades : w # u => up'[w] = up[w]
  BY <1>3 DEF ExecTypes
<1>9. ticket[i].state # "gone" /\ ticket'[i].state = "gone" /\ TicketsKept
  <2>1. ticket \in [Ids -> Ticket] /\ Gone \in Ticket /\ Gone.state = "gone"
    BY DEF ExecTypes, Gone, Ticket
  <2>2. TicketsPruned \in [Ids -> Ticket] /\ \A j \in Ids : TicketsPruned[j] \in {ticket[j], Gone}
    BY <2>1 DEF TicketsPruned
  <2>3. ticket' = [TicketsPruned EXCEPT ![i] = Gone] /\ ticket[i].state \in {"issued", "lapsed"}
    BY DEF Spend
  <2>4. QED  BY <2>1, <2>2, <2>3 DEF TicketsKept
<1>10. ExecTypes'
  BY <1>1, <1>3, <1>4, <1>9 DEF ExecTypes, TicketsKept
<1>11. SpentOnce'
  BY <1>4, <1>8, <1>9 DEF SpentOnce, TicketsKept
<1>12. SessionsOwned'
  BY <1>1, <1>2, <1>8 DEF SessionsOwned, Listed, ExecTypes
<1>13. AllGood'
  BY <1>7, <1>8 DEF AllGood
<1>14. ASSUME NEW w \in Upgrades PROVE Stands(w, up[w], Listed(w), toEnd)'
  <2>1. CASE w = u
    BY <1>0, <1>1, <1>2, <1>5, <1>6, <1>8, <2>1 DEF Stands, Listed
  <2>2. CASE w # u
    BY <1>1, <1>8, <2>2 DEF Stands, Listed, AllStand
  <2>3. QED  BY <2>1, <2>2
<1>15. QED  BY <1>10, <1>11, <1>12, <1>13, <1>14 DEF AllStand

LEMMA ReserveKeeps ==
  ASSUME ExecInv, NEW u \in Upgrades, Reserve(u)
  PROVE  ExecInv'
<1> DEFINE r == up[u]  i == up[u].id
<1>0. r \in Upgrade /\ r.pc = "spent" /\ Good(r) /\ Stands(u, r, Listed(u), toEnd) /\ i \in Ids
  BY Fields DEF Reserve
<1>1. UNCHANGED <<generation, hooked, shutdown, ticket, toEnd>>
  BY DEF Reserve
<1>2. ~ Listed(u) /\ ~ r.active
  BY <1>0 DEF Listed, ExecInv, SessionsOwned, Good
<1>3. CASE up' = [up EXCEPT ![u] = Refused(u)] /\ sessions' = sessions
  <2> DEFINE n == Refused(u)
  <2>1. n \in Upgrade /\ n.pc = "done" /\ n.id = up[u].id /\ n.active = FALSE /\ n.remote = "none"
        /\ n.finished = FALSE /\ n.requested = None /\ n.word = None /\ n.told = None /\ n.queue = <<>>
        /\ n.closes \in {0, 1}
    BY RefusedIs
  <2> HIDE DEF n
  <2>2. up' = [up EXCEPT ![u] = n]
    BY <1>3 DEF n
  <2>3. QED  BY <1>0, <1>1, <1>2, <1>3, <2>1, <2>2, DropsOut
<1>4. CASE /\ up' = [up EXCEPT ![u] = [r EXCEPT !.pc = "granted", !.timer = TRUE]]
           /\ sessions' = [sessions EXCEPT ![i] = u]
           /\ ~ shutdown /\ generation = r.gen /\ sessions[i] = None
  <2> USE DEF ExecInv
  <2> DEFINE n == [r EXCEPT !.pc = "granted", !.timer = TRUE]
  <2>1. n \in Upgrade /\ n.pc = "granted" /\ n.id = i /\ n.gen = r.gen
    BY <1>0 DEF Upgrade, UpgradePCs
  <2>2. /\ n.active = r.active /\ n.requested = r.requested /\ n.word = r.word /\ n.finished = r.finished
        /\ n.told = r.told /\ n.queue = r.queue /\ n.remote = r.remote /\ n.closes = r.closes
    BY <1>0 DEF Upgrade
  <2>3. up' = [up EXCEPT ![u] = n]
    BY <1>4
  <2> HIDE DEF n, r, i
  <2>4. up'[u] = n /\ \A w \in Upgrades : w # u => up'[w] = up[w]
    BY <2>3 DEF ExecTypes
  <2>5. Good(n)
    BY <1>0, <1>2, <2>1, <2>2 DEF Good
  <2>6. sessions'[i] = u /\ \A j \in Ids : j # i => sessions'[j] = sessions[j]
    BY <1>0, <1>4 DEF ExecTypes
  <2>7. ExecTypes'
    BY <1>0, <1>1, <1>4, <2>1, <2>3 DEF ExecTypes
  <2>8. SpentOnce'
    BY <1>0, <1>1, <2>1, <2>4 DEF SpentOnce, i, r
  <2>9. SessionsOwned'
    BY <2>1, <2>4, <2>6, <1>2 DEF SessionsOwned, ExecTypes, Listed
  <2>10. AllGood'
    BY <2>4, <2>5 DEF AllGood
  <2>11. Listed(u)' /\ \A w \in Upgrades : w # u => (Listed(w)' <=> Listed(w))
    BY <1>0, <1>4, <2>6 DEF Listed
  <2>12. n.gen >= hooked
    BY <1>4, <2>1 DEF ExecTypes
  <2>13. n.closes = 0 /\ ~ n.finished
    BY <1>0, <1>2, <2>2 DEF Good
  <2>14. ASSUME NEW w \in Upgrades PROVE Stands(w, up[w], Listed(w), toEnd)'
    <3>1. CASE w = u
      BY <1>0, <1>1, <1>2, <1>4, <2>2, <2>4, <2>11, <2>12, <2>13, <3>1 DEF Stands
    <3>2. CASE w # u
      BY <1>1, <2>4, <2>11, <3>2 DEF Stands, AllStand
    <3>3. QED  BY <3>1, <3>2
  <2>15. QED  BY <2>7, <2>8, <2>9, <2>10, <2>14 DEF AllStand
<1>5. QED  BY <1>3, <1>4 DEF Reserve, ExecInv, ExecTypes

\* The fields the invariant speaks of, beside the place and the command.
Alike(n, r) ==
    /\ n.id = r.id /\ n.gen = r.gen /\ n.active = r.active /\ n.requested = r.requested /\ n.word = r.word
    /\ n.finished = r.finished /\ n.told = r.told /\ n.queue = r.queue /\ n.closes = r.closes

\* A start that goes on.
LEMMA GoesOn ==
  ASSUME ExecInv, NEW u \in Upgrades, NEW n \in Upgrade,
         up' = [up EXCEPT ![u] = n], up[u].pc # "idle", ~ up[u].active,
         UNCHANGED <<generation, hooked, shutdown, ticket, toEnd, sessions>>,
         n.pc \in {"granted", "starting", "started", "checked"}, Alike(n, up[u]),
         n.remote = "open" => n.pc \in {"started", "checked"}
  PROVE  ExecInv'
<1>0. Good(up[u]) /\ Stands(u, up[u], Listed(u), toEnd)
  BY Fields
<1>1. Good(n)
  BY <1>0 DEF Good, Alike
<1>2. Listed(u)' <=> Listed(u)
  BY DEF Listed
<1>3. Stands(u, n, Listed(u)', toEnd')
  BY <1>0, <1>2 DEF Stands, Alike
<1>4. QED  BY <1>1, <1>3, OneMoves DEF Alike

LEMMA ReleaseKeeps ==
  ASSUME ExecInv, NEW u \in Upgrades, ReleaseUpgrade(u)
  PROVE  ExecInv'
<1> DEFINE m == Refused(u)
           k == IF sessions[up[u].id] = u THEN m.closes + 1 ELSE m.closes
           n == [m EXCEPT !.timer = FALSE, !.closes = k]
<1>0. up[u].pc = "granted" /\ Good(up[u]) /\ Stands(u, up[u], Listed(u), toEnd) /\ (sessions[up[u].id] = u => Listed(u))
  BY Fields DEF ReleaseUpgrade
<1>1. ~ up[u].active
  BY <1>0 DEF Good
<1>2. /\ m \in Upgrade /\ m.pc = "done" /\ m.id = up[u].id /\ m.active = FALSE /\ m.remote = "none"
      /\ m.finished = FALSE /\ m.requested = None /\ m.word = None /\ m.told = None /\ m.queue = <<>>
      /\ m.closes = up[u].closes /\ m.closes \in {0, 1}
  BY RefusedIs
<1>3. up' = [up EXCEPT ![u] = n] /\ sessions' = Without(u)
  BY DEF ReleaseUpgrade, ExecInv, ExecTypes
<1> HIDE DEF m
<1>4. sessions[up[u].id] = u => m.closes = 0
  BY <1>0, <1>2 DEF Stands
<1>5. k \in Nat /\ k \in {0, 1}
  BY <1>2, <1>4
<1> HIDE DEF k
<1>6. /\ n \in Upgrade /\ n.pc = "done" /\ n.id = up[u].id /\ n.active = FALSE /\ n.remote = "none"
      /\ n.finished = FALSE /\ n.requested = None /\ n.word = None /\ n.told = None /\ n.queue = <<>>
      /\ n.closes \in {0, 1}
  BY <1>2, <1>5 DEF Upgrade
<1> HIDE DEF n
<1>7. UNCHANGED <<generation, hooked, shutdown, ticket, toEnd>>
  BY DEF ReleaseUpgrade
<1>8. QED  BY <1>0, <1>1, <1>3, <1>5, <1>6, <1>7, DropsOut

\* Refused, with or without its timer and its command.
LEMMA RefusedKeeps ==
  ASSUME ExecInv, NEW u \in Upgrades, up[u].pc # "idle", ~ up[u].active,
         up' \in {[up EXCEPT ![u] = Refused(u)], [up EXCEPT ![u] = [Refused(u) EXCEPT !.timer = FALSE]],
                  [up EXCEPT ![u] = [Refused(u) EXCEPT !.remote = "closed"]]},
         UNCHANGED <<generation, hooked, shutdown, ticket, toEnd>>,
         \/ sessions' = sessions /\ ~ Listed(u)
         \/ sessions' = Without(u)
  PROVE  ExecInv'
<1> DEFINE m == Refused(u)
<1>2. /\ m \in Upgrade /\ m.pc = "done" /\ m.id = up[u].id /\ m.active = FALSE /\ m.remote = "none"
      /\ m.finished = FALSE /\ m.requested = None /\ m.word = None /\ m.told = None /\ m.queue = <<>>
      /\ m.closes \in {0, 1}
  BY RefusedIs
<1>3. up' \in {[up EXCEPT ![u] = m], [up EXCEPT ![u] = [m EXCEPT !.timer = FALSE]],
               [up EXCEPT ![u] = [m EXCEPT !.remote = "closed"]]}
  OBVIOUS
<1> HIDE DEF m
<1>4. CASE up' = [up EXCEPT ![u] = m]
  BY <1>2, <1>4, DropsOut
<1>5. CASE up' = [up EXCEPT ![u] = [m EXCEPT !.timer = FALSE]]
  <2> DEFINE n == [m EXCEPT !.timer = FALSE]
  <2>1. /\ n \in Upgrade /\ n.pc = "done" /\ n.id = up[u].id /\ n.active = FALSE /\ n.remote = "none"
        /\ n.finished = FALSE /\ n.requested = None /\ n.word = None /\ n.told = None /\ n.queue = <<>>
        /\ n.closes \in {0, 1} /\ up' = [up EXCEPT ![u] = n]
    BY <1>2, <1>5 DEF Upgrade
  <2> HIDE DEF n
  <2>2. QED  BY <2>1, DropsOut
<1>6. CASE up' = [up EXCEPT ![u] = [m EXCEPT !.remote = "closed"]]
  <2> DEFINE n == [m EXCEPT !.remote = "closed"]
  <2>1. /\ n \in Upgrade /\ n.pc = "done" /\ n.id = up[u].id /\ n.active = FALSE /\ n.remote = "closed"
        /\ n.finished = FALSE /\ n.requested = None /\ n.word = None /\ n.told = None /\ n.queue = <<>>
        /\ n.closes \in {0, 1} /\ up' = [up EXCEPT ![u] = n]
    BY <1>2, <1>6 DEF Upgrade
  <2> HIDE DEF n
  <2>2. QED  BY <2>1, DropsOut
<1>7. QED  BY <1>3, <1>4, <1>5, <1>6

LEMMA ExpireKeeps ==
  ASSUME ExecInv, NEW u \in Upgrades, ExpireReservation(u)
  PROVE  ExecInv'
<1> DEFINE r == up[u]
<1>0. /\ r \in Upgrade /\ Good(r) /\ Stands(u, r, Listed(u), toEnd)
      /\ r.pc # "idle" => (sessions[r.id] = u <=> Listed(u))
  BY Fields
<1>1. UNCHANGED <<generation, hooked, shutdown, ticket, toEnd>>
  BY DEF ExpireReservation
<1>2. r.pc \notin {"idle", "spent"}
  BY <1>0 DEF ExpireReservation, Good
<1>3. CASE sessions[r.id] = u /\ ~ r.active
  <2> DEFINE n == [r EXCEPT !.timer = FALSE, !.closes = r.closes + 1]
  <2>1. up' = [up EXCEPT ![u] = n] /\ sessions' = Without(u)
    BY <1>3 DEF ExpireReservation, ExecInv, ExecTypes
  <2>a. r.closes + 1 \in Nat
    BY <1>0 DEF Good
  <2>2. n \in Upgrade /\ n.pc = r.pc /\ n.remote = r.remote /\ n.closes = r.closes + 1
    BY <1>0, <2>a DEF Upgrade
  <2>3. /\ n.id = r.id /\ n.gen = r.gen /\ n.active = r.active /\ n.requested = r.requested /\ n.word = r.word
        /\ n.finished = r.finished /\ n.told = r.told /\ n.queue = r.queue
    BY <1>0 DEF Upgrade
  <2> HIDE DEF n, r
  <2>4. r.closes = 0
    BY <1>0, <1>2, <1>3 DEF Stands
  <2>5. Good(n)
    BY <1>0, <1>2, <2>2, <2>3, <2>4 DEF Good
  <2>6. ~ Listed(u)'
    BY <2>1 DEF Listed, Without
  <2>7. Stands(u, n, Listed(u)', toEnd')
    BY <1>0, <1>1, <1>3, <2>3, <2>6 DEF Stands
  <2>8. QED  BY <1>1, <1>2, <2>1, <2>2, <2>3, <2>5, <2>7, OneMoves DEF r
<1>4. CASE ~ (sessions[r.id] = u /\ ~ r.active)
  <2> DEFINE n == [r EXCEPT !.timer = FALSE]
  <2>1. up' = [up EXCEPT ![u] = n] /\ sessions' = sessions
    BY <1>4 DEF ExpireReservation, ExecInv, ExecTypes
  <2>2. n \in Upgrade /\ n.pc = r.pc /\ n.remote = r.remote /\ Alike(n, r)
    BY <1>0 DEF Upgrade, Alike
  <2> HIDE DEF n, r
  <2>3. Good(n)
    BY <1>0, <1>2, <2>2 DEF Good, Alike
  <2>4. Listed(u)' <=> Listed(u)
    BY <2>1 DEF Listed
  <2>5. Stands(u, n, Listed(u)', toEnd')
    BY <1>0, <1>1, <2>2, <2>4 DEF Stands, Alike
  <2>6. QED  BY <1>1, <1>2, <2>1, <2>2, <2>3, <2>5, OneMoves DEF r, Alike
<1>5. QED  BY <1>3, <1>4

LEMMA StartKeeps ==
  ASSUME ExecInv, NEW u \in Upgrades,
         StartBegin(u) \/ RemoteStarts(u) \/ RemoteFails(u) \/ StartCheck(u) \/ StartInstall(u)
  PROVE  ExecInv'
<1> DEFINE r == up[u]
<1>0. /\ r \in Upgrade /\ Good(r) /\ Stands(u, r, Listed(u), toEnd) /\ r.pc \in {"granted", "starting", "started", "checked"}
      /\ sessions[r.id] = u <=> Listed(u)
  BY Fields DEF StartBegin, RemoteStarts, RemoteFails, StartCheck, StartInstall
<1>1. ~ r.active /\ r.pc # "idle"
  BY <1>0 DEF Good
<1>2. UNCHANGED <<generation, hooked, shutdown, ticket, toEnd>>
  BY DEF StartBegin, RemoteStarts, RemoteFails, StartCheck, StartInstall
<1>3. ASSUME NEW pc \in {"starting", "started", "checked"}, NEW b \in BOOLEAN, NEW remote \in {"none", "open", r.remote},
             up' = [up EXCEPT ![u] = [r EXCEPT !.pc = pc, !.timer = b, !.remote = remote]],
             remote = "open" => pc \in {"started", "checked"}, UNCHANGED sessions
      PROVE  ExecInv'
  <2> DEFINE n == [r EXCEPT !.pc = pc, !.timer = b, !.remote = remote]
  <2>0. remote \in {"none", "open", "closed"} \cup ExitWords /\ pc \in UpgradePCs
    BY <1>0, <1>3 DEF Upgrade, UpgradePCs
  <2>1. n \in Upgrade /\ n.pc = pc /\ n.remote = remote
    BY <1>0, <2>0, ZenonT(60) DEF Upgrade
  <2>a. Alike(n, r) /\ up' = [up EXCEPT ![u] = n]
    BY <1>0, <1>3 DEF Upgrade, Alike
  <2> HIDE DEF n
  <2>2. QED  BY <1>1, <1>2, <1>3, <2>1, <2>a, GoesOn
<1>4. CASE StartBegin(u)
  <2>1. CASE sessions[r.id] = u /\ generation = r.gen
    <3>1. r.remote # "open" /\ r.timer \in BOOLEAN
      BY <1>0, <1>1, <1>4 DEF Good, StartBegin, Upgrade
    <3>2. PICK stopped \in BOOLEAN : up' = [up EXCEPT ![u].pc = "starting", ![u].timer = @ /\ ~ stopped]
      BY <1>4, <2>1 DEF StartBegin
    <3>3. up' = [up EXCEPT ![u] = [r EXCEPT !.pc = "starting", !.timer = r.timer /\ ~ stopped, !.remote = r.remote]]
      BY <1>0, <3>2, ZenonT(60) DEF Upgrade, ExecInv, ExecTypes
    <3>4. (r.timer /\ ~ stopped) \in BOOLEAN
      OBVIOUS
    <3>5. sessions' = sessions
      BY <1>4, <2>1 DEF StartBegin
    <3>6. QED  BY <1>3, <3>1, <3>3, <3>4, <3>5
  <2>2. CASE ~ (sessions[r.id] = u /\ generation = r.gen)
    BY <1>1, <1>2, <1>4, <2>2, RefusedKeeps DEF StartBegin
  <2>3. QED  BY <2>1, <2>2
<1>5. CASE RemoteStarts(u)
  <2>1. up' = [up EXCEPT ![u] = [r EXCEPT !.pc = "started", !.timer = r.timer, !.remote = "open"]]
    BY <1>0, <1>5 DEF RemoteStarts, Upgrade, ExecInv, ExecTypes
  <2>2. r.timer \in BOOLEAN /\ sessions' = sessions
    BY <1>0, <1>5 DEF RemoteStarts, Upgrade
  <2>3. QED  BY <1>3, <2>1, <2>2
<1>6. CASE RemoteFails(u)
  BY <1>1, <1>2, <1>6, RefusedKeeps DEF RemoteFails
<1>7. CASE StartCheck(u)
  <2>1. CASE generation = r.gen
    <3>1. up' = [up EXCEPT ![u] = [r EXCEPT !.pc = "checked", !.timer = r.timer, !.remote = r.remote]]
      BY <1>0, <1>7, <2>1 DEF StartCheck, Upgrade, ExecInv, ExecTypes
    <3>2. r.timer \in BOOLEAN /\ sessions' = sessions
      BY <1>0, <1>7, <2>1 DEF StartCheck, Upgrade
    <3>3. QED  BY <1>3, <3>1, <3>2
  <2>2. CASE generation # r.gen
    BY <1>1, <1>2, <1>7, <2>2, RefusedKeeps DEF StartCheck
  <2>3. QED  BY <2>1, <2>2
<1>8. CASE StartInstall(u)
  <2>1. CASE sessions[r.id] = u /\ ~ shutdown
    <3> DEFINE n == [r EXCEPT !.pc = "serving", !.active = TRUE]
    <3>1. up' = [up EXCEPT ![u] = n] /\ sessions' = sessions
      BY <1>8, <2>1 DEF StartInstall, ExecInv, ExecTypes
    <3>2. n \in Upgrade /\ n.pc = "serving" /\ n.active = TRUE /\ n.remote = r.remote /\ n.id = r.id
      BY <1>0 DEF Upgrade, UpgradePCs
    <3>3. /\ n.gen = r.gen /\ n.requested = r.requested /\ n.word = r.word /\ n.closes = r.closes
          /\ n.finished = r.finished /\ n.told = r.told /\ n.queue = r.queue
      BY <1>0 DEF Upgrade
    <3> HIDE DEF n, r
    <3>4. Good(n)
      BY <1>0, <1>1, <3>2, <3>3 DEF Good
    <3>5. Listed(u)' /\ Listed(u)
      BY <1>0, <2>1, <3>1 DEF Listed
    <3>6. r.gen >= hooked /\ r.closes = 0 /\ ~ r.finished
      BY <1>0, <1>1, <3>5 DEF Stands
    <3>7. Stands(u, n, Listed(u)', toEnd')
      BY <1>2, <2>1, <3>2, <3>3, <3>5, <3>6 DEF Stands
    <3>8. QED  BY <1>1, <1>2, <3>1, <3>2, <3>4, <3>7, OneMoves DEF r
  <2>2. CASE ~ (sessions[r.id] = u /\ ~ shutdown)
    <3>1. ~ Listed(u)
      BY <1>0, <1>1, <2>2 DEF Stands
    <3>2. QED  BY <1>1, <1>2, <1>8, <2>2, <3>1, RefusedKeeps DEF StartInstall
  <2>3. QED  BY <2>1, <2>2
<1>9. QED  BY <1>4, <1>5, <1>6, <1>7, <1>8

-----------------------------------------------------------------------------
(* The last word *)

\* An active session keeps its slot; a sweep may have asked for its word.
LEMMA ActiveMoves ==
  ASSUME ExecInv, NEW u \in Upgrades, NEW n \in Upgrade,
         up' = [up EXCEPT ![u] = n], up[u].active, n.active,
         UNCHANGED <<generation, hooked, shutdown, ticket, sessions>>,
         n.id = up[u].id, n.gen = up[u].gen, n.closes = up[u].closes, n.finished = up[u].finished,
         \/ UNCHANGED toEnd /\ (n.remote = "open" => up[u].remote = "open")
         \/ n.remote # "open" /\ toEnd' \subseteq toEnd /\ \A x \in toEnd : x[1] # u => x \in toEnd',
         Good(n)
  PROVE  ExecInv'
<1>0. Good(up[u]) /\ Stands(u, up[u], Listed(u), toEnd)
  BY Fields
<1>1. up[u].pc # "idle" /\ n.pc \notin {"idle", "spent"}
  BY <1>0 DEF Good
<1>2. Listed(u)' <=> Listed(u)
  BY DEF Listed
<1>3. Stands(u, n, Listed(u)', toEnd')
  BY <1>0, <1>2 DEF Stands
<1>4. QED  BY <1>1, <1>3, OneMoves

\* What requestTerminal leaves.
LEMMA RequestedIs ==
  ASSUME ExecInv, NEW u \in Upgrades, up[u].active, NEW word \in AskedWords
  PROVE  LET n == Requested(u, word) IN
         /\ n \in Upgrade /\ Good(n) /\ n.remote # "open" /\ n.pc = up[u].pc /\ n.id = up[u].id /\ n.gen = up[u].gen
         /\ n.active /\ n.finished = up[u].finished /\ n.closes = up[u].closes /\ n.queue = up[u].queue
         /\ n.word = up[u].word /\ n.told = up[u].told
<1> DEFINE r == up[u]
<1>0. r \in Upgrade /\ Good(r) /\ Stands(u, r, Listed(u), toEnd) /\ r.active = TRUE
  BY Fields DEF Upgrade
<1>1. r.pc # "idle"
  BY <1>0 DEF Good
<1>2. sessions[r.id] = u <=> Listed(u)
  BY <1>1, Fields
<1>3. CASE sessions[r.id] = u /\ r.requested = None
  <2> DEFINE c == IF r.remote = "open" THEN "closed" ELSE r.remote
             n == [r EXCEPT !.requested = word, !.canceled = TRUE, !.remote = c]
  <2>1. Requested(u, word) = n
    BY <1>0, <1>3 DEF Requested, Upgrade
  <2>2. c \in {"none", "open", "closed"} \cup ExitWords /\ c # "open" /\ (r.remote # "open" => c = r.remote)
    BY <1>0 DEF Upgrade
  <2> HIDE DEF c
  <2>3. n \in Upgrade /\ n.remote = c /\ n.requested = word
    BY <1>0, <2>2 DEF Upgrade
  <2>4. /\ n.pc = r.pc /\ n.id = r.id /\ n.gen = r.gen /\ n.active = TRUE /\ n.finished = r.finished
        /\ n.closes = r.closes /\ n.queue = r.queue /\ n.word = r.word /\ n.told = r.told /\ n.timer = r.timer
    BY <1>0 DEF Upgrade
  <2> HIDE DEF n, r
  <2>5. r.word # None => r.word = "internal" \/ (r.word \in ExitWords /\ n.remote = r.word)
    BY <1>0, <1>3, <2>2, <2>3, WordsApart DEF Good
  <2>6. Good(n)
    BY <1>0, <2>2, <2>3, <2>4, <2>5 DEF Good
  <2>7. QED  BY <2>1, <2>2, <2>3, <2>4, <2>6 DEF r
<1>4. CASE ~ (sessions[r.id] = u /\ r.requested = None)
  <2>1. Requested(u, word) = r
    BY <1>4 DEF Requested
  <2>2. r.remote # "open"
    BY <1>0, <1>2, <1>4 DEF Good, Stands
  <2>3. QED  BY <1>0, <2>1, <2>2
<1>5. QED  BY <1>3, <1>4

LEMMA TimerKeeps ==
  ASSUME ExecInv, NEW u \in Upgrades, NEW word \in TimerWords, MonitorTimer(u, word)
  PROVE  ExecInv'
<1> DEFINE n == Requested(u, word)
<1>1. up[u].active /\ word \in AskedWords
  BY WordsApart DEF MonitorTimer
<1>2. /\ n \in Upgrade /\ Good(n) /\ n.remote # "open" /\ n.id = up[u].id /\ n.gen = up[u].gen
      /\ n.active /\ n.finished = up[u].finished /\ n.closes = up[u].closes
  BY <1>1, RequestedIs
<1>3. up' = [up EXCEPT ![u] = n] /\ UNCHANGED <<generation, hooked, shutdown, ticket, sessions, toEnd>>
  BY DEF MonitorTimer
<1> HIDE DEF n
<1>4. QED  BY <1>1, <1>2, <1>3, ActiveMoves

LEMMA EndSweptKeeps ==
  ASSUME ExecInv, EndSwept
  PROVE  ExecInv'
<1>1. PICK x \in toEnd : /\ toEnd' = toEnd \ {x}
                         /\ up' = [up EXCEPT ![x[1]] = Requested(x[1], x[2])]
                         /\ UNCHANGED <<generation, hooked, shutdown, ticket, sessions, upsets>>
  BY DEF EndSwept
<1> DEFINE u == x[1]  n == Requested(x[1], x[2])
<1>2. u \in Upgrades /\ x[2] \in {"generation", "shutdown"} /\ x = <<u, x[2]>>
  BY DEF ExecInv, ExecTypes
<1>3. up[u].active /\ x[2] \in AskedWords
  <2>1. Stands(u, up[u], Listed(u), toEnd)
    BY <1>2, Fields
  <2>2. <<u, "generation">> \in toEnd \/ <<u, "shutdown">> \in toEnd
    BY <1>1, <1>2
  <2>3. QED  BY <1>2, <2>1, <2>2 DEF Stands, AskedWords
<1>4. /\ n \in Upgrade /\ Good(n) /\ n.remote # "open" /\ n.id = up[u].id /\ n.gen = up[u].gen
      /\ n.active /\ n.finished = up[u].finished /\ n.closes = up[u].closes
  BY <1>2, <1>3, RequestedIs
<1>5. up' = [up EXCEPT ![u] = n] /\ toEnd' \subseteq toEnd /\ \A y \in toEnd : y[1] # u => y \in toEnd'
  BY <1>1
<1> HIDE DEF n, u
<1>6. QED  BY <1>1, <1>2, <1>3, <1>4, <1>5, ActiveMoves

LEMMA ExitKeeps ==
  ASSUME ExecInv, NEW u \in Upgrades, NEW word \in RemoteWords, RemoteExits(u, word)
  PROVE  ExecInv'
<1> DEFINE r == up[u]  n == [r EXCEPT !.remote = word]
<1>0. r \in Upgrade /\ Good(r) /\ r.active = TRUE /\ r.remote = "open"
  BY Fields DEF RemoteExits, Upgrade
<1>1. up' = [up EXCEPT ![u] = n] /\ UNCHANGED <<generation, hooked, shutdown, ticket, sessions, toEnd>>
  BY DEF RemoteExits, ExecInv, ExecTypes
<1>2. word \in ExitWords /\ word # "open" /\ "open" \notin ExitWords
  BY WordsApart
<1>3. n \in Upgrade /\ n.remote = word /\ Alike(n, r) /\ n.pc = r.pc /\ n.timer = r.timer
  BY <1>0, <1>2 DEF Upgrade, Alike
<1> HIDE DEF n, r
<1>4. Good(n)
  BY <1>0, <1>2, <1>3 DEF Good, Alike
<1>5. QED  BY <1>0, <1>1, <1>2, <1>3, <1>4, ActiveMoves DEF Alike, r

LEMMA MonitorEndsKeeps ==
  ASSUME ExecInv, NEW u \in Upgrades, MonitorEnds(u)
  PROVE  ExecInv'
<1> DEFINE r == up[u]
           w == IF r.requested # None THEN r.requested
                ELSE IF r.remote \in RemoteWords THEN r.remote ELSE "internal"
           n == [r EXCEPT !.word = w]
<1>0. r \in Upgrade /\ Good(r) /\ r.active = TRUE /\ r.word = None
  BY Fields DEF MonitorEnds, Upgrade
<1>1. up' = [up EXCEPT ![u] = n] /\ UNCHANGED <<generation, hooked, shutdown, ticket, sessions, toEnd>>
  BY DEF MonitorEnds, ExecInv, ExecTypes
<1>2. /\ w \in Words
      /\ w = r.requested \/ w = "internal" \/ (w \in ExitWords /\ r.remote = w)
  BY <1>0, WordsApart DEF Upgrade, Words
<1> HIDE DEF w
<1>3. /\ n \in Upgrade /\ n.word = w /\ n.id = r.id /\ n.gen = r.gen /\ n.active = r.active /\ n.pc = r.pc
      /\ n.requested = r.requested /\ n.remote = r.remote /\ n.timer = r.timer
      /\ n.finished = r.finished /\ n.told = r.told /\ n.queue = r.queue /\ n.closes = r.closes
  BY <1>0, <1>2 DEF Upgrade
<1>4. r.queue \in Seq(Say(w))
  <2>1. r.queue \in Seq(Say(None)) /\ Say(None) \subseteq Say(w)
    BY <1>0 DEF Good, Say
  <2>2. QED  BY <2>1, QueueWider
<1>5. w # None
  BY <1>2, WordsApart
<1> HIDE DEF n, r
<1>6. Good(n)
  BY <1>0, <1>2, <1>3, <1>4, <1>5 DEF Good
<1>7. QED  BY <1>0, <1>1, <1>3, <1>6, ActiveMoves DEF r

LEMMA EndKeeps ==
  ASSUME ExecInv, NEW u \in Upgrades, FinishSession(u)
  PROVE  ExecInv'
<1> DEFINE r == up[u]
           c == IF r.remote = "open" THEN "closed" ELSE r.remote
           k == r.closes + 1
           n == [r EXCEPT !.finished = TRUE, !.closes = k, !.canceled = TRUE, !.remote = c]
<1>0. r \in Upgrade /\ Good(r) /\ Stands(u, r, Listed(u), toEnd) /\ r.word # None /\ r.finished = FALSE
  BY Fields DEF FinishSession, Upgrade
<1>1. up' = [up EXCEPT ![u] = n] /\ sessions' = Without(u)
  BY DEF FinishSession, ExecInv, ExecTypes
<1>2. UNCHANGED <<generation, hooked, shutdown, ticket, toEnd>>
  BY DEF FinishSession
<1>3. r.active = TRUE /\ r.pc \notin {"idle", "spent"}
  BY <1>0 DEF Good, Upgrade
<1>4. k = 1 /\ k \in Nat
  BY <1>0, <1>3 DEF Stands
<1>5. c \in {"none", "open", "closed"} \cup ExitWords /\ c # "open" /\ (r.remote # "open" => c = r.remote)
  BY <1>0 DEF Upgrade
<1> HIDE DEF c, k
<1>6. n \in Upgrade /\ n.remote = c /\ n.finished = TRUE /\ n.closes = 1
  BY <1>0, <1>4, <1>5 DEF Upgrade
<1>7. /\ n.pc = r.pc /\ n.id = r.id /\ n.gen = r.gen /\ n.active = TRUE /\ n.requested = r.requested
      /\ n.queue = r.queue /\ n.word = r.word /\ n.told = r.told /\ n.timer = r.timer
  BY <1>0, <1>3 DEF Upgrade
<1> HIDE DEF n, r
<1>8. Good(n)
  BY <1>0, <1>3, <1>5, <1>6, <1>7, WordsApart DEF Good
<1>9. ~ Listed(u)'
  BY <1>1 DEF Listed, Without
<1>10. Stands(u, n, Listed(u)', toEnd')
  BY <1>2, <1>5, <1>6, <1>7, <1>9 DEF Stands
<1>11. QED  BY <1>1, <1>2, <1>3, <1>6, <1>7, <1>8, <1>10, OneMoves DEF r

-----------------------------------------------------------------------------
(* The sweeps *)

LEMMA RotateKeeps ==
  ASSUME ExecInv, Rotate
  PROVE  ExecInv'
<1> USE DEF ExecInv
<1>1. UNCHANGED <<hooked, shutdown, ticket, sessions, up, toEnd>> /\ generation' = generation + 1
  BY DEF Rotate
<1>2. generation' \in Nat /\ hooked <= generation'
  BY <1>1 DEF ExecTypes
<1>3. ExecTypes'
  BY <1>1, <1>2 DEF ExecTypes
<1>4. SpentOnce' /\ SessionsOwned' /\ AllGood'
  BY <1>1 DEF SpentOnce, SessionsOwned, AllGood
<1>5. AllStand'
  BY <1>1 DEF AllStand, Stands, Listed
<1>6. QED  BY <1>3, <1>4, <1>5

\* One sweep over the sessions in old: the reservations end, the active sessions
\* are to be asked for the word.
LEMMA SweptKeeps ==
  ASSUME ExecInv, NEW old \in SUBSET Upgrades, \A u \in old : Listed(u), Swept(old),
         NEW word \in {"generation", "shutdown"},
         toEnd' = toEnd \cup {<<u, word>> : u \in {w \in old : up[w].active}},
         TicketsKept, generation' = generation, hooked' \in Nat, hooked' <= generation, shutdown' \in BOOLEAN,
         \A u \in Upgrades : Listed(u) /\ u \notin old => up[u].gen >= hooked' /\ shutdown' = shutdown,
         word = "generation" \/ hooked' = hooked
  PROVE  ExecInv'
<1> USE DEF ExecInv
<1> DEFINE waiting == {u \in old : ~ up[u].active}
<1>1. sessions' = [i \in Ids |-> IF sessions[i] \in waiting THEN None ELSE sessions[i]]
  BY DEF Swept
<1>2. up' = [u \in Upgrades |->
               IF u \in waiting THEN [up[u] EXCEPT !.canceled = TRUE, !.timer = FALSE, !.closes = up[u].closes + 1]
               ELSE up[u]]
  BY DEF Swept
<1>3. \A u \in Upgrades : u \notin waiting => up'[u] = up[u] /\ (Listed(u)' <=> Listed(u))
  BY <1>1, <1>2 DEF Listed
<1>4. ASSUME NEW u \in waiting
      PROVE  /\ up'[u] \in Upgrade /\ Good(up'[u]) /\ ~ up'[u].active /\ ~ Listed(u)'
             /\ up'[u].id = up[u].id /\ up'[u].pc = up[u].pc /\ up'[u].remote = up[u].remote
  <2> DEFINE r == up[u]  k == r.closes + 1
             n == [r EXCEPT !.canceled = TRUE, !.timer = FALSE, !.closes = k]
  <2>1. u \in Upgrades /\ Listed(u) /\ up'[u] = n
    BY <1>2
  <2>2. r \in Upgrade /\ Good(r) /\ Stands(u, r, Listed(u), toEnd) /\ r.active = FALSE
    BY <2>1, Fields DEF Upgrade
  <2>3. r.pc \notin {"idle", "spent"}
    BY <2>1 DEF Listed, SessionsOwned
  <2>4. k = 1 /\ k \in Nat
    BY <2>1, <2>2 DEF Stands
  <2> HIDE DEF k
  <2>5. n \in Upgrade /\ n.closes = 1
    BY <2>2, <2>4 DEF Upgrade
  <2>6. /\ n.pc = r.pc /\ n.id = r.id /\ n.active = FALSE /\ n.requested = r.requested /\ n.remote = r.remote
        /\ n.queue = r.queue /\ n.word = r.word /\ n.told = r.told /\ n.finished = r.finished
    BY <2>2 DEF Upgrade
  <2>7. ~ Listed(u)'
    BY <1>1, <2>1 DEF Listed
  <2> HIDE DEF n, r
  <2>8. Good(n)
    BY <2>2, <2>3, <2>5, <2>6 DEF Good
  <2>9. QED  BY <2>1, <2>5, <2>6, <2>7, <2>8 DEF r
<1> HIDE DEF waiting
<1>5. ExecTypes'
  <2>1. up' \in [Upgrades -> Upgrade]
    <3>1. \A u \in Upgrades : up'[u] \in Upgrade
      BY <1>3, <1>4 DEF ExecTypes
    <3>2. QED  BY <1>2, <3>1
  <2>2. sessions' \in [Ids -> Upgrades \cup {None}]
    BY <1>1 DEF ExecTypes
  <2>3. toEnd' \subseteq Upgrades \X {"generation", "shutdown"}
    BY DEF ExecTypes
  <2>4. QED  BY <2>1, <2>2, <2>3 DEF ExecTypes, TicketsKept
<1>6. \A u \in Upgrades : up'[u].id = up[u].id /\ up'[u].pc = up[u].pc
  BY <1>3, <1>4
<1>7. SpentOnce'
  BY <1>6 DEF SpentOnce, TicketsKept
<1>8. SessionsOwned'
  BY <1>1, <1>6 DEF SessionsOwned, ExecTypes
<1>9. AllGood'
  BY <1>3, <1>4 DEF AllGood
<1>10. ASSUME NEW u \in Upgrades PROVE Stands(u, up[u], Listed(u), toEnd)'
  <2>0. Stands(u, up[u], Listed(u), toEnd)
    BY Fields
  <2>1. \A x \in {"generation", "shutdown"} :
            <<u, x>> \in toEnd' <=> <<u, x>> \in toEnd \/ (u \in old /\ up[u].active /\ x = word)
    OBVIOUS
  <2>2. CASE u \in waiting
    <3>1. u \in old /\ ~ up[u].active
      BY <2>2 DEF waiting
    <3>2. <<u, "generation">> \notin toEnd' /\ <<u, "shutdown">> \notin toEnd'
      BY <2>0, <2>1, <3>1 DEF Stands
    <3>3. QED  BY <1>4, <2>2, <3>2 DEF Stands
  <2>3. CASE u \notin waiting
    <3>1. up'[u] = up[u] /\ (Listed(u)' <=> Listed(u))
      BY <1>3, <2>3
    <3>2. u \in old => up[u].active
      BY <2>3 DEF waiting
    <3>3. CASE u \in old
      <4>1. <<u, word>> \in toEnd'
        BY <2>1, <3>2, <3>3
      <4>2. Listed(u) /\ up[u].active
        BY <3>2, <3>3
      <4>3. up[u].remote = "open" => up[u].gen >= hooked' \/ <<u, "generation">> \in toEnd'
        BY <2>0, <2>1, <4>1, <4>2 DEF Stands
      <4>4. <<u, "generation">> \in toEnd' \/ <<u, "shutdown">> \in toEnd'
        BY <4>1
      <4>5. QED  BY <2>0, <3>1, <4>2, <4>3, <4>4 DEF Stands
    <3>4. CASE u \notin old
      <4>1. \A x \in {"generation", "shutdown"} : <<u, x>> \in toEnd' <=> <<u, x>> \in toEnd
        BY <2>1, <3>4
      <4>2. Listed(u) => up[u].gen >= hooked' /\ shutdown' = shutdown
        BY <3>4
      <4>3. up[u].active /\ up[u].remote = "open" => Listed(u)
        BY <2>0, Fields DEF Stands, Good
      <4>4. QED  BY <2>0, <3>1, <4>1, <4>2, <4>3 DEF Stands
    <3>5. QED  BY <3>3, <3>4
  <2>4. QED  BY <2>2, <2>3
<1>11. QED  BY <1>5, <1>7, <1>8, <1>9, <1>10 DEF AllStand

LEMMA SweepsKeep ==
  ASSUME ExecInv, OnGeneration \/ Shutdown
  PROVE  ExecInv'
<1>0. ticket \in [Ids -> Ticket] /\ Gone \in Ticket /\ Gone.state = "gone"
  BY DEF ExecInv, ExecTypes, Gone, Ticket
<1>1. CASE OnGeneration
  <2> DEFINE old == {u \in Upgrades : u \in {sessions[i] : i \in Ids} /\ up[u].gen # generation}
  <2>1. old \in SUBSET Upgrades /\ \A u \in Upgrades : u \in old <=> Listed(u) /\ up[u].gen # generation
    BY DEF Listed
  <2>2. /\ Swept(old) /\ toEnd' = toEnd \cup {<<u, "generation">> : u \in {w \in old : up[w].active}}
        /\ hooked' = generation /\ UNCHANGED <<generation, shutdown>>
        /\ ticket' = [i \in Ids |-> IF i \in Issued /\ ticket[i].gen # generation THEN Gone ELSE ticket[i]]
    BY <1>1 DEF OnGeneration
  <2> HIDE DEF old
  <2>3. TicketsKept
    BY <1>0, <2>2 DEF TicketsKept
  <2>4. generation \in Nat /\ shutdown \in BOOLEAN
    BY DEF ExecInv, ExecTypes
  <2>5. QED  BY <2>1, <2>2, <2>3, <2>4, SweptKeeps
<1>2. CASE Shutdown
  <2> DEFINE old == {u \in Upgrades : u \in {sessions[i] : i \in Ids}}
  <2>1. old \in SUBSET Upgrades /\ \A u \in Upgrades : u \in old <=> Listed(u)
    BY DEF Listed
  <2>2. /\ Swept(old) /\ toEnd' = toEnd \cup {<<u, "shutdown">> : u \in {w \in old : up[w].active}}
        /\ shutdown' = TRUE /\ UNCHANGED <<generation, hooked>>
        /\ ticket' = [i \in Ids |-> IF i \in Issued THEN Gone ELSE ticket[i]]
    BY <1>2 DEF Shutdown
  <2> HIDE DEF old
  <2>3. TicketsKept
    BY <1>0, <2>2 DEF TicketsKept
  <2>4. hooked' \in Nat /\ hooked' <= generation
    BY <2>2 DEF ExecInv, ExecTypes
  <2>5. shutdown' \in BOOLEAN
    BY <2>2, Zenon
  <2>6. QED  BY <2>1, <2>2, <2>3, <2>4, <2>5, SweptKeeps
<1>3. QED  BY <1>1, <1>2

-----------------------------------------------------------------------------
(* The bridge *)

\* A bridge that gives up: the word is asked for, and the client may be gone.
LEMMA GivesUp ==
  ASSUME ExecInv, NEW u \in Upgrades, up[u].pc = "serving", NEW word \in AskedWords, NEW b \in BOOLEAN,
         up' \in {[up EXCEPT ![u] = [Requested(u, word) EXCEPT !.pc = "waiting"]],
                  [up EXCEPT ![u] = [Requested(u, word) EXCEPT !.pc = "waiting", !.writable = b,
                                                 !.queue = IF b THEN Requested(u, word).queue ELSE <<>>]]},
         UNCHANGED <<generation, hooked, shutdown, ticket, sessions, toEnd>>
  PROVE  ExecInv'
<1> DEFINE m == Requested(u, word)  q == IF b THEN m.queue ELSE <<>>
<1>0. up[u].active
  BY Fields DEF Good
<1>1. /\ m \in Upgrade /\ Good(m) /\ m.remote # "open" /\ m.id = up[u].id /\ m.gen = up[u].gen
      /\ m.active /\ m.finished = up[u].finished /\ m.closes = up[u].closes
  BY <1>0, RequestedIs
<1>2. up' \in {[up EXCEPT ![u] = [m EXCEPT !.pc = "waiting"]],
               [up EXCEPT ![u] = [m EXCEPT !.pc = "waiting", !.writable = b, !.queue = q]]}
  OBVIOUS
<1> HIDE DEF m
<1>3. CASE up' = [up EXCEPT ![u] = [m EXCEPT !.pc = "waiting"]]
  <2> DEFINE n == [m EXCEPT !.pc = "waiting"]
  <2>1. n \in Upgrade /\ n.pc = "waiting" /\ n.remote = m.remote /\ n.timer = m.timer /\ Alike(n, m)
    BY <1>1 DEF Upgrade, UpgradePCs, Alike
  <2>2. up' = [up EXCEPT ![u] = n]
    BY <1>3
  <2> HIDE DEF n
  <2>3. Good(n)
    BY <1>1, <2>1 DEF Good, Alike
  <2>4. QED  BY <1>0, <1>1, <2>1, <2>2, <2>3, ActiveMoves DEF Alike
<1>4. CASE up' = [up EXCEPT ![u] = [m EXCEPT !.pc = "waiting", !.writable = b, !.queue = q]]
  <2> DEFINE n == [m EXCEPT !.pc = "waiting", !.writable = b, !.queue = q]
  <2>0. q \in Seq({"data"} \cup Words) /\ q \in Seq(Say(m.word))
    <3>1. m.queue \in Seq({"data"} \cup Words) /\ m.queue \in Seq(Say(m.word))
      BY <1>1 DEF Upgrade, Good
    <3>2. QED  BY <3>1, QueueEmpty
  <2>1. up' = [up EXCEPT ![u] = n]
    BY <1>4
  <2> HIDE DEF q
  <2>2. n \in Upgrade /\ n.pc = "waiting" /\ n.remote = m.remote /\ n.timer = m.timer /\ n.queue = q
    BY <1>1, <2>0, ZenonT(60) DEF Upgrade, UpgradePCs
  <2>3. /\ n.id = m.id /\ n.gen = m.gen /\ n.active = m.active /\ n.requested = m.requested /\ n.word = m.word
        /\ n.finished = m.finished /\ n.told = m.told /\ n.closes = m.closes
    BY <1>1 DEF Upgrade
  <2> HIDE DEF n
  <2>4. Good(n)
    BY <1>1, <2>0, <2>2, <2>3 DEF Good
  <2>5. QED  BY <1>0, <1>1, <2>1, <2>2, <2>3, <2>4, ActiveMoves
<1>5. QED  BY <1>2, <1>3, <1>4

\* A frame is queued or written.
LEMMA QueueMoves ==
  ASSUME ExecInv, NEW u \in Upgrades, up[u].active, NEW pc \in {up[u].pc, "done"}, NEW b \in BOOLEAN,
         NEW q \in Seq(Say(up[u].word)), NEW said \in {up[u].told, "internal", up[u].word},
         up' = [up EXCEPT ![u] = [up[u] EXCEPT !.pc = pc, !.ended = b, !.queue = q, !.told = said]],
         UNCHANGED <<generation, hooked, shutdown, ticket, sessions, toEnd>>
  PROVE  ExecInv'
<1> DEFINE r == up[u]  n == [r EXCEPT !.pc = pc, !.ended = b, !.queue = q, !.told = said]
<1>0. r \in Upgrade /\ Good(r) /\ r.active = TRUE
  BY Fields DEF Upgrade
<1>1. pc \in UpgradePCs /\ said \in Words \cup {None} /\ said \in {None, "internal", r.word}
  BY <1>0, WordsApart DEF Upgrade, UpgradePCs, Good, Words
<1>2. q \in Seq({"data"} \cup Words)
  BY <1>0, SayWords, QueueWider DEF Upgrade
<1>3. n \in Upgrade /\ n.pc = pc /\ n.queue = q /\ n.told = said
  BY <1>0, <1>1, <1>2, ZenonT(60) DEF Upgrade
<1>4. /\ n.id = r.id /\ n.gen = r.gen /\ n.active = r.active /\ n.requested = r.requested /\ n.word = r.word
      /\ n.finished = r.finished /\ n.closes = r.closes /\ n.timer = r.timer /\ n.remote = r.remote
  BY <1>0 DEF Upgrade
<1>5. up' = [up EXCEPT ![u] = n]
  OBVIOUS
<1> HIDE DEF n, r
<1>6. Good(n)
  BY <1>0, <1>1, <1>3, <1>4 DEF Good, r
<1>7. QED  BY <1>0, <1>3, <1>4, <1>5, <1>6, ActiveMoves DEF r

LEMMA BridgeKeeps ==
  ASSUME ExecInv, NEW u \in Upgrades,
         \/ Output(u) \/ WriteFrame(u) \/ TellTerminal(u)
         \/ (\E w \in AbortWords \cup {"violation"} : Abort(u, w))
         \/ \E b \in BOOLEAN : CancelBridge(u, b)
  PROVE  ExecInv'
<1> DEFINE r == up[u]
<1>0. r \in Upgrade /\ Good(r) /\ r.queue \in Seq(Say(r.word)) /\ r.ended \in BOOLEAN
  BY Fields DEF Good, Upgrade
<1>1. UNCHANGED <<generation, hooked, shutdown, ticket, sessions, toEnd>>
  BY DEF Output, WriteFrame, TellTerminal, Abort, CancelBridge
<1>2. r.pc \in {"serving", "waiting"} => r.active
  BY <1>0 DEF Good
<1>3. CASE Output(u)
  <2>1. CASE Room(u)
    <3>1. up' = [up EXCEPT ![u] = [r EXCEPT !.pc = r.pc, !.ended = r.ended, !.queue = Append(r.queue, "data"), !.told = r.told]]
      BY <1>0, <1>3, <2>1 DEF Output, Upgrade
    <3>2. Append(r.queue, "data") \in Seq(Say(r.word))
      BY <1>0, QueueAppend DEF Say
    <3>3. r.active
      BY <1>2, <1>3 DEF Output
    <3>4. QED  BY <1>0, <1>1, <3>1, <3>2, <3>3, QueueMoves
  <2>2. CASE ~ Room(u)
    BY <1>1, <1>3, <2>2, WordsApart, GivesUp DEF Output
  <2>3. QED  BY <2>1, <2>2
<1>4. CASE WriteFrame(u)
  <2> DEFINE said == IF Head(r.queue) = "data" THEN r.told ELSE Head(r.queue)
  <2>1. r.active /\ r.queue # <<>>
    BY <1>0, <1>4 DEF WriteFrame, Good
  <2>2. Head(r.queue) \in Say(r.word) /\ Tail(r.queue) \in Seq(Say(r.word))
    BY <1>0, <2>1, QueueTail
  <2>3. said \in {r.told, "internal", r.word}
    BY <2>2 DEF Say
  <2>4. up' = [up EXCEPT ![u] = [r EXCEPT !.pc = r.pc, !.ended = r.ended, !.queue = Tail(r.queue), !.told = said]]
    BY <1>0, <1>4, ZenonT(60) DEF WriteFrame, Upgrade, ExecInv, ExecTypes
  <2> HIDE DEF said
  <2>5. QED  BY <1>0, <1>1, <2>1, <2>2, <2>3, <2>4, QueueMoves
<1>5. CASE TellTerminal(u)
  <2> DEFINE w == IF r.finished THEN r.word ELSE "internal"
             q == IF r.writable THEN Append(r.queue, w) ELSE r.queue
  <2>1. w \in Say(r.word)
    BY <1>0 DEF Good, Say
  <2>2. Append(r.queue, w) \in Seq(Say(r.word))
    BY <1>0, <2>1, QueueAppend
  <2>3. q \in Seq(Say(r.word))
    BY <1>0, <2>2
  <2>4. up' = [up EXCEPT ![u] = [r EXCEPT !.pc = "done", !.ended = TRUE, !.queue = q, !.told = r.told]]
    BY <1>0, <1>5, ZenonT(60) DEF TellTerminal, Upgrade, ExecInv, ExecTypes
  <2>5. r.active
    BY <1>2, <1>5 DEF TellTerminal
  <2> HIDE DEF q
  <2>6. QED  BY <1>0, <1>1, <2>3, <2>4, <2>5, QueueMoves
<1>6. CASE \E w \in AbortWords \cup {"violation"} : Abort(u, w)
  BY <1>1, <1>6, WordsApart, GivesUp DEF Abort
<1>7. ASSUME NEW b \in BOOLEAN, CancelBridge(u, b) PROVE ExecInv'
  <2>1. "canceled" \in AskedWords /\ r.pc = "serving"
    BY <1>7 DEF AskedWords, CancelBridge
  <2>2. up' = [up EXCEPT ![u] = [Requested(u, "canceled") EXCEPT !.pc = "waiting", !.writable = b,
                                             !.queue = IF b THEN Requested(u, "canceled").queue ELSE <<>>]]
    BY <1>7 DEF CancelBridge
  <2>3. QED  BY <1>1, <2>1, <2>2, GivesUp
<1>8. QED  BY <1>3, <1>4, <1>5, <1>6, <1>7

-----------------------------------------------------------------------------
(* The theorems *)

LEMMA ExecKeeps ==
  ASSUME ExecInv, [SessionsNext]_sessionVars
  PROVE  ExecInv'
<1>1. CASE UNCHANGED sessionVars
  BY <1>1 DEF sessionVars, ExecInv, ExecTypes, SpentOnce, SessionsOwned, AllGood, AllStand, Stands, Listed
<1>2. ASSUME NEW i \in Ids, AskTicket(i) \/ IssueTicket(i) \/ Lapse(i) PROVE ExecInv'
  BY <1>2, TicketsMove
<1>3. ASSUME NEW u \in Upgrades, Handled(u) \/ Monitored(u) \/ ReleaseUpgrade(u) \/ ExpireReservation(u) PROVE ExecInv'
  BY <1>3, ReserveKeeps, StartKeeps, BridgeKeeps, MonitorEndsKeeps, EndKeeps, ReleaseKeeps, ExpireKeeps
     DEF Handled, Monitored
<1>4. ASSUME NEW u \in Upgrades,
             \/ Output(u) \/ HeartbeatLost(u) \/ PingLost(u)
             \/ (\E w \in AbortWords : Abort(u, w)) \/ \E b \in BOOLEAN : CancelBridge(u, b)
      PROVE ExecInv'
  BY <1>4, BridgeKeeps DEF HeartbeatLost, PingLost
<1>5. ASSUME NEW u \in Upgrades,
             \/ (\E i \in Ids : Spend(u, i))
             \/ (\E w \in TimerWords : MonitorTimer(u, w)) \/ \E w \in RemoteWords : RemoteExits(u, w)
      PROVE ExecInv'
  BY <1>5, SpendKeeps, TimerKeeps, ExitKeeps
<1>6. CASE Rotate \/ OnGeneration \/ Shutdown \/ EndSwept
  BY <1>6, RotateKeeps, SweepsKeep, EndSweptKeeps
<1>7. QED  BY <1>1, <1>2, <1>3, <1>4, <1>5, <1>6 DEF SessionsNext

\* The inductive invariant of exec sessions: tickets, registry, records, queues
\* and sweeps agree (CreateTicket, AuthorizeUpgrade, Start, monitor, finish,
\* OnGeneration, Shutdown).
THEOREM ExecHolds == SessionsSpec => []ExecInv
<1>1. QED  BY ExecStart, ExecKeeps, PTL DEF SessionsSpec

\* A ticket is good for one command (AuthorizeUpgrade spends it first).
LEMMA TicketsGoodOnce == ASSUME ExecInv PROVE OneCommandPerTicket
<1>1. \A u \in Upgrades : up[u].remote # "none" => up[u].pc # "idle"
  BY Fields DEF Good
<1>2. QED  BY <1>1 DEF OneCommandPerTicket, ExecInv, SpentOnce

\* No command is left behind (Start, OnGeneration, Shutdown).
LEMMA CommandsOwned == ASSUME ExecInv PROVE NoOrphanCommand
<1> SUFFICES ASSUME NEW u \in Upgrades, up[u].remote = "open"
             PROVE  /\ sessions[up[u].id] # u => ~ up[u].active /\ up[u].pc \in {"started", "checked"}
                    /\ up[u].active =>
                        /\ up[u].gen >= hooked \/ <<u, "generation">> \in toEnd
                        /\ shutdown => \E word \in {"generation", "shutdown"} : <<u, word>> \in toEnd
  BY DEF NoOrphanCommand
<1>1. Good(up[u]) /\ Stands(u, up[u], Listed(u), toEnd) /\ (up[u].pc # "idle" => (sessions[up[u].id] = u <=> Listed(u)))
  BY Fields
<1>2. up[u].pc # "idle" /\ ~ up[u].finished
  BY <1>1 DEF Good
<1>3. sessions[up[u].id] # u => ~ up[u].active
  BY <1>1, <1>2 DEF Stands
<1>4. ~ up[u].active => up[u].pc \in {"started", "checked"}
  BY <1>1 DEF Good
<1>5. QED  BY <1>1, <1>3, <1>4 DEF Stands

\* A word is asked for, told and closed with once (requestTerminal, finish).
LEMMA WordsOnce == ASSUME ExecInv PROVE OneWord
<1> SUFFICES ASSUME NEW u \in Upgrades
             PROVE  LET said == up[u].told IN
                    /\ up[u].closes <= 1
                    /\ said # None =>
                        /\ said = up[u].word \/ said = "internal"
                        /\ said \in RemoteWords => up[u].remote = said
                        /\ said \notin {"completed", "signal", "remote_error", "canceled", "too_large"} =>
                              Terminal(said).close = StartFailureClose(said)
                    /\ up[u].word # None /\ up[u].word # up[u].requested =>
                              up[u].word = "internal" \/ up[u].word = up[u].remote
  BY DEF OneWord
<1> DEFINE r == up[u]
<1>0. r \in Upgrade /\ Good(r)
  BY Fields
<1>1. r.closes <= 1
  BY <1>0 DEF Good
<1>2. r.told # None => r.told = r.word \/ r.told = "internal"
  BY <1>0 DEF Good
<1>3. r.told # None /\ r.told \in RemoteWords => r.remote = r.told
  <2>1. r.requested \in AskedWords \cup {None}
    BY <1>0 DEF Upgrade
  <2>2. QED  BY <1>0, <1>2, <2>1, WordsApart DEF Good
<1>4. r.told \notin {"completed", "signal", "remote_error", "canceled", "too_large"} =>
          Terminal(r.told).close = StartFailureClose(r.told)
  BY DEF Terminal, StartFailureClose
<1>5. r.word # None /\ r.word # r.requested => r.word = "internal" \/ r.word = r.remote
  BY <1>0 DEF Good
<1>6. QED  BY <1>1, <1>2, <1>3, <1>4, <1>5

\* Every command is accounted for, whatever upgrades, timers, failures of the
\* bridge, changes of generation and the shutdown race: one command per ticket,
\* none outside the registry or behind a fence, one word per session
\* (ExecManager).
THEOREM EveryCommandAccounted == SessionsSpec => []CommandsAccounted
<1>1. ExecInv => CommandsAccounted
  BY TicketsGoodOnce, CommandsOwned, WordsOnce DEF CommandsAccounted
<1>2. QED  BY <1>1, ExecHolds, PTL
=============================================================================
