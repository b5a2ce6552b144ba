--------------------------- MODULE PortForwardProof --------------------------
(***************************************************************************)
(* Port-forwards, for any number of requests, objects, generations and       *)
(* slots: every tunnel is accounted for (TunnelsAccounted).                  *)
(***************************************************************************)
EXTENDS PortForward, FiniteSetTheorems, TLAPS

USE PortForwardAssumption

-----------------------------------------------------------------------------
(* The inductive invariant *)

Using(r) == req[r].pc \notin {"idle", "gate", "done"}

Holding(r) == Using(r) /\ req[r].pc # "wait"

Reserved == {"close", "join", "attach", "check", "listen", "start", "recheck", "publish"}

UsersOf(g) == {r \in Requests : Using(r) /\ req[r].gate = g}

\* The session of a request that was answered, and is still up.
Lingers(r) == req[r].pc = "done" /\ Open(r)

\* The gate of an origin is in the map as long as somebody uses it, and one
\* request at a time is past it.
GatesInv ==
    /\ \A o \in Origins, g \in Requests : targetGates[o] = g => Origin(g) = o /\ req[g].pc \notin {"idle", "gate"}
    /\ \A r \in Requests : Using(r) => req[r].gate # NoOne /\ targetGates[Origin(r)] = req[r].gate
    /\ \A g \in Requests : gate[g].users = Cardinality(UsersOf(g))
    /\ \A r \in Requests : Holding(r) => gate[req[r].gate].token
    /\ \A r, s \in Requests : Holding(r) /\ Holding(s) /\ req[r].gate = req[s].gate => r = s

\* Reservations belong to requests past reserve, sessions to answered ones.
PlacesInv ==
    \A r \in Requests :
        /\ r \in starts => req[r].pc \in Reserved \cup {"failed"}
        /\ req[r].pc \in Reserved => r \in starts
        /\ r \in sessions => req[r].pc = "done"
        /\ req[r].gen <= gen
        /\ req[r].due => req[r].pc \in {"stopping", "done"} /\ (r \in sessions => ~ req[r].active)

\* OnGeneration has ended for the generation in force, or is on its way there
\* with what it collected.
HookInv ==
    /\ hook.ended <= gen
    /\ hook.step = "idle" => hook.ended = gen
    /\ hook.step \in {"idle", "collect"} => hook.stops = {}
    /\ \A r \in Requests :
         /\ r \in sessions => req[r].gen >= hook.ended /\ (hook.step # "collect" => req[r].gen = gen)
         /\ r \in hook.stops => req[r].pc = "done" /\ r \notin sessions /\ req[r].gen >= hook.ended /\ req[r].gen < gen
         /\ r \in down.stops => req[r].pc = "done" /\ r \notin sessions

\* An open tunnel is that of its request or of its session, or is about to be
\* stopped.
OpenInv ==
    \A r \in Requests : Open(r) =>
        /\ req[r].pc \in {"start", "recheck", "publish", "stopping", "done"}
        /\ req[r].pc = "done" => r \in sessions \/ r \in hook.stops \/ down.step # "up"

\* Who follows on an origin has seen its predecessor end, or will be refused.
SuccessorInv ==
    \A r, s \in Requests : Lingers(r) /\ Origin(r) = Origin(s) =>
        /\ req[s].pc = "join" => r \in req[s].previous \/ req[s].gen < gen \/ down.step # "up"
        /\ req[s].pc = "attach" => req[s].gen < gen \/ down.step # "up"
        /\ req[s].pc = "check" => req[s].gen < gen
        /\ req[s].pc \notin {"listen", "start", "recheck", "publish", "stopping"}
        /\ Lingers(s) => r = s

\* What may cancel a lifetime context either keeps it from being published or
\* cannot reach it any more.
CancelInv ==
    \A r \in Requests :
         /\ r \in hook.cancels \/ r \in down.cancels => r \notin sessions /\ (req[r].pc # "done" => req[r].stale)
         /\ req[r].pc # "done" /\ req[r].watch = "fired" => req[r].left
         /\ r \in sessions => req[r].watch = "off"
         /\ req[r].pc \notin {"done", "failed", "stopping"} /\ req[r].cancelled =>
              rootDone \/ req[r].left \/ req[r].stale
         /\ r \in sessions /\ req[r].active /\ req[r].cancelled => rootDone

ForwardInv ==
    /\ GatesInv /\ PlacesInv /\ HookInv /\ OpenInv /\ SuccessorInv /\ CancelInv
    /\ SlotsKept

-----------------------------------------------------------------------------
(* Types *)

PCs == {"idle", "gate", "wait", "review", "enter", "reserve", "close", "join", "attach",
        "check", "listen", "start", "recheck", "publish", "stopping", "failed", "done"}

Watches == {"off", "armed", "fired"}

Tunnels == {"none", "bound", "live", "down"}

\* The updates that the actions make keep a request a request.
LEMMA Updates ==
    ASSUME NEW o \in Request, NEW p \in PCs, NEW w \in Watches, NEW t \in Tunnels, NEW b \in BOOLEAN, NEW c \in BOOLEAN
    PROVE  /\ [o EXCEPT !.pc = p] \in Request
           /\ \A g \in 0 .. MaxGen : [o EXCEPT !.gen = g, !.pc = p] \in Request
           /\ \A g \in Requests : [o EXCEPT !.gate = g, !.pc = p] \in Request
           /\ [o EXCEPT !.left = FALSE, !.pc = p] \in Request
           /\ \A s \in SUBSET Requests : [o EXCEPT !.previous = s, !.pc = p] \in Request
           /\ [o EXCEPT !.watch = w, !.attached = TRUE, !.cancelled = b, !.pc = p] \in Request
           /\ [o EXCEPT !.tunnel = t, !.pc = p] \in Request
           /\ [o EXCEPT !.cancelled = b, !.watch = "off", !.left = FALSE, !.stale = FALSE, !.attached = FALSE, !.pc = p] \in Request
           /\ [o EXCEPT !.watch = w, !.active = TRUE, !.left = FALSE, !.pc = p] \in Request
           /\ [o EXCEPT !.due = TRUE, !.pc = p] \in Request
           /\ [o EXCEPT !.watch = "off", !.left = FALSE, !.stale = FALSE, !.pc = p] \in Request
           /\ [o EXCEPT !.tunnel = "down", !.cancelled = TRUE] \in Request
           /\ [o EXCEPT !.left = TRUE, !.watch = w] \in Request
           /\ [o EXCEPT !.watch = "off", !.cancelled = TRUE] \in Request
           /\ [o EXCEPT !.active = b, !.due = c] \in Request
           /\ [o EXCEPT !.stale = b] \in Request
           /\ [o EXCEPT !.cancelled = b, !.due = c] \in Request
           /\ [o EXCEPT !.cancelled = b] \in Request
  <1>1. [o EXCEPT !.pc = p] \in Request
    BY DEF Request, PCs, Watches, Tunnels
  <1>2. ASSUME NEW g \in 0 .. MaxGen PROVE [o EXCEPT !.gen = g, !.pc = p] \in Request
    BY <1>2 DEF Request, PCs, Watches, Tunnels
  <1>3. ASSUME NEW g \in Requests PROVE [o EXCEPT !.gate = g, !.pc = p] \in Request
    BY <1>3 DEF Request, PCs, Watches, Tunnels
  <1>4. [o EXCEPT !.left = FALSE, !.pc = p] \in Request
    BY DEF Request, PCs, Watches, Tunnels
  <1>5. ASSUME NEW s \in SUBSET Requests PROVE [o EXCEPT !.previous = s, !.pc = p] \in Request
    BY <1>5 DEF Request, PCs, Watches, Tunnels
  <1>6. [o EXCEPT !.watch = w, !.attached = TRUE, !.cancelled = b, !.pc = p] \in Request
    BY DEF Request, PCs, Watches, Tunnels
  <1>7. [o EXCEPT !.tunnel = t, !.pc = p] \in Request
    BY DEF Request, PCs, Watches, Tunnels
  <1>8. [o EXCEPT !.cancelled = b, !.watch = "off", !.left = FALSE, !.stale = FALSE, !.attached = FALSE, !.pc = p] \in Request
    BY DEF Request, PCs, Watches, Tunnels
  <1>9. [o EXCEPT !.watch = w, !.active = TRUE, !.left = FALSE, !.pc = p] \in Request
    BY DEF Request, PCs, Watches, Tunnels
  <1>10. [o EXCEPT !.due = TRUE, !.pc = p] \in Request
    BY DEF Request, PCs, Watches, Tunnels
  <1>11. [o EXCEPT !.watch = "off", !.left = FALSE, !.stale = FALSE, !.pc = p] \in Request
    BY DEF Request, PCs, Watches, Tunnels
  <1>12. [o EXCEPT !.tunnel = "down", !.cancelled = TRUE] \in Request
    BY DEF Request, PCs, Watches, Tunnels
  <1>13. [o EXCEPT !.left = TRUE, !.watch = w] \in Request
    BY DEF Request, PCs, Watches, Tunnels
  <1>14. [o EXCEPT !.watch = "off", !.cancelled = TRUE] \in Request
    BY DEF Request, PCs, Watches, Tunnels
  <1>15. [o EXCEPT !.active = b, !.due = c] \in Request
    BY DEF Request, PCs, Watches, Tunnels
  <1>16. [o EXCEPT !.stale = b] \in Request
    BY DEF Request, PCs, Watches, Tunnels
  <1>17. [o EXCEPT !.cancelled = b, !.due = c] \in Request
    BY DEF Request, PCs, Watches, Tunnels
  <1>18. [o EXCEPT !.cancelled = b] \in Request
    BY DEF Request, PCs, Watches, Tunnels
  <1> QED BY <1>1, <1>2, <1>3, <1>4, <1>5, <1>6, <1>7, <1>8, <1>9, <1>10, <1>11, <1>12, <1>13, <1>14, <1>15, <1>16, <1>17, <1>18

LEMMA SetTypes ==
    ASSUME TypeOK, NEW r \in Requests, NEW o \in Request, Set(r, o)
    PROVE  req' \in [Requests -> Request]
  BY DEF TypeOK, Set

LEMMA OriginTypes ==
    ASSUME TypeOK, NEW r \in Requests
    PROVE  Origin(r) \in Origins
  BY DEF TypeOK, Request, Origin, Origins

\* A request that uses a gate is counted, and alone if one is counted.
LEMMA UsersCounted ==
    ASSUME TypeOK, GatesInv, NEW r \in Requests, Using(r)
    PROVE  /\ req[r].gate \in Requests /\ gate[req[r].gate].users \in Nat \ {0}
           /\ gate[req[r].gate].users = 1 => UsersOf(req[r].gate) = {r}
  <1> DEFINE g == req[r].gate
             us == UsersOf(g)
  <1>1. g \in Requests /\ gate[g].users = Cardinality(us) /\ r \in us /\ us \in SUBSET Requests
    BY DEF TypeOK, Request, GatesInv, UsersOf
  <1> HIDE DEF g, us
  <1>2. IsFiniteSet(us) /\ Cardinality(us) \in Nat
    BY <1>1, FS_Subset, FS_CardinalityType
  <1>3. Cardinality(us) # 0
    BY <1>1, <1>2, FS_EmptySet
  <1>4. ASSUME Cardinality(us) = 1 PROVE us = {r}
    <2>1. PICK x : us = {x}
      BY <1>2, <1>4, FS_Singleton
    <2> QED BY <1>1, <2>1
  <1> QED BY <1>1, <1>2, <1>3, <1>4 DEF g, us

\* What releasing a gate does.
LEMMA DropsGateEffect ==
    ASSUME TypeOK, GatesInv, NEW r \in Requests, Using(r), NEW held \in BOOLEAN, DropsGate(r, held)
    PROVE  /\ gate' \in [Requests -> [token : BOOLEAN, users : Nat]]
           /\ targetGates' \in [Origins -> Requests \cup {NoOne}]
           /\ \A g \in Requests \ {req[r].gate} : gate'[g] = gate[g]
           /\ gate'[req[r].gate].users = gate[req[r].gate].users - 1
           /\ ~ held => gate'[req[r].gate].token = gate[req[r].gate].token
           /\ \A o \in Origins : targetGates'[o] = IF o = Origin(r) /\ gate[req[r].gate].users = 1 THEN NoOne ELSE targetGates[o]
  <1> DEFINE g == req[r].gate
             n == gate[g].users - 1
             t == IF held THEN FALSE ELSE gate[g].token
  <1>1. g \in Requests /\ n \in Nat /\ gate \in [Requests -> [token : BOOLEAN, users : Nat]]
    BY UsersCounted DEF TypeOK
  <1>2. t \in BOOLEAN /\ (~ held => t = gate[g].token)
    BY <1>1
  <1>3. gate' = [gate EXCEPT ![g].users = n, ![g].token = t]
    BY <1>1 DEF DropsGate
  <1>4. Origin(r) \in Origins /\ targetGates \in [Origins -> Requests \cup {NoOne}]
    BY OriginTypes DEF TypeOK
  <1>5. /\ targetGates' \in [Origins -> Requests \cup {NoOne}]
        /\ \A o \in Origins : targetGates'[o] = IF o = Origin(r) /\ gate[g].users = 1 THEN NoOne ELSE targetGates[o]
    BY <1>4 DEF DropsGate
  <1> HIDE DEF g, n, t
  <1>6. gate' \in [Requests -> [token : BOOLEAN, users : Nat]]
    BY <1>1, <1>2, <1>3
  <1>7. \A h \in Requests \ {g} : gate'[h] = gate[h]
    BY <1>1, <1>3
  <1>8. gate'[g].users = n /\ gate'[g].token = t
    BY <1>1, <1>2, <1>3
  <1> QED BY <1>2, <1>5, <1>6, <1>7, <1>8 DEF g, n

-----------------------------------------------------------------------------
(* What a step does to its request *)

\* The other requests stay as they are.
Alone(r) == \A s \in Requests \ {r} : req'[s] = req[s]

LEMMA GotoEffect ==
    ASSUME TypeOK, NEW r \in Requests, NEW p, Goto(r, p)
    PROVE  /\ Alone(r)
           /\ req'[r].object = req[r].object /\ req'[r].gen = req[r].gen /\ req'[r].gate = req[r].gate /\ req'[r].left = req[r].left
           /\ req'[r].watch = req[r].watch /\ req'[r].cancelled = req[r].cancelled /\ req'[r].stale = req[r].stale /\ req'[r].attached = req[r].attached
           /\ req'[r].previous = req[r].previous /\ req'[r].active = req[r].active /\ req'[r].due = req[r].due /\ req'[r].tunnel = req[r].tunnel
           /\ req'[r].pc = p
  BY DEF TypeOK, Request, Set, Alone, Goto

LEMMA ArriveEffect ==
    ASSUME TypeOK, NEW r \in Requests, Arrive(r)
    PROVE  /\ req[r].pc = "idle" /\ UNCHANGED <<gen, hook, down, rootDone, targetGates, gate, starts, sessions>>
           /\ Alone(r)
           /\ req'[r].object = req[r].object /\ req'[r].gate = req[r].gate /\ req'[r].left = req[r].left /\ req'[r].watch = req[r].watch
           /\ req'[r].cancelled = req[r].cancelled /\ req'[r].stale = req[r].stale /\ req'[r].attached = req[r].attached /\ req'[r].previous = req[r].previous
           /\ req'[r].active = req[r].active /\ req'[r].due = req[r].due /\ req'[r].tunnel = req[r].tunnel
           /\ req'[r].pc = "gate"
           /\ req'[r].gen = gen
  BY DEF TypeOK, Request, Set, Alone, Arrive

LEMMA GateRegistersEffect ==
    ASSUME TypeOK, NEW r \in Requests, GateRegisters(r)
    PROVE  /\ req[r].pc = "gate" /\ UNCHANGED <<gen, hook, down, rootDone, starts, sessions>>
           /\ Alone(r)
           /\ req'[r].object = req[r].object /\ req'[r].gen = req[r].gen /\ req'[r].left = req[r].left /\ req'[r].watch = req[r].watch
           /\ req'[r].cancelled = req[r].cancelled /\ req'[r].stale = req[r].stale /\ req'[r].attached = req[r].attached /\ req'[r].previous = req[r].previous
           /\ req'[r].active = req[r].active /\ req'[r].due = req[r].due /\ req'[r].tunnel = req[r].tunnel
           /\ req'[r].pc = "wait"
           /\ req'[r].gate = IF targetGates[Origin(r)] = NoOne THEN r ELSE targetGates[Origin(r)]
  BY DEF TypeOK, Request, Set, Alone, GateRegisters

LEMMA GateLeavesEffect ==
    ASSUME TypeOK, NEW r \in Requests, GateLeaves(r)
    PROVE  /\ req[r].pc = "wait" /\ UNCHANGED <<gen, hook, down, rootDone, starts, sessions>>
           /\ Alone(r)
           /\ req'[r].object = req[r].object /\ req'[r].gen = req[r].gen /\ req'[r].gate = req[r].gate /\ req'[r].watch = req[r].watch
           /\ req'[r].cancelled = req[r].cancelled /\ req'[r].stale = req[r].stale /\ req'[r].attached = req[r].attached /\ req'[r].previous = req[r].previous
           /\ req'[r].active = req[r].active /\ req'[r].due = req[r].due /\ req'[r].tunnel = req[r].tunnel
           /\ req'[r].pc = "done"
  BY DEF TypeOK, Request, Set, Alone, GateLeaves

LEMMA JoinEffect ==
    ASSUME TypeOK, NEW r \in Requests, Join(r)
    PROVE  /\ req[r].pc = "join" /\ (\A s \in req[r].previous : req[s].tunnel = "down") /\ UNCHANGED <<gen, hook, down, rootDone, targetGates, gate, starts, sessions>>
           /\ Alone(r)
           /\ req'[r].object = req[r].object /\ req'[r].gen = req[r].gen /\ req'[r].gate = req[r].gate /\ req'[r].left = req[r].left
           /\ req'[r].watch = req[r].watch /\ req'[r].cancelled = req[r].cancelled /\ req'[r].stale = req[r].stale /\ req'[r].attached = req[r].attached
           /\ req'[r].active = req[r].active /\ req'[r].due = req[r].due /\ req'[r].tunnel = req[r].tunnel
           /\ req'[r].pc = "attach"
  BY DEF TypeOK, Request, Set, Alone, Join

LEMMA AttachEffect ==
    ASSUME TypeOK, NEW r \in Requests, Attach(r)
    PROVE  /\ req[r].pc = "attach" /\ UNCHANGED <<gen, hook, down, rootDone, targetGates, gate, starts, sessions>>
           /\ Alone(r)
           /\ req'[r].object = req[r].object /\ req'[r].gen = req[r].gen /\ req'[r].gate = req[r].gate /\ req'[r].left = req[r].left
           /\ req'[r].stale = req[r].stale /\ req'[r].previous = req[r].previous /\ req'[r].active = req[r].active /\ req'[r].due = req[r].due
           /\ req'[r].tunnel = req[r].tunnel
           /\ req'[r].pc = IF down.step # "up" \/ req[r].stale THEN "failed" ELSE "check"
           /\ req'[r].watch = "fired" => req[r].left
           /\ req'[r].pc = "check" /\ req'[r].cancelled => rootDone
  BY DEF TypeOK, Request, Set, Alone, Attach

LEMMA ListenEffect ==
    ASSUME TypeOK, NEW r \in Requests, NEW ok \in BOOLEAN, Listen(r, ok)
    PROVE  /\ req[r].pc = "listen" /\ UNCHANGED <<gen, hook, down, rootDone, targetGates, gate, starts, sessions>>
           /\ Alone(r)
           /\ req'[r].object = req[r].object /\ req'[r].gen = req[r].gen /\ req'[r].gate = req[r].gate /\ req'[r].left = req[r].left
           /\ req'[r].watch = req[r].watch /\ req'[r].cancelled = req[r].cancelled /\ req'[r].stale = req[r].stale /\ req'[r].attached = req[r].attached
           /\ req'[r].previous = req[r].previous /\ req'[r].active = req[r].active /\ req'[r].due = req[r].due
           /\ req'[r].tunnel = IF ok THEN "bound" ELSE req[r].tunnel
           /\ req'[r].pc = IF ok THEN "start" ELSE "failed"
  BY DEF TypeOK, Request, Set, Alone, Listen

LEMMA StartEffect ==
    ASSUME TypeOK, NEW r \in Requests, NEW ok \in BOOLEAN, Start(r, ok)
    PROVE  /\ req[r].pc = "start" /\ UNCHANGED <<gen, hook, down, rootDone, targetGates, gate, starts, sessions>>
           /\ Alone(r)
           /\ req'[r].object = req[r].object /\ req'[r].gen = req[r].gen /\ req'[r].gate = req[r].gate /\ req'[r].left = req[r].left
           /\ req'[r].watch = req[r].watch /\ req'[r].cancelled = req[r].cancelled /\ req'[r].stale = req[r].stale /\ req'[r].attached = req[r].attached
           /\ req'[r].previous = req[r].previous /\ req'[r].active = req[r].active /\ req'[r].due = req[r].due
           /\ req'[r].tunnel = IF ok THEN "live" ELSE "down"
           /\ req'[r].pc = IF ok THEN "recheck" ELSE "failed"
  BY DEF TypeOK, Request, Set, Alone, Start

LEMMA RecheckEffect ==
    ASSUME TypeOK, NEW r \in Requests, Recheck(r)
    PROVE  /\ req[r].pc = "recheck" /\ UNCHANGED <<gen, hook, down, rootDone, targetGates, gate, starts, sessions>>
           /\ Alone(r)
           /\ req'[r].object = req[r].object /\ req'[r].gen = req[r].gen /\ req'[r].gate = req[r].gate /\ req'[r].left = req[r].left
           /\ req'[r].watch = req[r].watch /\ req'[r].cancelled = req[r].cancelled /\ req'[r].stale = req[r].stale /\ req'[r].attached = req[r].attached
           /\ req'[r].previous = req[r].previous /\ req'[r].active = req[r].active /\ req'[r].due = req[r].due
           /\ req'[r].tunnel = IF Current(r) THEN req[r].tunnel ELSE "down"
           /\ req'[r].pc = IF Current(r) THEN "publish" ELSE "failed"
  BY DEF TypeOK, Request, Set, Alone, Recheck, Current

LEMMA FailedEffect ==
    ASSUME TypeOK, NEW r \in Requests, Failed(r)
    PROVE  /\ req[r].pc = "failed" /\ UNCHANGED <<gen, hook, down, rootDone, sessions>> /\ starts' = starts \ {r}
           /\ Alone(r)
           /\ req'[r].object = req[r].object /\ req'[r].gen = req[r].gen /\ req'[r].gate = req[r].gate /\ req'[r].previous = req[r].previous
           /\ req'[r].active = req[r].active /\ req'[r].due = req[r].due /\ req'[r].tunnel = req[r].tunnel
           /\ req'[r].pc = "done"
  BY DEF TypeOK, Request, Set, Alone, Failed

LEMMA PublishSucceedsEffect ==
    ASSUME TypeOK, NEW r \in Requests, PublishSucceeds(r)
    PROVE  /\ req[r].pc = "publish" /\ MayPublish(r) /\ UNCHANGED <<gen, hook, down, rootDone>> /\ starts' = starts \ {r} /\ sessions' = sessions \cup {r}
           /\ Alone(r)
           /\ req'[r].object = req[r].object /\ req'[r].gen = req[r].gen /\ req'[r].gate = req[r].gate /\ req'[r].cancelled = req[r].cancelled
           /\ req'[r].stale = req[r].stale /\ req'[r].attached = req[r].attached /\ req'[r].previous = req[r].previous /\ req'[r].due = req[r].due
           /\ req'[r].tunnel = req[r].tunnel
           /\ req'[r].watch = IF req[r].watch = "fired" THEN "fired" ELSE "off"
           /\ req'[r].pc = "done"
  BY DEF TypeOK, Request, Set, Alone, PublishSucceeds

LEMMA PublishFailsEffect ==
    ASSUME TypeOK, NEW r \in Requests, PublishFails(r)
    PROVE  /\ req[r].pc = "publish" /\ UNCHANGED <<gen, hook, down, rootDone, targetGates, gate, sessions>> /\ starts' = starts \ {r}
           /\ Alone(r)
           /\ req'[r].object = req[r].object /\ req'[r].gen = req[r].gen /\ req'[r].gate = req[r].gate /\ req'[r].left = req[r].left
           /\ req'[r].watch = req[r].watch /\ req'[r].cancelled = req[r].cancelled /\ req'[r].stale = req[r].stale /\ req'[r].attached = req[r].attached
           /\ req'[r].previous = req[r].previous /\ req'[r].active = req[r].active /\ req'[r].tunnel = req[r].tunnel
           /\ req'[r].pc = "stopping"
  BY DEF TypeOK, Request, Set, Alone, PublishFails

LEMMA RefusedEffect ==
    ASSUME TypeOK, NEW r \in Requests, Refused(r)
    PROVE  /\ req[r].pc = "stopping" /\ req[r].tunnel = "down" /\ UNCHANGED <<gen, hook, down, rootDone, starts, sessions>>
           /\ Alone(r)
           /\ req'[r].object = req[r].object /\ req'[r].gen = req[r].gen /\ req'[r].gate = req[r].gate /\ req'[r].cancelled = req[r].cancelled
           /\ req'[r].attached = req[r].attached /\ req'[r].previous = req[r].previous /\ req'[r].active = req[r].active /\ req'[r].due = req[r].due
           /\ req'[r].tunnel = req[r].tunnel
           /\ req'[r].pc = "done"
  BY DEF TypeOK, Request, Set, Alone, Refused

LEMMA StopEffect ==
    ASSUME TypeOK, NEW r \in Requests, Stop(r)
    PROVE  /\ req[r].due /\ req[r].tunnel = "live" /\ UNCHANGED <<gen, hook, down, rootDone, targetGates, gate, starts, sessions>>
           /\ Alone(r)
           /\ req'[r].pc = req[r].pc /\ req'[r].object = req[r].object /\ req'[r].gen = req[r].gen /\ req'[r].gate = req[r].gate
           /\ req'[r].left = req[r].left /\ req'[r].watch = req[r].watch /\ req'[r].stale = req[r].stale /\ req'[r].attached = req[r].attached
           /\ req'[r].previous = req[r].previous /\ req'[r].active = req[r].active /\ req'[r].due = req[r].due
           /\ req'[r].tunnel = "down"
  <1> DEFINE o == [req[r] EXCEPT !.tunnel = "down", !.cancelled = TRUE]
  <1>1. req[r] \in Request /\ req \in [Requests -> Request]
    BY DEF TypeOK
  <1>2. /\ o.pc = req[r].pc /\ o.object = req[r].object /\ o.gen = req[r].gen /\ o.gate = req[r].gate
        /\ o.left = req[r].left /\ o.watch = req[r].watch /\ o.stale = req[r].stale /\ o.attached = req[r].attached
        /\ o.previous = req[r].previous /\ o.active = req[r].active /\ o.due = req[r].due
        /\ o.tunnel = "down"
    BY <1>1 DEF Request
  <1>3. req' = [req EXCEPT ![r] = o]
    BY DEF Stop, Set
  <1> HIDE DEF o
  <1>4. req'[r] = o /\ Alone(r)
    BY <1>1, <1>3 DEF Alone
  <1>5. req[r].due /\ req[r].tunnel = "live" /\ UNCHANGED <<gen, hook, down, rootDone, targetGates, gate, starts, sessions>>
    BY DEF Stop
  <1> QED BY <1>2, <1>4, <1>5

LEMMA DisconnectEffect ==
    ASSUME TypeOK, NEW r \in Requests, Disconnect(r)
    PROVE  /\ req[r].pc # "idle" /\ (req[r].pc # "done" \/ req[r].watch = "armed") /\ UNCHANGED <<gen, hook, down, rootDone, targetGates, gate, starts, sessions>>
           /\ Alone(r)
           /\ req'[r].pc = req[r].pc /\ req'[r].object = req[r].object /\ req'[r].gen = req[r].gen /\ req'[r].gate = req[r].gate
           /\ req'[r].cancelled = req[r].cancelled /\ req'[r].stale = req[r].stale /\ req'[r].attached = req[r].attached /\ req'[r].previous = req[r].previous
           /\ req'[r].active = req[r].active /\ req'[r].due = req[r].due /\ req'[r].tunnel = req[r].tunnel
           /\ req'[r].watch = IF req[r].watch = "armed" THEN "fired" ELSE req[r].watch
           /\ req'[r].left
  BY DEF TypeOK, Request, Set, Alone, Disconnect

LEMMA WatchCancelsEffect ==
    ASSUME TypeOK, NEW r \in Requests, WatchCancels(r)
    PROVE  /\ req[r].watch = "fired" /\ UNCHANGED <<gen, hook, down, rootDone, targetGates, gate, starts, sessions>>
           /\ Alone(r)
           /\ req'[r].pc = req[r].pc /\ req'[r].object = req[r].object /\ req'[r].gen = req[r].gen /\ req'[r].gate = req[r].gate
           /\ req'[r].left = req[r].left /\ req'[r].stale = req[r].stale /\ req'[r].attached = req[r].attached /\ req'[r].previous = req[r].previous
           /\ req'[r].active = req[r].active /\ req'[r].due = req[r].due /\ req'[r].tunnel = req[r].tunnel
           /\ req'[r].watch = "off"
  BY DEF TypeOK, Request, Set, Alone, WatchCancels

\* The steps below change many requests, or any: all but these fields of each
\* stay as they are.
Steady(q) ==
    /\ req'[q].object = req[q].object /\ req'[q].gen = req[q].gen /\ req'[q].gate = req[q].gate
    /\ req'[q].left = req[q].left /\ req'[q].watch = req[q].watch /\ req'[q].attached = req[q].attached
    /\ req'[q].tunnel = req[q].tunnel

LEMMA EndedEffect ==
    ASSUME TypeOK, NEW es, NEW ds, NEW q \in Requests, NEW n, n = Ended(es, ds)[q]
    PROVE  /\ n.pc = req[q].pc /\ n.object = req[q].object /\ n.gen = req[q].gen /\ n.gate = req[q].gate
           /\ n.left = req[q].left /\ n.watch = req[q].watch /\ n.cancelled = req[q].cancelled
           /\ n.stale = req[q].stale /\ n.attached = req[q].attached /\ n.previous = req[q].previous
           /\ n.tunnel = req[q].tunnel
           /\ n.active => req[q].active /\ q \notin es
           /\ n.due => req[q].due \/ q \in ds
           /\ n \in Request
  <1> DEFINE o == req[q]
             b == o.active /\ q \notin es
             c == o.due \/ q \in ds
  <1>1. o \in Request
    BY DEF TypeOK
  <1>2. n = [o EXCEPT !.active = b, !.due = c]
    BY DEF Ended
  <1>3. b \in BOOLEAN /\ c \in BOOLEAN
    OBVIOUS
  <1>4. (b => o.active /\ q \notin es) /\ (c => o.due \/ q \in ds)
    OBVIOUS
  <1> HIDE DEF o, b, c
  <1>5. /\ n.pc = o.pc /\ n.object = o.object /\ n.gen = o.gen /\ n.gate = o.gate /\ n.left = o.left
        /\ n.watch = o.watch /\ n.cancelled = o.cancelled /\ n.stale = o.stale /\ n.attached = o.attached
        /\ n.previous = o.previous /\ n.tunnel = o.tunnel /\ n.active = b /\ n.due = c /\ n \in Request
    BY ONLY <1>1, <1>2, <1>3 DEF Request
  <1>6. (n.active => o.active /\ q \notin es) /\ (n.due => o.due \/ q \in ds)
    BY ONLY <1>4, <1>5, Zenon
  <1> QED BY <1>5, <1>6 DEF o

LEMMA FinishEffect ==
    ASSUME TypeOK, NEW r \in Requests, Finish(r)
    PROVE  /\ r \in sessions /\ UNCHANGED <<gen, hook, down, rootDone, targetGates, gate, starts, sessions>>
           /\ req' \in [Requests -> Request]
           /\ \A q \in Requests :
                /\ Steady(q) /\ req'[q].pc = req[q].pc /\ req'[q].previous = req[q].previous
                /\ req'[q].stale = req[q].stale /\ req'[q].cancelled = req[q].cancelled
                /\ req'[q].active => req[q].active /\ q # r
                /\ req'[q].due => req[q].due \/ q = r
  <1>1. req' = Ended({r}, {r}) /\ DOMAIN Ended({r}, {r}) = Requests /\ Ended({r}, {r}) = [q \in Requests |-> Ended({r}, {r})[q]]
    BY DEF Finish, Ended
  <1>2. \A q \in Requests : req'[q] = Ended({r}, {r})[q]
    BY <1>1
  <1>3. ASSUME NEW q \in Requests
        PROVE  /\ req'[q] \in Request /\ Steady(q) /\ req'[q].pc = req[q].pc /\ req'[q].previous = req[q].previous
               /\ req'[q].stale = req[q].stale /\ req'[q].cancelled = req[q].cancelled
               /\ req'[q].active => req[q].active /\ q # r
               /\ req'[q].due => req[q].due \/ q = r
    BY <1>2, EndedEffect DEF Steady
  <1>4. req' \in [Requests -> Request]
    BY <1>1, <1>3
  <1>5. r \in sessions /\ UNCHANGED <<gen, hook, down, rootDone, targetGates, gate, starts, sessions>>
    BY DEF Finish
  <1> QED BY <1>3, <1>4, <1>5

LEMMA CloseTargetEffect ==
    ASSUME TypeOK, NEW r \in Requests, CloseTarget(r)
    PROVE  /\ req[r].pc = "close" /\ UNCHANGED <<gen, hook, down, rootDone, targetGates, gate, starts, sessions>>
           /\ req' \in [Requests -> Request]
           /\ req'[r].pc = "join" /\ req'[r].previous = {s \in sessions : Origin(s) = Origin(r)}
           /\ \A q \in Requests :
                /\ Steady(q) /\ (q # r => req'[q].pc = req[q].pc /\ req'[q].previous = req[q].previous)
                /\ req'[q].stale = req[q].stale /\ req'[q].cancelled = req[q].cancelled
                /\ req'[q].active => req[q].active
                /\ req'[q].due => req[q].due \/ (q \in sessions /\ ~ req'[q].active)
  <1> DEFINE ps == {s \in sessions : Origin(s) = Origin(r)}
             e == Ended(ps, ps)
             n == [e[r] EXCEPT !.previous = ps, !.pc = "join"]
  <1>0. ps \subseteq Requests /\ ps \subseteq sessions
    BY DEF TypeOK
  <1>1. req' = [e EXCEPT ![r] = n] /\ e = [q \in Requests |-> e[q]] /\ req[r].pc = "close"
    BY DEF CloseTarget, Ended
  <1>2. ASSUME NEW q \in Requests
        PROVE  /\ e[q].pc = req[q].pc /\ e[q].object = req[q].object /\ e[q].gen = req[q].gen /\ e[q].gate = req[q].gate
               /\ e[q].left = req[q].left /\ e[q].watch = req[q].watch /\ e[q].cancelled = req[q].cancelled
               /\ e[q].stale = req[q].stale /\ e[q].attached = req[q].attached /\ e[q].previous = req[q].previous
               /\ e[q].tunnel = req[q].tunnel
               /\ e[q].active => req[q].active /\ q \notin ps
               /\ e[q].due => req[q].due \/ q \in ps
               /\ e[q] \in Request
    BY EndedEffect
  <1> HIDE DEF e, ps
  <1>3. e[r] \in Request
    BY <1>2
  <1>4. /\ n.pc = "join" /\ n.previous = ps /\ n.object = e[r].object /\ n.gen = e[r].gen /\ n.gate = e[r].gate
        /\ n.left = e[r].left /\ n.watch = e[r].watch /\ n.cancelled = e[r].cancelled /\ n.stale = e[r].stale
        /\ n.attached = e[r].attached /\ n.active = e[r].active /\ n.due = e[r].due /\ n.tunnel = e[r].tunnel
        /\ n \in Request
    BY <1>0, <1>3 DEF Request
  <1> HIDE DEF n
  <1>5. req'[r] = n /\ \A q \in Requests : q # r => req'[q] = e[q]
    BY <1>1
  <1>6. req' \in [Requests -> Request]
    BY <1>1, <1>2, <1>4
  <1>7. ASSUME NEW q \in Requests
        PROVE  /\ Steady(q) /\ (q # r => req'[q].pc = req[q].pc /\ req'[q].previous = req[q].previous)
               /\ req'[q].stale = req[q].stale /\ req'[q].cancelled = req[q].cancelled
               /\ req'[q].active => req[q].active
               /\ req'[q].due => req[q].due \/ (q \in sessions /\ ~ req'[q].active)
    <2>1. CASE q = r
      <3>1. e[r].due => req[r].due \/ (r \in sessions /\ ~ e[r].active)
        BY <1>0, <1>2
      <3> QED BY <1>2, <1>4, <1>5, <2>1, <3>1 DEF Steady
    <2>2. CASE q # r
      BY <1>0, <1>2, <1>5, <2>2 DEF Steady
    <2> QED BY <2>1, <2>2
  <1>8. UNCHANGED <<gen, hook, down, rootDone, targetGates, gate, starts, sessions>>
    BY DEF CloseTarget
  <1> QED BY <1>1, <1>4, <1>5, <1>6, <1>7, <1>8 DEF ps

LEMMA StaledEffect ==
    ASSUME TypeOK, NEW rs, req' = Staled(rs)
    PROVE  /\ req' \in [Requests -> Request]
           /\ \A q \in Requests :
                /\ Steady(q) /\ req'[q].pc = req[q].pc /\ req'[q].previous = req[q].previous
                /\ req'[q].cancelled = req[q].cancelled /\ req'[q].active = req[q].active /\ req'[q].due = req[q].due
                /\ req[q].stale \/ q \in rs => req'[q].stale
  <1>1. ASSUME NEW q \in Requests
        PROVE  /\ Steady(q) /\ req'[q].pc = req[q].pc /\ req'[q].previous = req[q].previous
               /\ req'[q].cancelled = req[q].cancelled /\ req'[q].active = req[q].active /\ req'[q].due = req[q].due
               /\ req[q].stale \/ q \in rs => req'[q].stale
               /\ req'[q] \in Request
    <2> DEFINE o == req[q]
               n == req'[q]
               b == o.stale \/ q \in rs
    <2>1. o \in Request /\ b \in BOOLEAN /\ n = [o EXCEPT !.stale = b] /\ (o.stale \/ q \in rs => b)
      BY DEF TypeOK, Staled
    <2> HIDE DEF o, n, b
    <2>2. /\ n.pc = o.pc /\ n.object = o.object /\ n.gen = o.gen /\ n.gate = o.gate /\ n.left = o.left
          /\ n.watch = o.watch /\ n.cancelled = o.cancelled /\ n.attached = o.attached /\ n.previous = o.previous
          /\ n.tunnel = o.tunnel /\ n.active = o.active /\ n.due = o.due /\ n.stale = b /\ n \in Request
      BY ONLY <2>1 DEF Request
    <2>3. o.stale \/ q \in rs => n.stale
      BY ONLY <2>1, <2>2, Zenon
    <2> QED BY <2>2, <2>3 DEF o, n, Steady
  <1>2. req' \in [Requests -> Request]
    BY <1>1 DEF Staled
  <1> QED BY <1>1, <1>2

LEMMA ReleasedEffect ==
    ASSUME TypeOK, NEW cs, NEW ss, req' = Released(cs, ss)
    PROVE  /\ req' \in [Requests -> Request]
           /\ \A q \in Requests :
                /\ Steady(q) /\ req'[q].pc = req[q].pc /\ req'[q].previous = req[q].previous
                /\ req'[q].stale = req[q].stale /\ req'[q].active = req[q].active
                /\ req'[q].cancelled => req[q].cancelled \/ q \in cs
                /\ req'[q].due => req[q].due \/ q \in ss
  <1>1. ASSUME NEW q \in Requests
        PROVE  /\ Steady(q) /\ req'[q].pc = req[q].pc /\ req'[q].previous = req[q].previous
               /\ req'[q].stale = req[q].stale /\ req'[q].active = req[q].active
               /\ req'[q].cancelled => req[q].cancelled \/ q \in cs
               /\ req'[q].due => req[q].due \/ q \in ss
               /\ req'[q] \in Request
    <2> DEFINE o == req[q]
               n == req'[q]
               b == o.cancelled \/ q \in cs
               c == o.due \/ q \in ss
    <2>1. /\ o \in Request /\ b \in BOOLEAN /\ c \in BOOLEAN /\ n = [o EXCEPT !.cancelled = b, !.due = c]
          /\ (b => o.cancelled \/ q \in cs) /\ (c => o.due \/ q \in ss)
      BY DEF TypeOK, Released
    <2> HIDE DEF o, n, b, c
    <2>2. /\ n.pc = o.pc /\ n.object = o.object /\ n.gen = o.gen /\ n.gate = o.gate /\ n.left = o.left
          /\ n.watch = o.watch /\ n.stale = o.stale /\ n.attached = o.attached /\ n.previous = o.previous
          /\ n.tunnel = o.tunnel /\ n.active = o.active /\ n.cancelled = b /\ n.due = c /\ n \in Request
      BY ONLY <2>1 DEF Request
    <2>3. (n.cancelled => o.cancelled \/ q \in cs) /\ (n.due => o.due \/ q \in ss)
      BY ONLY <2>1, <2>2, Zenon
    <2> QED BY <2>2, <2>3 DEF o, n, Steady
  <1>2. req' \in [Requests -> Request]
    BY <1>1 DEF Released
  <1> QED BY <1>1, <1>2

LEMMA RootDoneEffect ==
    ASSUME TypeOK, RootDone
    PROVE  /\ rootDone' /\ UNCHANGED <<gen, hook, down, targetGates, gate, starts, sessions>>
           /\ req' \in [Requests -> Request]
           /\ \A q \in Requests :
                /\ Steady(q) /\ req'[q].pc = req[q].pc /\ req'[q].previous = req[q].previous
                /\ req'[q].stale = req[q].stale /\ req'[q].active = req[q].active /\ req'[q].due = req[q].due
  <1>1. ASSUME NEW q \in Requests
        PROVE  /\ Steady(q) /\ req'[q].pc = req[q].pc /\ req'[q].previous = req[q].previous
               /\ req'[q].stale = req[q].stale /\ req'[q].active = req[q].active /\ req'[q].due = req[q].due
               /\ req'[q] \in Request
    <2> DEFINE o == req[q]
               n == req'[q]
               b == o.cancelled \/ o.attached
    <2>1. o \in Request /\ b \in BOOLEAN /\ n = [o EXCEPT !.cancelled = b]
      BY DEF TypeOK, RootDone
    <2> HIDE DEF o, n, b
    <2>2. /\ n.pc = o.pc /\ n.object = o.object /\ n.gen = o.gen /\ n.gate = o.gate /\ n.left = o.left
          /\ n.watch = o.watch /\ n.stale = o.stale /\ n.attached = o.attached /\ n.previous = o.previous
          /\ n.tunnel = o.tunnel /\ n.active = o.active /\ n.due = o.due /\ n \in Request
      BY ONLY <2>1 DEF Request
    <2> QED BY <2>2 DEF o, n, Steady
  <1>2. req' \in [Requests -> Request]
    BY <1>1 DEF RootDone
  <1>3. rootDone' /\ UNCHANGED <<gen, hook, down, targetGates, gate, starts, sessions>>
    BY DEF RootDone
  <1> QED BY <1>1, <1>2, <1>3

-----------------------------------------------------------------------------
(* Every action keeps the types *)

LEMMA GotoTypes ==
    ASSUME TypeOK, NEW r \in Requests, NEW p \in PCs, Goto(r, p)
    PROVE  req' \in [Requests -> Request]
  <1>1. [req[r] EXCEPT !.pc = p] \in Request
    BY Updates DEF TypeOK, Watches, Tunnels
  <1> QED BY <1>1, SetTypes DEF Goto

\* The steps of a request leave the rest of the state well typed, once the
\* record that they write is.
LEMMA RequestTypes ==
    ASSUME TypeOK, GatesInv, NEW r \in Requests, Arrive(r) \/ Step(r) \/ Finish(r) \/ Stop(r) \/ Prune(r) \/ Disconnect(r) \/ WatchCancels(r)
    PROVE  TypeOK'
  <1>0. req[r] \in Request /\ req[r].gen \in 0 .. MaxGen /\ gen \in 0 .. MaxGen /\ req[r].watch \in Watches /\ req[r].tunnel \in Tunnels
        /\ req[r].attached \in BOOLEAN /\ rootDone \in BOOLEAN /\ "done" \in PCs
    BY DEF TypeOK, Request, Watches, Tunnels, PCs
  <1>d. ASSUME NEW held \in BOOLEAN, Using(r), DropsGate(r, held)
        PROVE  gate' \in [Requests -> [token : BOOLEAN, users : Nat]] /\ targetGates' \in [Origins -> Requests \cup {NoOne}]
    BY <1>d, DropsGateEffect
  <1>1. CASE Arrive(r)
    <2>1. [req[r] EXCEPT !.gen = gen, !.pc = "gate"] \in Request
      BY <1>0, Updates DEF PCs
    <2>2. req' \in [Requests -> Request]
      BY <1>1, <2>1, SetTypes DEF Arrive
    <2> QED BY <1>1, <2>2 DEF Arrive, TypeOK
  <1>2. CASE GateRegisters(r)
    <2> DEFINE g == IF targetGates[Origin(r)] = NoOne THEN r ELSE targetGates[Origin(r)]
    <2>1. g \in Requests /\ Origin(r) \in Origins
      BY OriginTypes DEF TypeOK
    <2>2. /\ gate' = [gate EXCEPT ![g].users = @ + 1] /\ targetGates' = [targetGates EXCEPT ![Origin(r)] = g]
          /\ Set(r, [req[r] EXCEPT !.gate = g, !.pc = "wait"])
      BY <1>2 DEF GateRegisters
    <2> HIDE DEF g
    <2>3. [req[r] EXCEPT !.gate = g, !.pc = "wait"] \in Request
      BY <1>0, <2>1, Updates DEF PCs
    <2>4. req' \in [Requests -> Request]
      BY <2>2, <2>3, SetTypes
    <2>5. gate' \in [Requests -> [token : BOOLEAN, users : Nat]] /\ targetGates' \in [Origins -> Requests \cup {NoOne}]
      BY <2>1, <2>2 DEF TypeOK
    <2> QED BY <1>2, <2>4, <2>5 DEF GateRegisters, TypeOK
  <1>3. CASE GateAcquires(r)
    <2>1. gate' \in [Requests -> [token : BOOLEAN, users : Nat]]
      BY <1>3 DEF GateAcquires, TypeOK
    <2> QED BY <1>3, <2>1, GotoTypes DEF GateAcquires, TypeOK, PCs
  <1>4. CASE GateLeaves(r)
    <2>1. [req[r] EXCEPT !.left = FALSE, !.pc = "done"] \in Request
      BY <1>0, Updates DEF PCs
    <2>2. req' \in [Requests -> Request]
      BY <1>4, <2>1, SetTypes DEF GateLeaves
    <2> QED BY <1>4, <1>d, <2>2 DEF GateLeaves, TypeOK, Using
  <1>5. CASE \E ok \in BOOLEAN : Reviewed(r, ok)
    BY <1>5, GotoTypes DEF Reviewed, TypeOK, PCs
  <1>6. CASE Enter(r) \/ Check(r)
    BY <1>6, GotoTypes DEF Enter, Check, TypeOK, PCs
  <1>7. CASE Reserve(r)
    BY <1>7, GotoTypes DEF Reserve, TypeOK, PCs
  <1>8. CASE CloseTarget(r)
    BY <1>8, CloseTargetEffect DEF CloseTarget, TypeOK
  <1>9. CASE Join(r)
    <2>1. [req[r] EXCEPT !.previous = {}, !.pc = "attach"] \in Request
      BY <1>0, Updates DEF PCs
    <2>2. req' \in [Requests -> Request]
      BY <1>9, <2>1, SetTypes DEF Join
    <2> QED BY <1>9, <2>2 DEF Join, TypeOK
  <1>10. CASE Attach(r)
    <2> DEFINE w == IF req[r].left THEN "fired" ELSE "armed"
               b == (down.step # "up" \/ req[r].stale) \/ rootDone
               p == IF down.step # "up" \/ req[r].stale THEN "failed" ELSE "check"
    <2>1. w \in Watches /\ b \in BOOLEAN /\ p \in PCs
      BY DEF PCs, Watches
    <2>2. Set(r, [req[r] EXCEPT !.watch = w, !.attached = TRUE, !.cancelled = b, !.pc = p])
      BY <1>10 DEF Attach
    <2> HIDE DEF w, b, p
    <2>3. [req[r] EXCEPT !.watch = w, !.attached = TRUE, !.cancelled = b, !.pc = p] \in Request
      BY <1>0, <2>1, Updates
    <2>4. req' \in [Requests -> Request]
      BY <2>2, <2>3, SetTypes
    <2> QED BY <1>10, <2>4 DEF Attach, TypeOK
  <1>11. ASSUME NEW t \in Tunnels, NEW p \in PCs, Set(r, [req[r] EXCEPT !.tunnel = t, !.pc = p]),
                UNCHANGED <<gen, hook, down, rootDone, targetGates, gate, starts, sessions>>
         PROVE  TypeOK'
    <2>1. [req[r] EXCEPT !.tunnel = t, !.pc = p] \in Request
      BY <1>0, <1>11, Updates
    <2>2. req' \in [Requests -> Request]
      BY <1>11, <2>1, SetTypes
    <2> QED BY <1>11, <2>2 DEF TypeOK
  <1>12. ASSUME NEW ok \in BOOLEAN, Listen(r, ok) PROVE TypeOK'
    BY <1>0, <1>11, <1>12 DEF Listen, PCs, Tunnels
  <1>13. ASSUME NEW ok \in BOOLEAN, Start(r, ok) PROVE TypeOK'
    BY <1>0, <1>11, <1>13 DEF Start, PCs, Tunnels
  <1>14. CASE Recheck(r)
    BY <1>11, <1>14, GotoTypes DEF Recheck, Goto, PCs, Tunnels, TypeOK
  <1>15. CASE Failed(r)
    <2>1. [req[r] EXCEPT !.cancelled = req[r].attached, !.watch = "off", !.left = FALSE, !.stale = FALSE, !.attached = FALSE, !.pc = "done"] \in Request
      BY <1>0, Updates
    <2>2. req' \in [Requests -> Request]
      BY <1>15, <2>1, SetTypes DEF Failed
    <2> QED BY <1>15, <1>d, <2>2 DEF Failed, TypeOK, Using
  <1>16. CASE PublishSucceeds(r)
    <2> DEFINE w == IF req[r].watch = "fired" THEN req[r].watch ELSE "off"
    <2>1. w \in Watches
      BY DEF Watches
    <2>2. Set(r, [req[r] EXCEPT !.watch = w, !.active = TRUE, !.left = FALSE, !.pc = "done"])
      BY <1>16 DEF PublishSucceeds
    <2> HIDE DEF w
    <2>3. [req[r] EXCEPT !.watch = w, !.active = TRUE, !.left = FALSE, !.pc = "done"] \in Request
      BY <1>0, <2>1, Updates
    <2>4. req' \in [Requests -> Request]
      BY <2>2, <2>3, SetTypes
    <2> QED BY <1>16, <1>d, <2>4 DEF PublishSucceeds, TypeOK, Using
  <1>17. CASE PublishFails(r)
    <2>1. [req[r] EXCEPT !.due = TRUE, !.pc = "stopping"] \in Request
      BY <1>0, Updates DEF PCs
    <2>2. req' \in [Requests -> Request]
      BY <1>17, <2>1, SetTypes DEF PublishFails
    <2> QED BY <1>17, <2>2 DEF PublishFails, TypeOK
  <1>18. CASE Refused(r)
    <2>1. [req[r] EXCEPT !.watch = "off", !.left = FALSE, !.stale = FALSE, !.pc = "done"] \in Request
      BY <1>0, Updates
    <2>2. req' \in [Requests -> Request]
      BY <1>18, <2>1, SetTypes DEF Refused
    <2> QED BY <1>18, <1>d, <2>2 DEF Refused, TypeOK, Using
  <1>19. CASE Finish(r)
    BY <1>19, FinishEffect DEF Finish, TypeOK
  <1>20. CASE Stop(r)
    <2>1. [req[r] EXCEPT !.tunnel = "down", !.cancelled = TRUE] \in Request
      BY <1>0, Updates
    <2>2. req' \in [Requests -> Request]
      BY <1>20, <2>1, SetTypes DEF Stop
    <2> QED BY <1>20, <2>2 DEF Stop, TypeOK
  <1>21. CASE Prune(r)
    BY <1>21 DEF Prune, TypeOK
  <1>22. CASE Disconnect(r)
    <2> DEFINE w == IF req[r].watch = "armed" THEN "fired" ELSE req[r].watch
    <2>1. w \in Watches
      BY <1>0 DEF Watches
    <2>2. Set(r, [req[r] EXCEPT !.left = TRUE, !.watch = w])
      BY <1>22 DEF Disconnect
    <2> HIDE DEF w
    <2>3. [req[r] EXCEPT !.left = TRUE, !.watch = w] \in Request
      BY <1>0, <2>1, Updates
    <2>4. req' \in [Requests -> Request]
      BY <2>2, <2>3, SetTypes
    <2> QED BY <1>22, <2>4 DEF Disconnect, TypeOK
  <1>23. CASE WatchCancels(r)
    <2>1. [req[r] EXCEPT !.watch = "off", !.cancelled = TRUE] \in Request
      BY <1>0, Updates
    <2>2. req' \in [Requests -> Request]
      BY <1>23, <2>1, SetTypes DEF WatchCancels
    <2> QED BY <1>23, <2>2 DEF WatchCancels, TypeOK
  <1> QED
    BY <1>1, <1>2, <1>3, <1>4, <1>5, <1>6, <1>7, <1>8, <1>9, <1>10, <1>12, <1>13, <1>14, <1>15, <1>16, <1>17, <1>18,
       <1>19, <1>20, <1>21, <1>22, <1>23 DEF Step

LEMMA ServiceTypes ==
    ASSUME TypeOK, PublishGeneration \/ ShutdownCollects \/ RootDone \/ Hooks
    PROVE  TypeOK'
  <1>0. /\ starts \subseteq Requests /\ sessions \subseteq Requests /\ gen \in 0 .. MaxGen
        /\ \A rs \in SUBSET Requests : Cancels(rs) \subseteq Requests
    BY DEF TypeOK, Cancels
  <1>1. CASE PublishGeneration
    BY <1>1 DEF PublishGeneration, TypeOK
  <1>2. CASE OnGenerationCollects
    <2> DEFINE old == {r \in starts : ~ Current(r)}
               gone == {r \in sessions : ~ Current(r)}
    <2>1. old \subseteq Requests /\ gone \subseteq Requests /\ Cancels(old) \subseteq Requests
      BY <1>0
    <2>2. /\ req' = Staled(old) /\ sessions' = sessions \ gone
          /\ hook' = [hook EXCEPT !.step = "stop", !.cancels = Cancels(old), !.stops = gone]
      BY <1>2 DEF OnGenerationCollects
    <2> HIDE DEF old, gone
    <2>3. req' \in [Requests -> Request]
      BY <2>2, StaledEffect
    <2>4. hook' \in [step : {"idle", "collect", "stop", "join"}, cancels : SUBSET Requests, stops : SUBSET Requests, ended : 0 .. MaxGen]
      BY <2>1, <2>2 DEF TypeOK
    <2> QED BY <1>0, <1>2, <2>2, <2>3, <2>4 DEF OnGenerationCollects, TypeOK
  <1>3. CASE OnGenerationStops
    <2>1. req' \in [Requests -> Request]
      BY <1>3, ReleasedEffect DEF OnGenerationStops
    <2> QED BY <1>3, <2>1 DEF OnGenerationStops, TypeOK
  <1>4. CASE OnGenerationEnds
    BY <1>4 DEF OnGenerationEnds, TypeOK
  <1>5. CASE ShutdownCollects
    <2>1. req' \in [Requests -> Request]
      BY <1>5, StaledEffect DEF ShutdownCollects
    <2> QED BY <1>0, <1>5, <2>1 DEF ShutdownCollects, TypeOK
  <1>6. CASE ShutdownStops
    <2>1. req' \in [Requests -> Request]
      BY <1>6, ReleasedEffect DEF ShutdownStops
    <2> QED BY <1>6, <2>1 DEF ShutdownStops, TypeOK
  <1>7. CASE RootDone
    BY <1>7, RootDoneEffect DEF RootDone, TypeOK
  <1> QED BY <1>1, <1>2, <1>3, <1>4, <1>5, <1>6, <1>7 DEF Hooks

LEMMA TypesKept ==
    ASSUME TypeOK, GatesInv, [Next]_vars
    PROVE  TypeOK'
  <1>1. CASE UNCHANGED vars
    BY <1>1 DEF vars, TypeOK
  <1> QED BY <1>1, RequestTypes, ServiceTypes DEF Next

-----------------------------------------------------------------------------
(* The gates *)

\* Past the gate, with its token.
HoldPCs == PCs \ {"idle", "gate", "wait", "done"}

\* The step leaves the gates and who uses and holds them.
Quiet ==
    /\ UNCHANGED <<targetGates, gate>>
    /\ \A q \in Requests :
         /\ req'[q].object = req[q].object /\ req'[q].gen = req[q].gen /\ req'[q].gate = req[q].gate
         /\ req'[q].pc = req[q].pc \/ (req[q].pc \in HoldPCs /\ req'[q].pc \in HoldPCs)

LEMMA QuietAlone ==
    ASSUME NEW r \in Requests, Alone(r), UNCHANGED <<targetGates, gate>>,
           req'[r].object = req[r].object, req'[r].gen = req[r].gen, req'[r].gate = req[r].gate,
           req'[r].pc = req[r].pc \/ (req[r].pc \in HoldPCs /\ req'[r].pc \in HoldPCs)
    PROVE  Quiet
  BY DEF Quiet, Alone

LEMMA QuietSteps ==
    ASSUME TypeOK, NEW r \in Requests,
           \/ \E ok \in BOOLEAN : Reviewed(r, ok) \/ Listen(r, ok) \/ Start(r, ok)
           \/ Enter(r) \/ Reserve(r) \/ CloseTarget(r) \/ Join(r) \/ Attach(r) \/ Check(r)
           \/ Recheck(r) \/ PublishFails(r) \/ Finish(r) \/ Stop(r) \/ Prune(r) \/ Disconnect(r) \/ WatchCancels(r)
    PROVE  Quiet
  <1>1. CASE \E ok \in BOOLEAN : Reviewed(r, ok)
    BY <1>1, GotoEffect, QuietAlone DEF Reviewed, HoldPCs, PCs
  <1>2. CASE \E ok \in BOOLEAN : Listen(r, ok)
    BY <1>2, ListenEffect, QuietAlone DEF Listen, HoldPCs, PCs
  <1>3. CASE \E ok \in BOOLEAN : Start(r, ok)
    BY <1>3, StartEffect, QuietAlone DEF Start, HoldPCs, PCs
  <1>4. CASE Enter(r) \/ Check(r)
    BY <1>4, GotoEffect, QuietAlone DEF Enter, Check, HoldPCs, PCs
  <1>5. CASE Reserve(r)
    BY <1>5, GotoEffect, QuietAlone DEF Reserve, HoldPCs, PCs
  <1>6. CASE CloseTarget(r)
    BY <1>6, CloseTargetEffect DEF CloseTarget, Steady, Quiet, HoldPCs, PCs
  <1>7. CASE Join(r)
    BY <1>7, JoinEffect, QuietAlone DEF Join, HoldPCs, PCs
  <1>8. CASE Attach(r)
    BY <1>8, AttachEffect, QuietAlone DEF Attach, HoldPCs, PCs
  <1>9. CASE Recheck(r)
    BY <1>9, RecheckEffect, QuietAlone DEF Recheck, HoldPCs, PCs
  <1>10. CASE PublishFails(r)
    BY <1>10, PublishFailsEffect, QuietAlone DEF PublishFails, HoldPCs, PCs
  <1>11. CASE Finish(r)
    <2>1. \A q \in Requests : Steady(q) /\ req'[q].pc = req[q].pc
      BY <1>11, FinishEffect
    <2> QED BY <1>11, <2>1 DEF Finish, Steady, Quiet
  <1>12. CASE Stop(r)
    BY <1>12, StopEffect, QuietAlone DEF Stop
  <1>13. CASE Prune(r)
    BY <1>13 DEF Prune, Quiet
  <1>14. CASE Disconnect(r)
    BY <1>14, DisconnectEffect, QuietAlone DEF Disconnect
  <1>15. CASE WatchCancels(r)
    BY <1>15, WatchCancelsEffect, QuietAlone DEF WatchCancels
  <1> QED
    BY <1>1, <1>2, <1>3, <1>4, <1>5, <1>6, <1>7, <1>8, <1>9, <1>10, <1>11, <1>12, <1>13, <1>14, <1>15

LEMMA QuietServices ==
    ASSUME TypeOK, PublishGeneration \/ ShutdownCollects \/ RootDone \/ Hooks
    PROVE  Quiet
  <1>1. CASE PublishGeneration \/ OnGenerationEnds
    BY <1>1 DEF PublishGeneration, OnGenerationEnds, Quiet
  <1>2. CASE OnGenerationCollects
    BY <1>2, StaledEffect DEF OnGenerationCollects, Steady, Quiet
  <1>3. CASE ShutdownCollects
    BY <1>3, StaledEffect DEF ShutdownCollects, Steady, Quiet
  <1>4. CASE OnGenerationStops
    BY <1>4, ReleasedEffect DEF OnGenerationStops, Steady, Quiet
  <1>5. CASE ShutdownStops
    BY <1>5, ReleasedEffect DEF ShutdownStops, Steady, Quiet
  <1>6. CASE RootDone
    BY <1>6, RootDoneEffect DEF RootDone, Steady, Quiet
  <1> QED BY <1>1, <1>2, <1>3, <1>4, <1>5, <1>6 DEF Hooks

LEMMA QuietGates ==
    ASSUME TypeOK, GatesInv, Quiet
    PROVE  GatesInv'
  <1>1. ASSUME NEW q \in Requests
        PROVE  /\ Origin(q)' = Origin(q) /\ req'[q].gate = req[q].gate
               /\ Using(q)' <=> Using(q)
               /\ Holding(q)' <=> Holding(q)
               /\ req[q].pc \notin {"idle", "gate"} => req'[q].pc \notin {"idle", "gate"}
    BY DEF Quiet, Origin, Using, Holding, HoldPCs, PCs
  <1>2. \A g \in Requests : UsersOf(g)' = UsersOf(g)
    BY <1>1 DEF UsersOf
  <1>3. targetGates' = targetGates /\ gate' = gate /\ targetGates \in [Origins -> Requests \cup {NoOne}]
    BY DEF Quiet, TypeOK
  <1>4. \A o \in Origins, h \in Requests : targetGates'[o] = h => Origin(h)' = o /\ req'[h].pc \notin {"idle", "gate"}
    BY <1>1, <1>3 DEF GatesInv
  <1>5. \A q \in Requests : Using(q)' => req'[q].gate # NoOne /\ targetGates'[Origin(q)'] = req'[q].gate
    BY <1>1, <1>3 DEF GatesInv
  <1>6. \A g \in Requests : gate'[g].users = Cardinality(UsersOf(g)')
    BY <1>2, <1>3 DEF GatesInv
  <1>7. \A q \in Requests : Holding(q)' => gate'[req'[q].gate].token
    BY <1>1, <1>3 DEF GatesInv
  <1>8. \A q, s \in Requests : Holding(q)' /\ Holding(s)' /\ req'[q].gate = req'[s].gate => q = s
    BY <1>1 DEF GatesInv
  <1> QED BY <1>4, <1>5, <1>6, <1>7, <1>8 DEF GatesInv

\* The user r leaves its gate.
LEMMA DropKeepsGates ==
    ASSUME TypeOK, GatesInv, NEW r \in Requests, Using(r), NEW held \in BOOLEAN, DropsGate(r, held), held => Holding(r),
           Alone(r), req'[r].pc = "done", req'[r].object = req[r].object, req'[r].gen = req[r].gen
    PROVE  GatesInv'
  <1> DEFINE g == req[r].gate
  <1>1. g \in Requests /\ gate[g].users = Cardinality(UsersOf(g)) /\ (gate[g].users = 1 => UsersOf(g) = {r}) /\ targetGates[Origin(r)] = g
    BY UsersCounted DEF GatesInv
  <1>2. /\ \A h \in Requests \ {g} : gate'[h] = gate[h]
        /\ gate'[g].users = gate[g].users - 1
        /\ ~ held => gate'[g].token = gate[g].token
        /\ \A o \in Origins : targetGates'[o] = IF o = Origin(r) /\ gate[g].users = 1 THEN NoOne ELSE targetGates[o]
    BY DropsGateEffect
  <1>3. ASSUME NEW q \in Requests
        PROVE  /\ Origin(q)' = Origin(q) /\ Origin(q) \in Origins
               /\ req[q].pc \notin {"idle", "gate"} => req'[q].pc \notin {"idle", "gate"}
               /\ q # r => (Using(q)' <=> Using(q)) /\ (Holding(q)' <=> Holding(q)) /\ req'[q].gate = req[q].gate
    BY OriginTypes DEF Alone, Origin, Using, Holding
  <1>4. ~ Using(r)' /\ ~ Holding(r)'
    BY DEF Using, Holding
  <1>5. \A o \in Origins : targetGates[o] \in Requests \cup {NoOne}
    BY DEF TypeOK
  <1> HIDE DEF g
  <1>6. \A o \in Origins, h \in Requests : targetGates'[o] = h => Origin(h)' = o /\ req'[h].pc \notin {"idle", "gate"}
    BY <1>2, <1>3, <1>5 DEF GatesInv
  <1>7. ASSUME NEW q \in Requests, Using(q)'
        PROVE  req'[q].gate # NoOne /\ targetGates'[Origin(q)'] = req'[q].gate
    <2>1. q # r /\ Using(q) /\ req'[q].gate = req[q].gate /\ Origin(q)' = Origin(q) /\ Origin(q) \in Origins
      BY <1>3, <1>4, <1>7
    <2>2. req[q].gate # NoOne /\ targetGates[Origin(q)] = req[q].gate
      BY <2>1 DEF GatesInv
    <2>3. ~ (Origin(q) = Origin(r) /\ gate[g].users = 1)
      BY <1>1, <2>1, <2>2 DEF UsersOf
    <2> QED BY <1>2, <2>1, <2>2, <2>3
  <1>8. ASSUME NEW h \in Requests
        PROVE  gate'[h].users = Cardinality(UsersOf(h)')
    <2>1. CASE h = g
      <3> DEFINE us == UsersOf(h)
      <3>1. UsersOf(h)' = us \ {r}
        BY <1>3, <1>4 DEF UsersOf
      <3>2. r \in us /\ us \in SUBSET Requests
        BY <2>1 DEF UsersOf, g
      <3> HIDE DEF us
      <3>3. IsFiniteSet(us)
        BY <3>2, FS_Subset
      <3>4. Cardinality(us \ {r}) = Cardinality(us) - 1
        BY <3>2, <3>3, FS_RemoveElement
      <3>5. gate[h].users = Cardinality(us)
        BY DEF GatesInv, us
      <3> QED BY <1>2, <2>1, <3>1, <3>4, <3>5
    <2>2. CASE h # g
      <3>1. UsersOf(h)' = UsersOf(h)
        BY <1>3, <1>4, <2>2 DEF UsersOf, g
      <3> QED BY <1>2, <2>2, <3>1 DEF GatesInv
    <2> QED BY <2>1, <2>2
  <1>9. ASSUME NEW q \in Requests, Holding(q)'
        PROVE  gate'[req'[q].gate].token
    <2>1. q # r /\ Holding(q) /\ req'[q].gate = req[q].gate
      BY <1>3, <1>4, <1>9
    <2>2. gate[req[q].gate].token /\ req[q].gate \in Requests
      BY <2>1, UsersCounted DEF GatesInv, Holding
    <2>3. held => req[q].gate # g
      BY <2>1 DEF GatesInv, g
    <2> QED BY <1>2, <2>1, <2>2, <2>3
  <1>10. \A q, s \in Requests : Holding(q)' /\ Holding(s)' /\ req'[q].gate = req'[s].gate => q = s
    BY <1>3, <1>4 DEF GatesInv
  <1> QED BY <1>6, <1>7, <1>8, <1>9, <1>10 DEF GatesInv

LEMMA ArriveKeepsGates ==
    ASSUME TypeOK, GatesInv, NEW r \in Requests, Arrive(r)
    PROVE  GatesInv'
  <1>1. req[r].pc = "idle" /\ targetGates' = targetGates /\ gate' = gate /\ targetGates \in [Origins -> Requests \cup {NoOne}]
    BY DEF Arrive, TypeOK
  <1>2. ~ Using(r) /\ ~ Holding(r) /\ ~ Using(r)' /\ ~ Holding(r)'
    BY <1>1, ArriveEffect DEF Using, Holding
  <1>3. ASSUME NEW q \in Requests
        PROVE  /\ q # r => req'[q] = req[q] /\ Origin(q)' = Origin(q)
               /\ Using(q)' <=> Using(q)
               /\ Holding(q)' <=> Holding(q)
               /\ req'[q].gate = req[q].gate
    BY <1>2, ArriveEffect DEF Alone, Origin, Using, Holding
  <1>4. \A g \in Requests : UsersOf(g)' = UsersOf(g)
    BY <1>3 DEF UsersOf
  <1>5. \A o \in Origins, h \in Requests : targetGates'[o] = h => Origin(h)' = o /\ req'[h].pc \notin {"idle", "gate"}
    BY <1>1, <1>3 DEF GatesInv
  <1>6. \A q \in Requests : Using(q)' => req'[q].gate # NoOne /\ targetGates'[Origin(q)'] = req'[q].gate
    BY <1>1, <1>2, <1>3 DEF GatesInv
  <1>7. \A g \in Requests : gate'[g].users = Cardinality(UsersOf(g)')
    BY <1>1, <1>4 DEF GatesInv
  <1>8. \A q \in Requests : Holding(q)' => gate'[req'[q].gate].token
    BY <1>1, <1>3 DEF GatesInv
  <1>9. \A q, s \in Requests : Holding(q)' /\ Holding(s)' /\ req'[q].gate = req'[s].gate => q = s
    BY <1>3 DEF GatesInv
  <1> QED BY <1>5, <1>6, <1>7, <1>8, <1>9 DEF GatesInv

LEMMA RegisterKeepsGates ==
    ASSUME TypeOK, GatesInv, NEW r \in Requests, GateRegisters(r)
    PROVE  GatesInv'
  <1> DEFINE g == IF targetGates[Origin(r)] = NoOne THEN r ELSE targetGates[Origin(r)]
  <1>1. /\ req[r].pc = "gate" /\ g \in Requests /\ Origin(r) \in Origins /\ (targetGates[Origin(r)] # NoOne => g = targetGates[Origin(r)])
        /\ targetGates[Origin(r)] = NoOne => g = r
    BY OriginTypes DEF GateRegisters, TypeOK
  <1>2. targetGates' = [targetGates EXCEPT ![Origin(r)] = g] /\ gate' = [gate EXCEPT ![g].users = @ + 1]
    BY DEF GateRegisters
  <1>3. Alone(r) /\ req'[r].object = req[r].object /\ req'[r].gen = req[r].gen /\ req'[r].pc = "wait" /\ req'[r].gate = g
    BY GateRegistersEffect
  <1>4. ASSUME NEW q \in Requests
        PROVE  /\ Origin(q)' = Origin(q) /\ Origin(q) \in Origins
               /\ req[q].pc \notin {"idle", "gate"} => req'[q].pc \notin {"idle", "gate"}
               /\ q # r => (Using(q)' <=> Using(q)) /\ (Holding(q)' <=> Holding(q)) /\ req'[q].gate = req[q].gate
    BY <1>3, OriginTypes DEF Alone, Origin, Using, Holding
  <1>5. ~ Using(r) /\ ~ Holding(r) /\ Using(r)' /\ ~ Holding(r)'
    BY <1>1, <1>3 DEF Using, Holding
  <1> HIDE DEF g
  <1>6. /\ \A o \in Origins : targetGates'[o] = IF o = Origin(r) THEN g ELSE targetGates[o]
        /\ \A o \in Origins : targetGates[o] \in Requests \cup {NoOne}
    BY <1>1, <1>2 DEF TypeOK
  <1>7. /\ \A h \in Requests \ {g} : gate'[h] = gate[h]
        /\ gate'[g].users = gate[g].users + 1 /\ gate'[g].token = gate[g].token
    BY <1>1, <1>2 DEF TypeOK
  <1>8. ASSUME NEW o \in Origins, NEW h \in Requests, targetGates'[o] = h
        PROVE  Origin(h)' = o /\ req'[h].pc \notin {"idle", "gate"}
    <2>1. CASE targetGates[o] # NoOne
      <3>1. targetGates[o] = h
        BY <1>1, <1>6, <1>8, <2>1
      <3> QED BY <1>4, <3>1 DEF GatesInv
    <2>2. CASE targetGates[o] = NoOne
      <3>1. o = Origin(r) /\ h = r
        BY <1>1, <1>6, <1>8, <2>2
      <3> QED BY <1>3, <1>4, <3>1
    <2> QED BY <2>1, <2>2
  <1>9. ASSUME NEW q \in Requests, Using(q)'
        PROVE  req'[q].gate # NoOne /\ targetGates'[Origin(q)'] = req'[q].gate
    <2>1. CASE q = r
      BY <1>1, <1>3, <1>4, <1>6, <2>1
    <2>2. CASE q # r
      <3>1. req[q].gate # NoOne /\ targetGates[Origin(q)] = req[q].gate
        BY <1>4, <1>9, <2>2 DEF GatesInv
      <3> QED BY <1>1, <1>4, <1>6, <2>2, <3>1
    <2> QED BY <2>1, <2>2
  <1>10. ASSUME NEW h \in Requests
        PROVE  gate'[h].users = Cardinality(UsersOf(h)')
    <2>1. CASE h = g
      <3> DEFINE us == UsersOf(h)
      <3>1. UsersOf(h)' = us \cup {r}
        BY <1>3, <1>4, <1>5, <2>1 DEF UsersOf
      <3>2. r \notin us /\ us \in SUBSET Requests
        BY <1>5 DEF UsersOf
      <3>3. gate[h].users = Cardinality(us)
        BY DEF GatesInv
      <3> HIDE DEF us
      <3>4. IsFiniteSet(us)
        BY <3>2, FS_Subset
      <3>5. Cardinality(us \cup {r}) = Cardinality(us) + 1
        BY <3>2, <3>4, FS_AddElement
      <3> QED BY <1>7, <2>1, <3>1, <3>3, <3>5
    <2>2. CASE h # g
      <3>1. UsersOf(h)' = UsersOf(h)
        BY <1>3, <1>4, <1>5, <2>2 DEF UsersOf
      <3> QED BY <1>7, <2>2, <3>1 DEF GatesInv
    <2> QED BY <2>1, <2>2
  <1>11. ASSUME NEW q \in Requests, Holding(q)'
        PROVE  gate'[req'[q].gate].token
    <2>1. q # r /\ Holding(q) /\ req'[q].gate = req[q].gate
      BY <1>4, <1>5, <1>11
    <2>2. gate[req[q].gate].token /\ req[q].gate \in Requests
      BY <2>1, UsersCounted DEF GatesInv, Holding
    <2> QED BY <1>7, <2>1, <2>2
  <1>12. \A q, s \in Requests : Holding(q)' /\ Holding(s)' /\ req'[q].gate = req'[s].gate => q = s
    BY <1>4, <1>5 DEF GatesInv
  <1> QED BY <1>8, <1>9, <1>10, <1>11, <1>12 DEF GatesInv

LEMMA AcquireKeepsGates ==
    ASSUME TypeOK, GatesInv, NEW r \in Requests, GateAcquires(r)
    PROVE  GatesInv'
  <1> DEFINE g == req[r].gate
  <1>1. req[r].pc = "wait" /\ ~ gate[g].token /\ gate' = [gate EXCEPT ![g].token = TRUE] /\ targetGates' = targetGates
    BY DEF GateAcquires
  <1>2. Alone(r) /\ req'[r].object = req[r].object /\ req'[r].gen = req[r].gen /\ req'[r].pc = "review" /\ req'[r].gate = g
    BY GotoEffect DEF GateAcquires
  <1>3. ASSUME NEW q \in Requests
        PROVE  /\ Origin(q)' = Origin(q) /\ req'[q].gate = req[q].gate
               /\ req[q].pc \notin {"idle", "gate"} => req'[q].pc \notin {"idle", "gate"}
               /\ Using(q)' <=> Using(q)
               /\ q # r => (Holding(q)' <=> Holding(q))
    BY <1>1, <1>2 DEF Alone, Origin, Using, Holding
  <1>4. Using(r) /\ g \in Requests
    BY <1>1, UsersCounted DEF Using
  <1> HIDE DEF g
  <1>5. /\ \A h \in Requests : gate'[h].users = gate[h].users /\ (gate[h].token => gate'[h].token)
        /\ gate'[g].token
    BY <1>1, <1>4 DEF TypeOK
  <1>6. \A o \in Origins, h \in Requests : targetGates'[o] = h => Origin(h)' = o /\ req'[h].pc \notin {"idle", "gate"}
    <2>1. \A o \in Origins : targetGates[o] \in Requests \cup {NoOne}
      BY DEF TypeOK
    <2> QED BY <1>1, <1>3, <2>1 DEF GatesInv
  <1>7. \A q \in Requests : Using(q)' => req'[q].gate # NoOne /\ targetGates'[Origin(q)'] = req'[q].gate
    BY <1>1, <1>3 DEF GatesInv
  <1>8. \A h \in Requests : UsersOf(h)' = UsersOf(h)
    BY <1>3 DEF UsersOf
  <1>9. \A h \in Requests : gate'[h].users = Cardinality(UsersOf(h)')
    BY <1>5, <1>8 DEF GatesInv
  <1>10. ASSUME NEW q \in Requests, Holding(q)'
        PROVE  gate'[req'[q].gate].token
    <2>1. CASE q = r
      BY <1>2, <1>5, <2>1
    <2>2. CASE q # r
      <3>1. gate[req[q].gate].token /\ req[q].gate \in Requests
        BY <1>3, <1>10, <2>2, UsersCounted DEF GatesInv, Holding
      <3> QED BY <1>3, <1>5, <3>1
    <2> QED BY <2>1, <2>2
  <1>11. \A q, s \in Requests : Holding(q)' /\ Holding(s)' /\ req'[q].gate = req'[s].gate => q = s
    <2>1. \A q \in Requests : Holding(q) => req[q].gate # g
      BY <1>1 DEF GatesInv
    <2> QED BY <1>3, <2>1 DEF GatesInv, g
  <1> QED BY <1>6, <1>7, <1>9, <1>10, <1>11 DEF GatesInv

LEMMA GatesKept ==
    ASSUME TypeOK, GatesInv, [Next]_vars
    PROVE  GatesInv'
  <1>1. CASE UNCHANGED vars
    <2>1. Quiet
      BY <1>1 DEF vars, Quiet
    <2> QED BY <2>1, QuietGates
  <1>2. ASSUME NEW r \in Requests, Arrive(r) \/ Step(r) \/ Finish(r) \/ Stop(r) \/ Prune(r) \/ Disconnect(r) \/ WatchCancels(r)
        PROVE  GatesInv'
    <2>1. CASE Arrive(r)
      BY <2>1, ArriveKeepsGates
    <2>2. CASE GateRegisters(r)
      BY <2>2, RegisterKeepsGates
    <2>3. CASE GateAcquires(r)
      BY <2>3, AcquireKeepsGates
    <2>4. CASE GateLeaves(r)
      BY <2>4, GateLeavesEffect, DropKeepsGates DEF GateLeaves, Using
    <2>5. CASE Failed(r)
      BY <2>5, FailedEffect, DropKeepsGates DEF Failed, Using, Holding
    <2>6. CASE PublishSucceeds(r)
      BY <2>6, PublishSucceedsEffect, DropKeepsGates DEF PublishSucceeds, Using, Holding
    <2>7. CASE Refused(r)
      BY <2>7, RefusedEffect, DropKeepsGates DEF Refused, Using, Holding
    <2> QED BY <1>2, <2>1, <2>2, <2>3, <2>4, <2>5, <2>6, <2>7, QuietSteps, QuietGates DEF Step
  <1> QED BY <1>1, <1>2, QuietServices, QuietGates DEF Next

-----------------------------------------------------------------------------
(* Where requests are, and what the hook has collected *)

\* One request at a time is past the gate of an origin.
LEMMA HoldersDiffer ==
    ASSUME GatesInv, NEW r \in Requests, NEW s \in Requests, Holding(r), Holding(s), Origin(r) = Origin(s)
    PROVE  r = s
  BY DEF GatesInv, Holding

LEMMA Generations ==
    ASSUME TypeOK
    PROVE  gen \in Nat /\ hook.ended \in Nat /\ \A q \in Requests : req[q].gen \in Nat
  BY DEF TypeOK, Request

LEMMA PlacesKept ==
    ASSUME TypeOK, PlacesInv, HookInv, [Next]_vars
    PROVE  PlacesInv'
  <1>1. ASSUME NEW r \in Requests, Arrive(r) \/ Step(r) \/ Finish(r) \/ Stop(r) \/ Prune(r) \/ Disconnect(r) \/ WatchCancels(r)
        PROVE  PlacesInv'
    <2>1. CASE Arrive(r)
      BY <2>1, ArriveEffect, Generations DEF Alone, PlacesInv, Reserved
    <2>2. CASE GateRegisters(r)
      BY <2>2, GateRegistersEffect DEF Alone, PlacesInv, Reserved
    <2>3. CASE GateAcquires(r)
      BY <2>3, GotoEffect DEF GateAcquires, Alone, PlacesInv, Reserved
    <2>4. CASE GateLeaves(r)
      BY <2>4, GateLeavesEffect DEF Alone, PlacesInv, Reserved
    <2>5. ASSUME NEW ok \in BOOLEAN, Reviewed(r, ok) PROVE PlacesInv'
      BY <2>5, GotoEffect DEF Reviewed, Alone, PlacesInv, Reserved
    <2>6. CASE Enter(r)
      BY <2>6, GotoEffect DEF Enter, Alone, PlacesInv, Reserved
    <2>7. CASE Reserve(r)
      BY <2>7, GotoEffect DEF Reserve, Alone, PlacesInv, Reserved
    <2>8. CASE CloseTarget(r)
      BY <2>8, CloseTargetEffect DEF Steady, PlacesInv, Reserved
    <2>9. CASE Join(r)
      BY <2>9, JoinEffect DEF Alone, PlacesInv, Reserved
    <2>10. CASE Attach(r)
      BY <2>10, AttachEffect DEF Alone, PlacesInv, Reserved
    <2>11. CASE Check(r)
      BY <2>11, GotoEffect DEF Check, Alone, PlacesInv, Reserved
    <2>12. ASSUME NEW ok \in BOOLEAN, Listen(r, ok) PROVE PlacesInv'
      BY <2>12, ListenEffect DEF Alone, PlacesInv, Reserved
    <2>13. ASSUME NEW ok \in BOOLEAN, Start(r, ok) PROVE PlacesInv'
      BY <2>13, StartEffect DEF Alone, PlacesInv, Reserved
    <2>14. CASE Recheck(r)
      BY <2>14, RecheckEffect DEF Alone, PlacesInv, Reserved
    <2>15. CASE Failed(r)
      BY <2>15, FailedEffect DEF Alone, PlacesInv, Reserved
    <2>16. CASE PublishSucceeds(r)
      BY <2>16, PublishSucceedsEffect DEF Alone, PlacesInv, Reserved
    <2>17. CASE PublishFails(r)
      BY <2>17, PublishFailsEffect DEF Alone, PlacesInv, Reserved
    <2>18. CASE Refused(r)
      BY <2>18, RefusedEffect DEF Alone, PlacesInv, Reserved
    <2>19. CASE Finish(r)
      BY <2>19, FinishEffect DEF Steady, PlacesInv, Reserved
    <2>20. CASE Stop(r)
      BY <2>20, StopEffect DEF Alone, PlacesInv, Reserved
    <2>21. CASE Prune(r)
      BY <2>21 DEF Prune, PlacesInv, Reserved
    <2>22. CASE Disconnect(r)
      BY <2>22, DisconnectEffect DEF Alone, PlacesInv, Reserved
    <2>23. CASE WatchCancels(r)
      BY <2>23, WatchCancelsEffect DEF Alone, PlacesInv, Reserved
    <2> QED BY <1>1, <2>1, <2>2, <2>3, <2>4, <2>5, <2>6, <2>7, <2>8, <2>9, <2>10, <2>11, <2>12, <2>13, <2>14, <2>15, <2>16, <2>17, <2>18, <2>19, <2>20, <2>21, <2>22, <2>23 DEF Step
  <1>2. CASE PublishGeneration
    BY <1>2, Generations DEF PublishGeneration, PlacesInv, Reserved
  <1>3. CASE OnGenerationCollects
    BY <1>3, StaledEffect DEF OnGenerationCollects, Steady, PlacesInv, Reserved
  <1>4. CASE OnGenerationStops
    BY <1>4, ReleasedEffect DEF OnGenerationStops, Steady, PlacesInv, Reserved, HookInv
  <1>5. CASE OnGenerationEnds
    BY <1>5 DEF OnGenerationEnds, PlacesInv, Reserved
  <1>6. CASE ShutdownCollects
    BY <1>6, StaledEffect DEF ShutdownCollects, Steady, PlacesInv, Reserved
  <1>7. CASE ShutdownStops
    BY <1>7, ReleasedEffect DEF ShutdownStops, Steady, PlacesInv, Reserved, HookInv
  <1>8. CASE RootDone
    BY <1>8, RootDoneEffect DEF Steady, PlacesInv, Reserved
  <1>9. CASE UNCHANGED vars
    BY <1>9 DEF vars, PlacesInv, Reserved
  <1> QED BY <1>1, <1>2, <1>3, <1>4, <1>5, <1>6, <1>7, <1>8, <1>9 DEF Next, Hooks

\* What the steps of the service do to what the hook and Shutdown keep.
LEMMA PublishGenerationEffect ==
    ASSUME TypeOK, PublishGeneration
    PROVE  /\ hook.step = "idle" /\ gen' = gen + 1
           /\ hook'.step = "collect" /\ hook'.cancels = hook.cancels /\ hook'.stops = hook.stops /\ hook'.ended = hook.ended
           /\ UNCHANGED <<down, rootDone, starts, sessions, req>>
  BY DEF PublishGeneration, TypeOK

LEMMA OnGenerationCollectsEffect ==
    ASSUME TypeOK, OnGenerationCollects
    PROVE  /\ hook.step = "collect" /\ hook'.step = "stop" /\ hook'.ended = hook.ended
           /\ hook'.stops = {r \in sessions : ~ Current(r)} /\ sessions' = sessions \ {r \in sessions : ~ Current(r)}
           /\ hook'.cancels \subseteq {r \in starts : ~ Current(r)}
           /\ UNCHANGED <<gen, down, rootDone, starts>>
           /\ \A q \in Requests :
                /\ Steady(q) /\ req'[q].pc = req[q].pc /\ req'[q].previous = req[q].previous
                /\ req'[q].cancelled = req[q].cancelled /\ req'[q].active = req[q].active /\ req'[q].due = req[q].due
                /\ req[q].stale \/ (q \in starts /\ ~ Current(q)) => req'[q].stale
  <1> DEFINE old == {r \in starts : ~ Current(r)}
             gone == {r \in sessions : ~ Current(r)}
  <1>1. /\ req' = Staled(old) /\ sessions' = sessions \ gone /\ hook.step = "collect"
        /\ hook' = [hook EXCEPT !.step = "stop", !.cancels = Cancels(old), !.stops = gone]
        /\ UNCHANGED <<gen, down, rootDone, starts>>
    BY DEF OnGenerationCollects
  <1>2. Cancels(old) \subseteq old /\ \A q : q \in old <=> q \in starts /\ ~ Current(q)
    BY DEF Cancels
  <1> HIDE DEF old, gone
  <1>3. hook'.step = "stop" /\ hook'.ended = hook.ended /\ hook'.stops = gone /\ hook'.cancels = Cancels(old)
    BY <1>1 DEF TypeOK
  <1>4. \A q \in Requests :
          /\ Steady(q) /\ req'[q].pc = req[q].pc /\ req'[q].previous = req[q].previous
          /\ req'[q].cancelled = req[q].cancelled /\ req'[q].active = req[q].active /\ req'[q].due = req[q].due
          /\ req[q].stale \/ q \in old => req'[q].stale
    BY <1>1, StaledEffect
  <1> QED BY <1>1, <1>2, <1>3, <1>4 DEF old, gone

LEMMA OnGenerationStopsEffect ==
    ASSUME TypeOK, OnGenerationStops
    PROVE  /\ hook.step = "stop" /\ hook'.step = "join" /\ hook'.ended = hook.ended /\ hook'.stops = hook.stops /\ hook'.cancels = {}
           /\ UNCHANGED <<gen, down, rootDone, starts, sessions>>
           /\ \A q \in Requests :
                /\ Steady(q) /\ req'[q].pc = req[q].pc /\ req'[q].previous = req[q].previous
                /\ req'[q].stale = req[q].stale /\ req'[q].active = req[q].active
                /\ req'[q].cancelled => req[q].cancelled \/ q \in hook.cancels
                /\ req'[q].due => req[q].due \/ q \in hook.stops
  <1>1. /\ req' = Released(hook.cancels, hook.stops) /\ hook.step = "stop" /\ hook' = [hook EXCEPT !.step = "join", !.cancels = {}]
        /\ UNCHANGED <<gen, down, rootDone, starts, sessions>>
    BY DEF OnGenerationStops
  <1>2. hook'.step = "join" /\ hook'.ended = hook.ended /\ hook'.stops = hook.stops /\ hook'.cancels = {}
    BY <1>1 DEF TypeOK
  <1> QED BY <1>1, <1>2, ReleasedEffect

LEMMA OnGenerationEndsEffect ==
    ASSUME TypeOK, OnGenerationEnds
    PROVE  /\ hook.step = "join" /\ (\A r \in hook.stops : req[r].tunnel = "down")
           /\ hook'.step = "idle" /\ hook'.ended = gen /\ hook'.stops = {} /\ hook'.cancels = {}
           /\ UNCHANGED <<gen, down, rootDone, starts, sessions, req>>
  BY DEF OnGenerationEnds

LEMMA ShutdownCollectsEffect ==
    ASSUME TypeOK, ShutdownCollects
    PROVE  /\ down.step = "up" /\ down'.step = "stop" /\ down'.stops = sessions /\ sessions' = {} /\ down'.cancels \subseteq starts
           /\ UNCHANGED <<gen, hook, rootDone, starts>>
           /\ \A q \in Requests :
                /\ Steady(q) /\ req'[q].pc = req[q].pc /\ req'[q].previous = req[q].previous
                /\ req'[q].cancelled = req[q].cancelled /\ req'[q].active = req[q].active /\ req'[q].due = req[q].due
                /\ req[q].stale \/ q \in starts => req'[q].stale
  <1>1. /\ req' = Staled(starts) /\ down.step = "up" /\ sessions' = {}
        /\ down' = [step |-> "stop", cancels |-> Cancels(starts), stops |-> sessions] /\ UNCHANGED <<gen, hook, rootDone, starts>>
    BY DEF ShutdownCollects
  <1>2. Cancels(starts) \subseteq starts
    BY DEF Cancels
  <1> QED BY <1>1, <1>2, StaledEffect

LEMMA ShutdownStopsEffect ==
    ASSUME TypeOK, ShutdownStops
    PROVE  /\ down.step = "stop" /\ down'.step = "down" /\ down'.stops = {} /\ down'.cancels = {}
           /\ UNCHANGED <<gen, hook, rootDone, starts, sessions>>
           /\ \A q \in Requests :
                /\ Steady(q) /\ req'[q].pc = req[q].pc /\ req'[q].previous = req[q].previous
                /\ req'[q].stale = req[q].stale /\ req'[q].active = req[q].active
                /\ req'[q].cancelled => req[q].cancelled \/ q \in down.cancels
                /\ req'[q].due => req[q].due \/ q \in down.stops
  <1>1. /\ req' = Released(down.cancels, down.stops) /\ down.step = "stop" /\ down' = [step |-> "down", cancels |-> {}, stops |-> {}]
        /\ UNCHANGED <<gen, hook, rootDone, starts, sessions>>
    BY DEF ShutdownStops
  <1> QED BY <1>1, ReleasedEffect

LEMMA HookKept ==
    ASSUME TypeOK, PlacesInv, HookInv, [Next]_vars
    PROVE  HookInv'
  <1>1. ASSUME NEW r \in Requests, Arrive(r) \/ Step(r) \/ Finish(r) \/ Stop(r) \/ Prune(r) \/ Disconnect(r) \/ WatchCancels(r)
        PROVE  HookInv'
    <2>1. CASE Arrive(r)
      BY <2>1, ArriveEffect, Generations DEF Alone, HookInv, PlacesInv
    <2>2. CASE GateRegisters(r)
      BY <2>2, GateRegistersEffect, Generations DEF Alone, HookInv
    <2>3. CASE GateAcquires(r)
      BY <2>3, GotoEffect, Generations DEF GateAcquires, Alone, HookInv
    <2>4. CASE GateLeaves(r)
      BY <2>4, GateLeavesEffect, Generations DEF Alone, HookInv
    <2>5. ASSUME NEW ok \in BOOLEAN, Reviewed(r, ok) PROVE HookInv'
      BY <2>5, GotoEffect, Generations DEF Reviewed, Alone, HookInv
    <2>6. CASE Enter(r)
      BY <2>6, GotoEffect, Generations DEF Enter, Alone, HookInv
    <2>7. CASE Reserve(r)
      BY <2>7, GotoEffect, Generations DEF Reserve, Alone, HookInv
    <2>8. CASE CloseTarget(r)
      BY <2>8, CloseTargetEffect, Generations DEF Steady, HookInv
    <2>9. CASE Join(r)
      BY <2>9, JoinEffect, Generations DEF Alone, HookInv
    <2>10. CASE Attach(r)
      BY <2>10, AttachEffect, Generations DEF Alone, HookInv
    <2>11. CASE Check(r)
      BY <2>11, GotoEffect, Generations DEF Check, Alone, HookInv
    <2>12. ASSUME NEW ok \in BOOLEAN, Listen(r, ok) PROVE HookInv'
      BY <2>12, ListenEffect, Generations DEF Alone, HookInv
    <2>13. ASSUME NEW ok \in BOOLEAN, Start(r, ok) PROVE HookInv'
      BY <2>13, StartEffect, Generations DEF Alone, HookInv
    <2>14. CASE Recheck(r)
      BY <2>14, RecheckEffect, Generations DEF Alone, HookInv
    <2>15. CASE Failed(r)
      BY <2>15, FailedEffect, Generations DEF Alone, HookInv
    <2>16. CASE PublishSucceeds(r)
      BY <2>16, PublishSucceedsEffect, Generations DEF Alone, HookInv, MayPublish, Current
    <2>17. CASE PublishFails(r)
      BY <2>17, PublishFailsEffect, Generations DEF Alone, HookInv
    <2>18. CASE Refused(r)
      BY <2>18, RefusedEffect, Generations DEF Alone, HookInv
    <2>19. CASE Finish(r)
      BY <2>19, FinishEffect, Generations DEF Steady, HookInv
    <2>20. CASE Stop(r)
      BY <2>20, StopEffect, Generations DEF Alone, HookInv
    <2>21. CASE Prune(r)
      BY <2>21, Generations DEF Prune, HookInv
    <2>22. CASE Disconnect(r)
      BY <2>22, DisconnectEffect, Generations DEF Alone, HookInv
    <2>23. CASE WatchCancels(r)
      BY <2>23, WatchCancelsEffect, Generations DEF Alone, HookInv
    <2> QED BY <1>1, <2>1, <2>2, <2>3, <2>4, <2>5, <2>6, <2>7, <2>8, <2>9, <2>10, <2>11, <2>12, <2>13, <2>14, <2>15, <2>16, <2>17, <2>18, <2>19, <2>20, <2>21, <2>22, <2>23 DEF Step
  <1>2. CASE PublishGeneration
    BY <1>2, PublishGenerationEffect, Generations DEF Steady, HookInv
  <1>3. CASE OnGenerationCollects
    <2>1. \A q \in Requests : (q \in sessions' <=> q \in sessions /\ req[q].gen = gen) /\ (q \in hook'.stops <=> q \in sessions /\ req[q].gen # gen)
      BY <1>3, OnGenerationCollectsEffect DEF Current
    <2>2. /\ hook'.step = "stop" /\ hook'.ended = hook.ended /\ UNCHANGED <<gen, down>> /\ hook.step = "collect"
          /\ \A q \in Requests : req'[q].gen = req[q].gen /\ req'[q].pc = req[q].pc
      BY <1>3, OnGenerationCollectsEffect DEF Steady
    <2> QED BY <2>1, <2>2, Generations DEF HookInv, PlacesInv
  <1>4. CASE OnGenerationStops
    BY <1>4, OnGenerationStopsEffect, Generations DEF Steady, HookInv
  <1>5. CASE OnGenerationEnds
    BY <1>5, OnGenerationEndsEffect, Generations DEF Steady, HookInv
  <1>6. CASE ShutdownCollects
    BY <1>6, ShutdownCollectsEffect, Generations DEF Steady, HookInv, PlacesInv, TypeOK
  <1>7. CASE ShutdownStops
    BY <1>7, ShutdownStopsEffect, Generations DEF Steady, HookInv
  <1>8. CASE RootDone
    BY <1>8, RootDoneEffect, Generations DEF Steady, HookInv
  <1>9. CASE UNCHANGED vars
    BY <1>9 DEF vars, HookInv
  <1> QED BY <1>1, <1>2, <1>3, <1>4, <1>5, <1>6, <1>7, <1>8, <1>9 DEF Next, Hooks

-----------------------------------------------------------------------------
(* Open tunnels, and who follows them *)

LEMMA OpenKept ==
    ASSUME TypeOK, PlacesInv, HookInv, OpenInv, [Next]_vars
    PROVE  OpenInv'
  <1>1. ASSUME NEW r \in Requests, Arrive(r) \/ Step(r) \/ Finish(r) \/ Stop(r) \/ Prune(r) \/ Disconnect(r) \/ WatchCancels(r)
        PROVE  OpenInv'
    <2>1. CASE Arrive(r)
      BY <2>1, ArriveEffect DEF Alone, OpenInv, Open
    <2>2. CASE GateRegisters(r)
      BY <2>2, GateRegistersEffect DEF Alone, OpenInv, Open
    <2>3. CASE GateAcquires(r)
      BY <2>3, GotoEffect DEF GateAcquires, Alone, OpenInv, Open
    <2>4. CASE GateLeaves(r)
      BY <2>4, GateLeavesEffect DEF Alone, OpenInv, Open
    <2>5. ASSUME NEW ok \in BOOLEAN, Reviewed(r, ok) PROVE OpenInv'
      BY <2>5, GotoEffect DEF Reviewed, Alone, OpenInv, Open
    <2>6. CASE Enter(r)
      BY <2>6, GotoEffect DEF Enter, Alone, OpenInv, Open
    <2>7. CASE Reserve(r)
      BY <2>7, GotoEffect DEF Reserve, Alone, OpenInv, Open
    <2>8. CASE CloseTarget(r)
      BY <2>8, CloseTargetEffect DEF Steady, OpenInv, Open
    <2>9. CASE Join(r)
      BY <2>9, JoinEffect DEF Alone, OpenInv, Open
    <2>10. CASE Attach(r)
      BY <2>10, AttachEffect DEF Alone, OpenInv, Open
    <2>11. CASE Check(r)
      BY <2>11, GotoEffect DEF Check, Alone, OpenInv, Open
    <2>12. ASSUME NEW ok \in BOOLEAN, Listen(r, ok) PROVE OpenInv'
      BY <2>12, ListenEffect DEF Alone, OpenInv, Open
    <2>13. ASSUME NEW ok \in BOOLEAN, Start(r, ok) PROVE OpenInv'
      BY <2>13, StartEffect DEF Alone, OpenInv, Open
    <2>14. CASE Recheck(r)
      BY <2>14, RecheckEffect DEF Alone, OpenInv, Open
    <2>15. CASE Failed(r)
      BY <2>15, FailedEffect DEF Alone, OpenInv, Open
    <2>16. CASE PublishSucceeds(r)
      BY <2>16, PublishSucceedsEffect DEF Alone, OpenInv, Open
    <2>17. CASE PublishFails(r)
      BY <2>17, PublishFailsEffect DEF Alone, OpenInv, Open
    <2>18. CASE Refused(r)
      BY <2>18, RefusedEffect DEF Alone, OpenInv, Open
    <2>19. CASE Finish(r)
      BY <2>19, FinishEffect DEF Steady, OpenInv, Open
    <2>20. CASE Stop(r)
      BY <2>20, StopEffect DEF Alone, OpenInv, Open
    <2>21. CASE Prune(r)
      BY <2>21 DEF Prune, OpenInv, Open
    <2>22. CASE Disconnect(r)
      BY <2>22, DisconnectEffect DEF Alone, OpenInv, Open
    <2>23. CASE WatchCancels(r)
      BY <2>23, WatchCancelsEffect DEF Alone, OpenInv, Open
    <2> QED BY <1>1, <2>1, <2>2, <2>3, <2>4, <2>5, <2>6, <2>7, <2>8, <2>9, <2>10, <2>11, <2>12, <2>13, <2>14, <2>15, <2>16, <2>17, <2>18, <2>19, <2>20, <2>21, <2>22, <2>23 DEF Step
  <1>2. CASE PublishGeneration
    BY <1>2, PublishGenerationEffect DEF Steady, OpenInv, Open
  <1>3. CASE OnGenerationCollects
    <2>1. \A q \in Requests : q \in sessions <=> q \in sessions' \/ q \in hook'.stops
      BY <1>3, OnGenerationCollectsEffect
    <2>2. hook.stops = {} /\ UNCHANGED down /\ \A q \in Requests : req'[q].tunnel = req[q].tunnel /\ req'[q].pc = req[q].pc
      BY <1>3, OnGenerationCollectsEffect DEF Steady, HookInv
    <2> QED BY <2>1, <2>2 DEF OpenInv, Open
  <1>4. CASE OnGenerationStops
    BY <1>4, OnGenerationStopsEffect DEF Steady, OpenInv, Open
  <1>5. CASE OnGenerationEnds
    BY <1>5, OnGenerationEndsEffect DEF Steady, OpenInv, Open
  <1>6. CASE ShutdownCollects
    BY <1>6, ShutdownCollectsEffect DEF Steady, OpenInv, Open
  <1>7. CASE ShutdownStops
    BY <1>7, ShutdownStopsEffect DEF Steady, OpenInv, Open
  <1>8. CASE RootDone
    BY <1>8, RootDoneEffect DEF Steady, OpenInv, Open
  <1>9. CASE UNCHANGED vars
    BY <1>9 DEF vars, OpenInv, Open
  <1> QED BY <1>1, <1>2, <1>3, <1>4, <1>5, <1>6, <1>7, <1>8, <1>9 DEF Next, Hooks

LEMMA SuccessorKept ==
    ASSUME TypeOK, GatesInv, PlacesInv, HookInv, OpenInv, SuccessorInv, [Next]_vars
    PROVE  SuccessorInv'
  <1>1. ASSUME NEW r \in Requests, Arrive(r) \/ Step(r) \/ Finish(r) \/ Stop(r) \/ Prune(r) \/ Disconnect(r) \/ WatchCancels(r)
        PROVE  SuccessorInv'
    <2>1. CASE Arrive(r)
      BY <2>1, ArriveEffect, Generations DEF Alone, SuccessorInv, Lingers, Open, Origin
    <2>2. CASE GateRegisters(r)
      <3>1. /\ Alone(r) /\ req'[r].object = req[r].object /\ req'[r].gen = req[r].gen /\ req'[r].pc = "wait" /\ UNCHANGED <<gen, down>>
        BY <2>2, GateRegistersEffect
      <3> QED BY <3>1, Generations DEF Alone, SuccessorInv, Lingers, Open, Origin
    <2>3. CASE GateAcquires(r)
      BY <2>3, GotoEffect, Generations DEF GateAcquires, Alone, SuccessorInv, Lingers, Open, Origin
    <2>4. CASE GateLeaves(r)
      <3>1. ~ Open(r)
        BY <2>4, GateLeavesEffect DEF OpenInv
      <3> QED BY <2>4, <3>1, GateLeavesEffect, Generations DEF Alone, SuccessorInv, Lingers, Open, Origin
    <2>5. ASSUME NEW ok \in BOOLEAN, Reviewed(r, ok) PROVE SuccessorInv'
      BY <2>5, GotoEffect, Generations DEF Reviewed, Alone, SuccessorInv, Lingers, Open, Origin
    <2>6. CASE Enter(r)
      BY <2>6, GotoEffect, Generations DEF Enter, Alone, SuccessorInv, Lingers, Open, Origin
    <2>7. CASE Reserve(r)
      BY <2>7, GotoEffect, Generations DEF Reserve, Alone, SuccessorInv, Lingers, Open, Origin
    <2>8. CASE CloseTarget(r)
      <3>1. ASSUME NEW q \in Requests, Lingers(q), Origin(q) = Origin(r)
            PROVE  q \in req'[r].previous \/ req[r].gen < gen \/ down.step # "up"
        <4>1. q \in sessions \/ q \in hook.stops \/ down.step # "up"
          BY <3>1 DEF OpenInv, Lingers
        <4>2. q \in hook.stops => req[r].gen < gen
          BY <3>1 DEF HookInv, Origin
        <4>3. q \in sessions => q \in req'[r].previous
          BY <2>8, <3>1, CloseTargetEffect
        <4> QED BY <4>1, <4>2, <4>3
      <3>2. /\ req[r].pc = "close" /\ req'[r].pc = "join" /\ UNCHANGED <<gen, down>>
            /\ \A q \in Requests : /\ req'[q].object = req[q].object /\ req'[q].gen = req[q].gen /\ req'[q].tunnel = req[q].tunnel
                                   /\ q # r => req'[q].pc = req[q].pc /\ req'[q].previous = req[q].previous
        BY <2>8, CloseTargetEffect DEF Steady
      <3> QED BY <3>1, <3>2, Generations DEF SuccessorInv, Lingers, Open, Origin
    <2>9. CASE Join(r)
      BY <2>9, JoinEffect, Generations DEF Alone, SuccessorInv, Lingers, Open, Origin
    <2>10. CASE Attach(r)
      BY <2>10, AttachEffect, Generations DEF Alone, SuccessorInv, Lingers, Open, Origin
    <2>11. CASE Check(r)
      BY <2>11, GotoEffect, Generations DEF Check, Current, Alone, SuccessorInv, Lingers, Open, Origin
    <2>12. ASSUME NEW ok \in BOOLEAN, Listen(r, ok) PROVE SuccessorInv'
      BY <2>12, ListenEffect, Generations DEF Alone, SuccessorInv, Lingers, Open, Origin
    <2>13. ASSUME NEW ok \in BOOLEAN, Start(r, ok) PROVE SuccessorInv'
      BY <2>13, StartEffect, Generations DEF Alone, SuccessorInv, Lingers, Open, Origin
    <2>14. CASE Recheck(r)
      BY <2>14, RecheckEffect, Generations DEF Alone, SuccessorInv, Lingers, Open, Origin
    <2>15. CASE Failed(r)
      <3>1. ~ Open(r)
        BY <2>15, FailedEffect DEF OpenInv
      <3> QED BY <2>15, <3>1, FailedEffect, Generations DEF Alone, SuccessorInv, Lingers, Open, Origin
    <2>16. CASE PublishSucceeds(r)
      <3>1. /\ Alone(r) /\ req'[r].object = req[r].object /\ req'[r].gen = req[r].gen /\ req'[r].pc = "done" /\ req'[r].tunnel = req[r].tunnel
            /\ UNCHANGED <<gen, down>> /\ req[r].pc = "publish"
        BY <2>16, PublishSucceedsEffect
      <3>2. \A s \in Requests : Origin(s) = Origin(r) => s = r \/ (~ Holding(s) /\ ~ Lingers(s))
        BY <3>1, HoldersDiffer DEF Holding, Using, SuccessorInv
      <3>3. \A s \in Requests : ~ Holding(s) => req[s].pc \notin {"join", "attach", "check", "listen", "start", "recheck", "publish", "stopping"}
        BY DEF Holding, Using
      <3> QED BY <3>1, <3>2, <3>3, Generations DEF Alone, SuccessorInv, Lingers, Open, Origin
    <2>17. CASE PublishFails(r)
      BY <2>17, PublishFailsEffect, Generations DEF Alone, SuccessorInv, Lingers, Open, Origin
    <2>18. CASE Refused(r)
      BY <2>18, RefusedEffect, Generations DEF Alone, SuccessorInv, Lingers, Open, Origin
    <2>19. CASE Finish(r)
      BY <2>19, FinishEffect, Generations DEF Steady, SuccessorInv, Lingers, Open, Origin
    <2>20. CASE Stop(r)
      BY <2>20, StopEffect, Generations DEF Alone, SuccessorInv, Lingers, Open, Origin
    <2>21. CASE Prune(r)
      BY <2>21, Generations DEF Prune, SuccessorInv, Lingers, Open, Origin
    <2>22. CASE Disconnect(r)
      BY <2>22, DisconnectEffect, Generations DEF Alone, SuccessorInv, Lingers, Open, Origin
    <2>23. CASE WatchCancels(r)
      BY <2>23, WatchCancelsEffect, Generations DEF Alone, SuccessorInv, Lingers, Open, Origin
    <2> QED BY <1>1, <2>1, <2>2, <2>3, <2>4, <2>5, <2>6, <2>7, <2>8, <2>9, <2>10, <2>11, <2>12, <2>13, <2>14, <2>15, <2>16, <2>17, <2>18, <2>19, <2>20, <2>21, <2>22, <2>23 DEF Step
  <1>2. CASE PublishGeneration
    BY <1>2, PublishGenerationEffect, Generations DEF Steady, SuccessorInv, Lingers, Open, Origin
  <1>3. CASE OnGenerationCollects
    BY <1>3, OnGenerationCollectsEffect, Generations DEF Steady, SuccessorInv, Lingers, Open, Origin
  <1>4. CASE OnGenerationStops
    BY <1>4, OnGenerationStopsEffect, Generations DEF Steady, SuccessorInv, Lingers, Open, Origin
  <1>5. CASE OnGenerationEnds
    BY <1>5, OnGenerationEndsEffect, Generations DEF Steady, SuccessorInv, Lingers, Open, Origin
  <1>6. CASE ShutdownCollects
    BY <1>6, ShutdownCollectsEffect, Generations DEF Steady, SuccessorInv, Lingers, Open, Origin
  <1>7. CASE ShutdownStops
    BY <1>7, ShutdownStopsEffect, Generations DEF Steady, SuccessorInv, Lingers, Open, Origin
  <1>8. CASE RootDone
    BY <1>8, RootDoneEffect, Generations DEF Steady, SuccessorInv, Lingers, Open, Origin
  <1>9. CASE UNCHANGED vars
    BY <1>9 DEF vars, SuccessorInv, Lingers, Open, Origin
  <1> QED BY <1>1, <1>2, <1>3, <1>4, <1>5, <1>6, <1>7, <1>8, <1>9 DEF Next, Hooks

-----------------------------------------------------------------------------
(* Who may cancel what *)


LEMMA CancelKept ==
    ASSUME TypeOK, PlacesInv, HookInv, CancelInv, [Next]_vars
    PROVE  CancelInv'
  <1>1. ASSUME NEW r \in Requests, Arrive(r) \/ Step(r) \/ Finish(r) \/ Stop(r) \/ Prune(r) \/ Disconnect(r) \/ WatchCancels(r)
        PROVE  CancelInv'
    <2>1. CASE Arrive(r)
      BY <2>1, ArriveEffect DEF Alone, CancelInv, PlacesInv
    <2>2. CASE GateRegisters(r)
      BY <2>2, GateRegistersEffect DEF Alone, CancelInv, PlacesInv
    <2>3. CASE GateAcquires(r)
      BY <2>3, GotoEffect DEF GateAcquires, Alone, CancelInv, PlacesInv
    <2>4. CASE GateLeaves(r)
      BY <2>4, GateLeavesEffect DEF Alone, CancelInv, PlacesInv
    <2>5. ASSUME NEW ok \in BOOLEAN, Reviewed(r, ok) PROVE CancelInv'
      BY <2>5, GotoEffect DEF Reviewed, Alone, CancelInv, PlacesInv
    <2>6. CASE Enter(r)
      BY <2>6, GotoEffect DEF Enter, Alone, CancelInv, PlacesInv
    <2>7. CASE Reserve(r)
      BY <2>7, GotoEffect DEF Reserve, Alone, CancelInv, PlacesInv
    <2>8. CASE CloseTarget(r)
      BY <2>8, CloseTargetEffect DEF Steady, CancelInv, PlacesInv
    <2>9. CASE Join(r)
      BY <2>9, JoinEffect DEF Alone, CancelInv, PlacesInv
    <2>10. CASE Attach(r)
      BY <2>10, AttachEffect DEF Alone, CancelInv, PlacesInv
    <2>11. CASE Check(r)
      BY <2>11, GotoEffect DEF Check, Alone, CancelInv, PlacesInv
    <2>12. ASSUME NEW ok \in BOOLEAN, Listen(r, ok) PROVE CancelInv'
      BY <2>12, ListenEffect DEF Alone, CancelInv, PlacesInv
    <2>13. ASSUME NEW ok \in BOOLEAN, Start(r, ok) PROVE CancelInv'
      BY <2>13, StartEffect DEF Alone, CancelInv, PlacesInv
    <2>14. CASE Recheck(r)
      BY <2>14, RecheckEffect DEF Alone, CancelInv, PlacesInv
    <2>15. CASE Failed(r)
      BY <2>15, FailedEffect DEF Alone, CancelInv, PlacesInv
    <2>16. CASE PublishSucceeds(r)
      BY <2>16, PublishSucceedsEffect DEF Alone, CancelInv, MayPublish
    <2>17. CASE PublishFails(r)
      BY <2>17, PublishFailsEffect DEF Alone, CancelInv, PlacesInv
    <2>18. CASE Refused(r)
      BY <2>18, RefusedEffect DEF Alone, CancelInv, PlacesInv
    <2>19. CASE Finish(r)
      BY <2>19, FinishEffect DEF Steady, CancelInv, PlacesInv
    <2>20. CASE Stop(r)
      BY <2>20, StopEffect DEF Alone, CancelInv, PlacesInv
    <2>21. CASE Prune(r)
      BY <2>21 DEF Prune, CancelInv, PlacesInv
    <2>22. CASE Disconnect(r)
      BY <2>22, DisconnectEffect DEF Alone, CancelInv, PlacesInv
    <2>23. CASE WatchCancels(r)
      BY <2>23, WatchCancelsEffect DEF Alone, CancelInv, PlacesInv
    <2> QED BY <1>1, <2>1, <2>2, <2>3, <2>4, <2>5, <2>6, <2>7, <2>8, <2>9, <2>10, <2>11, <2>12, <2>13, <2>14, <2>15, <2>16, <2>17, <2>18, <2>19, <2>20, <2>21, <2>22, <2>23 DEF Step
  <1>2. CASE PublishGeneration
    BY <1>2, PublishGenerationEffect DEF Steady, CancelInv, PlacesInv
  <1>3. CASE OnGenerationCollects
    BY <1>3, OnGenerationCollectsEffect DEF Steady, CancelInv, PlacesInv
  <1>4. CASE OnGenerationStops
    BY <1>4, OnGenerationStopsEffect DEF Steady, CancelInv, PlacesInv
  <1>5. CASE OnGenerationEnds
    BY <1>5, OnGenerationEndsEffect DEF Steady, CancelInv, PlacesInv
  <1>6. CASE ShutdownCollects
    BY <1>6, ShutdownCollectsEffect DEF Steady, CancelInv, PlacesInv
  <1>7. CASE ShutdownStops
    BY <1>7, ShutdownStopsEffect DEF Steady, CancelInv, PlacesInv
  <1>8. CASE RootDone
    BY <1>8, RootDoneEffect DEF Steady, CancelInv, PlacesInv
  <1>9. CASE UNCHANGED vars
    BY <1>9 DEF vars, CancelInv, PlacesInv
  <1> QED BY <1>1, <1>2, <1>3, <1>4, <1>5, <1>6, <1>7, <1>8, <1>9 DEF Next, Hooks

-----------------------------------------------------------------------------
(* The slots *)

Taken == {Origin(q) : q \in starts \cup ActiveSessions}

Occupies(q) == q \in starts \/ (q \in sessions /\ req[q].active)

\* The step adds nobody to who occupies a slot.
FewerTaken == \A q \in Requests : Occupies(q)' => Occupies(q) /\ Origin(q)' = Origin(q)

\* The origins of the occupants are no more than the occupants.
LEMMA TakenCounted ==
    ASSUME TypeOK
    PROVE  /\ IsFiniteSet(Taken) /\ Cardinality(Taken) \in Nat
           /\ Cardinality(Taken) <= Cardinality(starts) + Cardinality(ActiveSessions)
           /\ Cardinality(starts) + Cardinality(ActiveSessions) \in Nat
  <1> DEFINE a == ActiveSessions
             S == starts \cup a
             f == [q \in S |-> Origin(q)]
  <1>1. starts \in SUBSET Requests /\ a \in SUBSET Requests
    BY DEF TypeOK, ActiveSessions
  <1>2. f \in Surjection(S, Taken)
    BY DEF Taken, Surjection
  <1> HIDE DEF a, f
  <1>3. /\ IsFiniteSet(starts) /\ Cardinality(starts) \in Nat
        /\ IsFiniteSet(a) /\ Cardinality(a) \in Nat
        /\ IsFiniteSet(starts \cap a) /\ Cardinality(starts \cap a) \in Nat
    <2>1. starts \cap a \in SUBSET Requests
      BY <1>1
    <2> QED BY <1>1, <2>1, FS_Subset, FS_CardinalityType
  <1>4. IsFiniteSet(S) /\ Cardinality(S) <= Cardinality(starts) + Cardinality(a) /\ Cardinality(S) \in Nat
    <2>1. IsFiniteSet(S) /\ Cardinality(S) = Cardinality(starts) + Cardinality(a) - Cardinality(starts \cap a)
      BY <1>3, FS_Union
    <2>2. Cardinality(S) \in Nat
      BY <2>1, FS_CardinalityType
    <2> QED BY <1>3, <2>1, <2>2
  <1> HIDE DEF S
  <1>5. IsFiniteSet(Taken) /\ Cardinality(Taken) <= Cardinality(S)
    BY <1>2, <1>4, FS_Surjection
  <1>6. Cardinality(Taken) \in Nat
    BY <1>5, FS_CardinalityType
  <1> QED BY <1>3, <1>4, <1>5, <1>6 DEF a

LEMMA FewerTakenKeepsSlots ==
    ASSUME TypeOK, TypeOK', SlotsKept, FewerTaken
    PROVE  SlotsKept'
  <1>1. Taken' \in SUBSET Taken
    <2> SUFFICES ASSUME NEW o \in Taken' PROVE o \in Taken
      OBVIOUS
    <2>1. PICK q \in starts' \cup ActiveSessions' : o = Origin(q)'
      BY DEF Taken
    <2>2. q \in Requests /\ Occupies(q)'
      BY <2>1 DEF TypeOK, ActiveSessions, Occupies
    <2>3. Occupies(q) /\ o = Origin(q)
      BY <2>1, <2>2 DEF FewerTaken
    <2> QED BY <2>2, <2>3 DEF Taken, Occupies, ActiveSessions
  <1>2. Cardinality(Taken') <= Cardinality(Taken)
    BY <1>1, TakenCounted, FS_Subset
  <1>3. Cardinality(Taken) \in Nat /\ Cardinality(Taken') \in Nat
    BY <1>1, TakenCounted, FS_Subset, FS_CardinalityType
  <1> QED BY <1>2, <1>3 DEF SlotsKept, Taken

\* A slot is free, or the origin has one.
LEMMA ReserveKeepsSlots ==
    ASSUME TypeOK, TypeOK', SlotsKept, NEW r \in Requests, Reserve(r)
    PROVE  SlotsKept'
  <1>1. \A q \in Requests : Origin(q)' = Origin(q) /\ req'[q].active = req[q].active
    BY GotoEffect DEF Reserve, Alone, Origin
  <1>2. sessions' = sessions
    BY DEF Reserve
  <1>3. CASE starts' = starts
    BY <1>1, <1>2, <1>3, FewerTakenKeepsSlots DEF FewerTaken, Occupies
  <1>4. CASE starts' = starts \cup {r} /\ Admits(r)
    <2>1. ActiveSessions' = ActiveSessions /\ ActiveSessions \subseteq Requests /\ starts \subseteq Requests
      BY <1>1, <1>2 DEF ActiveSessions, TypeOK
    <2>2. Taken' = Taken \cup {Origin(r)}
      BY <1>1, <1>4, <2>1 DEF Taken
    <2>3. CASE \E s \in ActiveSessions : Origin(s) = Origin(r)
      <3>1. Taken' = Taken
        BY <2>2, <2>3 DEF Taken
      <3> QED BY <3>1 DEF SlotsKept, Taken
    <2>4. CASE Cardinality(starts) + Cardinality(ActiveSessions) < MaximumPortForwardSessions
      <3> DEFINE n == Cardinality(starts) + Cardinality(ActiveSessions)
                 o == Origin(r)
                 T == Taken
      <3>1. IsFiniteSet(T) /\ Cardinality(T) \in Nat /\ Cardinality(T) <= n /\ n \in Nat /\ n < MaximumPortForwardSessions
        BY <2>4, TakenCounted
      <3> HIDE DEF n, o, T
      <3>2. Cardinality(T \cup {o}) \in {Cardinality(T), Cardinality(T) + 1}
        <4>1. CASE o \in T
          <5>1. T \cup {o} = T
            BY <4>1
          <5> QED BY <5>1
        <4>2. CASE o \notin T
          BY <3>1, <4>2, FS_AddElement
        <4> QED BY <4>1, <4>2
      <3>3. Cardinality(T \cup {o}) <= MaximumPortForwardSessions
        BY <3>1, <3>2
      <3> QED BY <2>2, <3>3 DEF SlotsKept, Taken, T, o
    <2> QED BY <1>4, <2>3, <2>4 DEF Admits
  <1> QED BY <1>3, <1>4 DEF Reserve

LEMMA OnlyReserveTakes ==
    ASSUME TypeOK, PlacesInv, [Next]_vars
    PROVE  FewerTaken \/ \E q \in Requests : Reserve(q)
  <1>1. ASSUME NEW r \in Requests, Arrive(r) \/ Step(r) \/ Finish(r) \/ Stop(r) \/ Prune(r) \/ Disconnect(r) \/ WatchCancels(r)
        PROVE  FewerTaken \/ \E q \in Requests : Reserve(q)
    <2>1. CASE Arrive(r)
      BY <2>1, ArriveEffect DEF Alone, PlacesInv, Reserved, FewerTaken, Occupies, Origin
    <2>2. CASE GateRegisters(r)
      <3>1. Alone(r) /\ req'[r].object = req[r].object /\ req'[r].gen = req[r].gen /\ req'[r].active = req[r].active /\ UNCHANGED <<starts, sessions>>
        BY <2>2, GateRegistersEffect
      <3> QED BY <3>1 DEF Alone, FewerTaken, Occupies, Origin
    <2>3. CASE GateAcquires(r)
      BY <2>3, GotoEffect DEF GateAcquires, Alone, FewerTaken, Occupies, Origin
    <2>4. CASE GateLeaves(r)
      BY <2>4, GateLeavesEffect DEF Alone, FewerTaken, Occupies, Origin
    <2>5. ASSUME NEW ok \in BOOLEAN, Reviewed(r, ok) PROVE FewerTaken \/ \E q \in Requests : Reserve(q)
      BY <2>5, GotoEffect DEF Reviewed, Alone, FewerTaken, Occupies, Origin
    <2>6. CASE Enter(r)
      BY <2>6, GotoEffect DEF Enter, Alone, FewerTaken, Occupies, Origin
    <2>7. CASE Reserve(r)
      BY <2>7
    <2>8. CASE CloseTarget(r)
      BY <2>8, CloseTargetEffect DEF Steady, FewerTaken, Occupies, Origin
    <2>9. CASE Join(r)
      BY <2>9, JoinEffect DEF Alone, FewerTaken, Occupies, Origin
    <2>10. CASE Attach(r)
      BY <2>10, AttachEffect DEF Alone, FewerTaken, Occupies, Origin
    <2>11. CASE Check(r)
      BY <2>11, GotoEffect DEF Check, Alone, FewerTaken, Occupies, Origin
    <2>12. ASSUME NEW ok \in BOOLEAN, Listen(r, ok) PROVE FewerTaken \/ \E q \in Requests : Reserve(q)
      BY <2>12, ListenEffect DEF Alone, FewerTaken, Occupies, Origin
    <2>13. ASSUME NEW ok \in BOOLEAN, Start(r, ok) PROVE FewerTaken \/ \E q \in Requests : Reserve(q)
      BY <2>13, StartEffect DEF Alone, FewerTaken, Occupies, Origin
    <2>14. CASE Recheck(r)
      BY <2>14, RecheckEffect DEF Alone, FewerTaken, Occupies, Origin
    <2>15. CASE Failed(r)
      BY <2>15, FailedEffect DEF Alone, FewerTaken, Occupies, Origin
    <2>16. CASE PublishSucceeds(r)
      BY <2>16, PublishSucceedsEffect DEF Alone, PlacesInv, Reserved, FewerTaken, Occupies, Origin
    <2>17. CASE PublishFails(r)
      BY <2>17, PublishFailsEffect DEF Alone, FewerTaken, Occupies, Origin
    <2>18. CASE Refused(r)
      BY <2>18, RefusedEffect DEF Alone, FewerTaken, Occupies, Origin
    <2>19. CASE Finish(r)
      BY <2>19, FinishEffect DEF Steady, FewerTaken, Occupies, Origin
    <2>20. CASE Stop(r)
      BY <2>20, StopEffect DEF Alone, FewerTaken, Occupies, Origin
    <2>21. CASE Prune(r)
      BY <2>21 DEF Prune, FewerTaken, Occupies, Origin
    <2>22. CASE Disconnect(r)
      BY <2>22, DisconnectEffect DEF Alone, FewerTaken, Occupies, Origin
    <2>23. CASE WatchCancels(r)
      BY <2>23, WatchCancelsEffect DEF Alone, FewerTaken, Occupies, Origin
    <2> QED BY <1>1, <2>1, <2>2, <2>3, <2>4, <2>5, <2>6, <2>7, <2>8, <2>9, <2>10, <2>11, <2>12, <2>13, <2>14, <2>15, <2>16, <2>17, <2>18, <2>19, <2>20, <2>21, <2>22, <2>23 DEF Step
  <1>2. CASE PublishGeneration
    BY <1>2, PublishGenerationEffect DEF Steady, FewerTaken, Occupies, Origin
  <1>3. CASE OnGenerationCollects
    BY <1>3, OnGenerationCollectsEffect DEF Steady, FewerTaken, Occupies, Origin
  <1>4. CASE OnGenerationStops
    BY <1>4, OnGenerationStopsEffect DEF Steady, FewerTaken, Occupies, Origin
  <1>5. CASE OnGenerationEnds
    BY <1>5, OnGenerationEndsEffect DEF Steady, FewerTaken, Occupies, Origin
  <1>6. CASE ShutdownCollects
    BY <1>6, ShutdownCollectsEffect DEF Steady, FewerTaken, Occupies, Origin
  <1>7. CASE ShutdownStops
    BY <1>7, ShutdownStopsEffect DEF Steady, FewerTaken, Occupies, Origin
  <1>8. CASE RootDone
    BY <1>8, RootDoneEffect DEF Steady, FewerTaken, Occupies, Origin
  <1>9. CASE UNCHANGED vars
    BY <1>9 DEF vars, FewerTaken, Occupies, Origin
  <1> QED BY <1>1, <1>2, <1>3, <1>4, <1>5, <1>6, <1>7, <1>8, <1>9 DEF Next, Hooks

LEMMA SlotsStayKept ==
    ASSUME TypeOK, TypeOK', PlacesInv, SlotsKept, [Next]_vars
    PROVE  SlotsKept'
  BY OnlyReserveTakes, FewerTakenKeepsSlots, ReserveKeepsSlots

-----------------------------------------------------------------------------
(* The theorems *)

LEMMA InitHolds ==
    ASSUME Init
    PROVE  TypeOK /\ ForwardInv
  <1>1. TypeOK
    <2>1. gate \in [Requests -> [token : BOOLEAN, users : Nat]] /\ targetGates \in [Origins -> Requests \cup {NoOne}]
      BY DEF Init
    <2>2. req \in [Requests -> Request]
      <3> DEFINE I == [pc : {"idle"}, object : Objects, gen : {0}, gate : {NoOne}, left : {FALSE},
                       watch : {"off"}, cancelled : {FALSE}, stale : {FALSE}, attached : {FALSE},
                       previous : {{}}, active : {FALSE}, due : {FALSE}, tunnel : {"none"}]
      <3>0. 0 \in 0 .. MaxGen
        OBVIOUS
      <3>1. ASSUME NEW o \in I PROVE o \in Request
        <4>1. PICK x \in Objects :
                o = [pc |-> "idle", object |-> x, gen |-> 0, gate |-> NoOne, left |-> FALSE,
                     watch |-> "off", cancelled |-> FALSE, stale |-> FALSE, attached |-> FALSE,
                     previous |-> {}, active |-> FALSE, due |-> FALSE, tunnel |-> "none"]
          BY Zenon
        <4> QED BY <3>0, <4>1 DEF Request
      <3>2. req \in [Requests -> I]
        BY DEF Init
      <3> HIDE DEF I
      <3> QED BY <3>1, <3>2
    <2>3. /\ hook \in [step : {"idle", "collect", "stop", "join"}, cancels : SUBSET Requests, stops : SUBSET Requests, ended : 0 .. MaxGen]
          /\ down \in [step : {"up", "stop", "down"}, cancels : SUBSET Requests, stops : SUBSET Requests]
      BY DEF Init
    <2>4. gen \in 0 .. MaxGen /\ rootDone \in BOOLEAN /\ starts \subseteq Requests /\ sessions \subseteq Requests
      <3>1. gen = 0 /\ rootDone = FALSE /\ starts = {} /\ sessions = {}
        BY DEF Init
      <3>2. 0 \in 0 .. MaxGen
        OBVIOUS
      <3> QED BY ONLY <3>1, <3>2, Zenon
    <2> QED BY <2>1, <2>2, <2>3, <2>4 DEF TypeOK
  <1>2. \A q \in Requests : /\ req[q].pc = "idle" /\ req[q].gen = 0 /\ req[q].watch = "off" /\ req[q].tunnel = "none"
                            /\ ~ req[q].due /\ ~ req[q].cancelled
    BY DEF Init
  <1>3. /\ gen = 0 /\ hook.step = "idle" /\ hook.cancels = {} /\ hook.stops = {} /\ hook.ended = 0
        /\ down.step = "up" /\ down.cancels = {} /\ down.stops = {} /\ starts = {} /\ sessions = {}
        /\ (\A o \in Origins : targetGates[o] = NoOne) /\ \A g \in Requests : gate[g].users = 0
    BY DEF Init
  <1>4. GatesInv
    <2>1. \A q \in Requests : ~ Using(q) /\ ~ Holding(q)
      BY <1>2 DEF Using, Holding
    <2>2. \A g \in Requests : UsersOf(g) = {}
      BY <2>1 DEF UsersOf
    <2>3. \A g \in Requests : gate[g].users = Cardinality(UsersOf(g))
      BY <1>3, <2>2, FS_EmptySet
    <2> QED BY <1>3, <2>1, <2>3 DEF GatesInv
  <1>5. PlacesInv
    BY <1>2, <1>3 DEF PlacesInv, Reserved
  <1>6. HookInv
    BY <1>3 DEF HookInv
  <1>7. OpenInv /\ SuccessorInv
    BY <1>2 DEF OpenInv, SuccessorInv, Lingers, Open
  <1>8. CancelInv
    BY <1>2, <1>3 DEF CancelInv
  <1>9. SlotsKept
    <2>1. {Origin(q) : q \in starts \cup ActiveSessions} = {}
      BY <1>3 DEF ActiveSessions
    <2> QED BY <2>1, FS_EmptySet DEF SlotsKept
  <1> QED BY <1>1, <1>4, <1>5, <1>6, <1>7, <1>8, <1>9 DEF ForwardInv

\* In every reachable state the gates serialize an origin's requests, and
\* every reservation, session, pending cancel and open tunnel has its place.
THEOREM ForwardsHold == Spec => [](TypeOK /\ ForwardInv)
  <1>1. Init => TypeOK /\ ForwardInv
    BY InitHolds
  <1>2. TypeOK /\ ForwardInv /\ [Next]_vars => (TypeOK /\ ForwardInv)'
    <2> SUFFICES ASSUME TypeOK, ForwardInv, [Next]_vars PROVE TypeOK' /\ ForwardInv'
      OBVIOUS
    <2>1. GatesInv /\ PlacesInv /\ HookInv /\ OpenInv /\ SuccessorInv /\ CancelInv /\ SlotsKept
      BY DEF ForwardInv
    <2>2. TypeOK'
      BY <2>1, TypesKept
    <2>3. GatesInv'
      BY <2>1, GatesKept
    <2>4. PlacesInv' /\ HookInv'
      BY <2>1, PlacesKept, HookKept
    <2>5. OpenInv'
      BY <2>1, OpenKept
    <2>6. SuccessorInv'
      BY <2>1, SuccessorKept
    <2>7. CancelInv'
      BY <2>1, CancelKept
    <2>8. SlotsKept'
      BY <2>1, <2>2, SlotsStayKept
    <2> QED BY <2>2, <2>3, <2>4, <2>5, <2>6, <2>7, <2>8 DEF ForwardInv
  <1> QED BY <1>1, <1>2, PTL DEF Spec

LEMMA InvAccounts ==
    ASSUME TypeOK, ForwardInv
    PROVE  TunnelsAccounted
  <1>1. GatesInv /\ PlacesInv /\ HookInv /\ OpenInv /\ SuccessorInv /\ CancelInv /\ SlotsKept
    BY DEF ForwardInv
  <1>2. ASSUME NEW r \in Requests, NEW s \in Requests, Open(r), Open(s), Origin(r) = Origin(s)
        PROVE  r = s
    <2>1. /\ req[r].pc \in {"start", "recheck", "publish", "stopping", "done"}
          /\ req[s].pc \in {"start", "recheck", "publish", "stopping", "done"}
      BY <1>1, <1>2 DEF OpenInv
    <2>2. CASE Lingers(r) \/ Lingers(s)
      BY <1>1, <1>2, <2>1, <2>2 DEF SuccessorInv, Lingers
    <2>3. CASE ~ Lingers(r) /\ ~ Lingers(s)
      <3>1. Holding(r) /\ Holding(s)
        BY <1>2, <2>1, <2>3 DEF Lingers, Holding, Using
      <3> QED BY <1>1, <1>2, <3>1, HoldersDiffer
    <2> QED BY <2>2, <2>3
  <1>3. SessionOutlivesRequest
    BY <1>1 DEF CancelInv, SessionOutlivesRequest, ActiveSessions, TypeOK
  <1>4. ASSUME NEW r \in Requests, req[r].gen < hook.ended
        PROVE  r \notin sessions /\ (req[r].pc = "done" /\ Open(r) => down.step # "up")
    <2>1. r \notin sessions /\ r \notin hook.stops
      BY <1>1, <1>4, Generations DEF HookInv
    <2> QED BY <1>1, <2>1 DEF OpenInv
  <1> QED BY <1>1, <1>2, <1>3, <1>4 DEF TunnelsAccounted, OneTunnelPerOrigin, HookFences

\* Every tunnel is accounted for (portforward.go): an origin never has two
\* listeners, origins stay within MaximumPortForwardSessions, a session
\* outlives the request that created it, and OnGeneration leaves none of an
\* older generation behind.
THEOREM ForwardsAccounted == Spec => []TunnelsAccounted
  <1>1. TypeOK /\ ForwardInv => TunnelsAccounted
    BY InvAccounts
  <1> QED BY <1>1, ForwardsHold, PTL
=============================================================================
