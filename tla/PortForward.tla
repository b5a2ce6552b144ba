----------------------------- MODULE PortForward -----------------------------
(***************************************************************************)
(* Port-forward sessions: internal/services/actions/portforward.go.        *)
(*                                                                         *)
(* A request is one run of createOnce (idempotency.go in front of it is    *)
(* modelled in Actions).  Its reservation, lifetime context, tunnel and    *)
(* session are named by the request.  An origin is the selected object in  *)
(* a generation; generations are numbered in the order they are published. *)
(* session.stop() runs once, and every caller returns when that run ends:  *)
(* a caller makes it due, Stop is the run, and whoever must join it waits  *)
(* for the tunnel to be "down".                                            *)
(***************************************************************************)
EXTENDS Naturals, FiniteSets

CONSTANTS
    Requests, Objects, NoOne,
    MaximumPortForwardSessions,
    MaxGen,       \* bound: generations published
    Ends          \* the ends of the service that happen: shutdown, root

ASSUME PortForwardAssumption ==
    /\ IsFiniteSet(Requests)
    /\ NoOne \notin Requests
    /\ MaximumPortForwardSessions \in Nat /\ MaxGen \in Nat
    /\ Ends \subseteq {"shutdown", "root"}

VARIABLES
    gen,         \* the published generation
    hook,        \* OnGeneration: its step, what it cancels and stops, its last end
    down,        \* Shutdown: its step, what it cancels and stops
    rootDone,    \* the application's root context is cancelled
    targetGates, \* the gate of each origin, named by the request that made it
    gate,        \* the gates
    starts,      \* the reservations
    sessions,    \* the retained sessions
    req

vars == <<gen, hook, down, rootDone, targetGates, gate, starts, sessions, req>>

Origins == Objects \X (0 .. MaxGen)

\* left: the HTTP request's context is done.  watch: the AfterFunc that hands
\* that cancellation to the lifetime context.  cancelled: the lifetime context.
\* stale, attached: the reservation's flag, and whether it holds the cancel.
\* previous: the sessions closeTarget collected.  active: the session's status.
\* due: somebody has called stop on it.
Request ==
    [pc : {"idle", "gate", "wait", "review", "enter", "reserve", "close", "join", "attach",
           "check", "listen", "start", "recheck", "publish", "stopping", "failed", "done"},
     object : Objects, gen : 0 .. MaxGen, gate : Requests \cup {NoOne}, left : BOOLEAN,
     watch : {"off", "armed", "fired"}, cancelled : BOOLEAN, stale : BOOLEAN,
     attached : BOOLEAN, previous : SUBSET Requests, active : BOOLEAN, due : BOOLEAN,
     tunnel : {"none", "bound", "live", "down"}]

TypeOK ==
    /\ gen \in 0 .. MaxGen
    /\ hook \in [step : {"idle", "collect", "stop", "join"}, cancels : SUBSET Requests,
                 stops : SUBSET Requests, ended : 0 .. MaxGen]
    /\ down \in [step : {"up", "stop", "down"}, cancels : SUBSET Requests,
                 stops : SUBSET Requests]
    /\ rootDone \in BOOLEAN
    /\ targetGates \in [Origins -> Requests \cup {NoOne}]
    /\ gate \in [Requests -> [token : BOOLEAN, users : Nat]]
    /\ starts \subseteq Requests
    /\ sessions \subseteq Requests
    /\ req \in [Requests -> Request]

Init ==
    /\ gen = 0
    /\ hook = [step |-> "idle", cancels |-> {}, stops |-> {}, ended |-> 0]
    /\ down = [step |-> "up", cancels |-> {}, stops |-> {}]
    /\ rootDone = FALSE
    /\ targetGates = [o \in Origins |-> NoOne]
    /\ gate = [r \in Requests |-> [token |-> FALSE, users |-> 0]]
    /\ starts = {}
    /\ sessions = {}
    /\ req \in [Requests ->
           [pc : {"idle"}, object : Objects, gen : {0}, gate : {NoOne}, left : {FALSE},
            watch : {"off"}, cancelled : {FALSE}, stale : {FALSE}, attached : {FALSE},
            previous : {{}}, active : {FALSE}, due : {FALSE}, tunnel : {"none"}]]

Origin(r) == <<req[r].object, req[r].gen>>

Set(r, record) == req' = [req EXCEPT ![r] = record]
Goto(r, pc) == Set(r, [req[r] EXCEPT !.pc = pc])

\* requireCurrent
Current(r) == req[r].gen = gen

\* The sessions ss are stopped by somebody; those in ended leave "active".
Ended(ended, due) ==
    [r \in Requests |-> [req[r] EXCEPT !.active = @ /\ r \notin ended,
                                       !.due = @ \/ r \in due]]

-----------------------------------------------------------------------------
(* The gate of an origin *)

\* Create: requireCurrent.
Arrive(r) ==
    /\ req[r].pc = "idle"
    /\ Set(r, [req[r] EXCEPT !.gen = gen, !.pc = "gate"])
    /\ UNCHANGED <<gen, hook, down, rootDone, targetGates, gate, starts, sessions>>

\* acquireTarget, the part under the lock.
GateRegisters(r) ==
    LET g == IF targetGates[Origin(r)] = NoOne THEN r ELSE targetGates[Origin(r)] IN
    /\ req[r].pc = "gate"
    /\ targetGates' = [targetGates EXCEPT ![Origin(r)] = g]
    /\ gate' = [gate EXCEPT ![g].users = @ + 1]
    /\ Set(r, [req[r] EXCEPT !.gate = g, !.pc = "wait"])
    /\ UNCHANGED <<gen, hook, down, rootDone, starts, sessions>>

GateAcquires(r) ==
    /\ req[r].pc = "wait"
    /\ ~ gate[req[r].gate].token
    /\ gate' = [gate EXCEPT ![req[r].gate].token = TRUE]
    /\ Goto(r, "review")
    /\ UNCHANGED <<gen, hook, down, rootDone, targetGates, starts, sessions>>

\* releaseRef, after the token is returned if this request holds it.
DropsGate(r, held) ==
    LET g == req[r].gate IN
    /\ gate' = [gate EXCEPT ![g].users = @ - 1,
                            ![g].token = IF held THEN FALSE ELSE @]
    /\ targetGates' = IF gate[g].users = 1
                      THEN [targetGates EXCEPT ![Origin(r)] = NoOne] ELSE targetGates

GateLeaves(r) ==
    /\ req[r].pc = "wait"
    /\ req[r].left \/ rootDone
    /\ DropsGate(r, FALSE)
    /\ Set(r, [req[r] EXCEPT !.left = FALSE, !.pc = "done"])
    /\ UNCHANGED <<gen, hook, down, rootDone, starts, sessions>>

-----------------------------------------------------------------------------
(* The guarded callback of createOnce *)

Reviewed(r, allowed) ==
    /\ req[r].pc = "review"
    /\ Goto(r, IF allowed THEN "enter" ELSE "failed")
    /\ UNCHANGED <<gen, hook, down, rootDone, targetGates, gate, starts, sessions>>

Enter(r) ==
    /\ req[r].pc = "enter"
    /\ Goto(r, IF ~ req[r].left /\ Current(r) THEN "reserve" ELSE "failed")
    /\ UNCHANGED <<gen, hook, down, rootDone, targetGates, gate, starts, sessions>>

ActiveSessions == {s \in sessions : req[s].active}

\* reserve counts reservations and active sessions; a replacement borrows the
\* slot of the session it replaces.
Admits(r) ==
    \/ Cardinality(starts) + Cardinality(ActiveSessions) < MaximumPortForwardSessions
    \/ \E s \in ActiveSessions : Origin(s) = Origin(r)

Reserve(r) ==
    /\ req[r].pc = "reserve"
    /\ \/ /\ down.step = "up" /\ Admits(r)
          /\ starts' = starts \cup {r}
          /\ Goto(r, "close")
       \/ /\ ~ (down.step = "up" /\ Admits(r))
          /\ Goto(r, "failed")
          /\ UNCHANGED starts
    /\ UNCHANGED <<gen, hook, down, rootDone, targetGates, gate, sessions>>

\* closeTarget collects the origin's sessions, ended ones too, and finishes
\* them.
CloseTarget(r) ==
    LET previous == {s \in sessions : Origin(s) = Origin(r)} IN
    /\ req[r].pc = "close"
    /\ req' = [Ended(previous, previous) EXCEPT ![r] = [@ EXCEPT
                  !.previous = previous, !.pc = "join"]]
    /\ UNCHANGED <<gen, hook, down, rootDone, targetGates, gate, starts, sessions>>

\* ... and joins the stop of each of them.
Join(r) ==
    /\ req[r].pc = "join"
    /\ \A s \in req[r].previous : req[s].tunnel = "down"
    /\ Set(r, [req[r] EXCEPT !.previous = {}, !.pc = "attach"])
    /\ UNCHANGED <<gen, hook, down, rootDone, targetGates, gate, starts, sessions>>

\* The lifetime context is made, watched by the request's, and attached to
\* the reservation.
Attach(r) ==
    LET refused == down.step # "up" \/ req[r].stale IN
    /\ req[r].pc = "attach"
    /\ Set(r, [req[r] EXCEPT
                  !.watch = IF req[r].left THEN "fired" ELSE "armed",
                  !.attached = TRUE,
                  !.cancelled = refused \/ rootDone,
                  !.pc = IF refused THEN "failed" ELSE "check"])
    /\ UNCHANGED <<gen, hook, down, rootDone, targetGates, gate, starts, sessions>>

Check(r) ==
    /\ req[r].pc = "check"
    /\ Goto(r, IF Current(r) THEN "listen" ELSE "failed")
    /\ UNCHANGED <<gen, hook, down, rootDone, targetGates, gate, starts, sessions>>

\* The binder, then the adapter: each may fail, by a timeout or a cancelled
\* context too, and then the listener is closed.
Listen(r, ok) ==
    /\ req[r].pc = "listen"
    /\ Set(r, [req[r] EXCEPT !.tunnel = IF ok THEN "bound" ELSE @,
                             !.pc = IF ok THEN "start" ELSE "failed"])
    /\ UNCHANGED <<gen, hook, down, rootDone, targetGates, gate, starts, sessions>>

Start(r, ok) ==
    /\ req[r].pc = "start"
    /\ Set(r, [req[r] EXCEPT !.tunnel = IF ok THEN "live" ELSE "down",
                             !.pc = IF ok THEN "recheck" ELSE "failed"])
    /\ UNCHANGED <<gen, hook, down, rootDone, targetGates, gate, starts, sessions>>

Recheck(r) ==
    /\ req[r].pc = "recheck"
    /\ Set(r, IF Current(r) THEN [req[r] EXCEPT !.pc = "publish"]
              ELSE [req[r] EXCEPT !.tunnel = "down", !.pc = "failed"])
    /\ UNCHANGED <<gen, hook, down, rootDone, targetGates, gate, starts, sessions>>

\* guardErr: releaseReservation, and the deferred release of the gate.
Failed(r) ==
    /\ req[r].pc = "failed"
    /\ starts' = starts \ {r}
    /\ DropsGate(r, TRUE)
    /\ Set(r, [req[r] EXCEPT !.cancelled = req[r].attached, !.watch = "off",
                             !.left = FALSE, !.stale = FALSE, !.attached = FALSE,
                             !.pc = "done"])
    /\ UNCHANGED <<gen, hook, down, rootDone, sessions>>

-----------------------------------------------------------------------------
(* Publication *)

MayPublishOnceChecked(r) == down.step = "up" /\ ~ req[r].left

\* No shutdown, a reservation nobody marked stale, the current generation,
\* and, once the request's cancellation is detached, a live request.
MayPublish(r) == down.step = "up" /\ ~ req[r].stale /\ Current(r) /\ ~ req[r].left

PublishSucceeds(r) ==
    /\ req[r].pc = "publish"
    /\ MayPublish(r)
    /\ starts' = starts \ {r}
    /\ sessions' = sessions \cup {r}
    /\ DropsGate(r, TRUE)
    /\ Set(r, [req[r] EXCEPT !.watch = IF @ = "fired" THEN @ ELSE "off",
                             !.active = TRUE, !.left = FALSE, !.pc = "done"])
    /\ UNCHANGED <<gen, hook, down, rootDone>>

PublishFailsUnstopped(r) ==
    /\ req[r].pc = "publish"
    /\ ~ MayPublish(r)
    /\ starts' = starts \ {r}
    /\ Goto(r, "stopping")
    /\ UNCHANGED <<gen, hook, down, rootDone, targetGates, gate, sessions>>

PublishFails(r) ==
    /\ req[r].pc = "publish"
    /\ ~ MayPublish(r)
    /\ starts' = starts \ {r}
    /\ Set(r, [req[r] EXCEPT !.due = TRUE, !.pc = "stopping"])
    /\ UNCHANGED <<gen, hook, down, rootDone, targetGates, gate, sessions>>

\* The refused session is stopped before the gate is released.
Refused(r) ==
    /\ req[r].pc = "stopping"
    /\ req[r].tunnel = "down"
    /\ DropsGate(r, TRUE)
    /\ Set(r, [req[r] EXCEPT !.watch = "off", !.left = FALSE, !.stale = FALSE, !.pc = "done"])
    /\ UNCHANGED <<gen, hook, down, rootDone, starts, sessions>>

-----------------------------------------------------------------------------
(* The end of a session *)

\* finish, for a tunnel that failed or expired, and Close, whose request was
\* current when it arrived: the session is marked, then stopped.
Finish(r) ==
    /\ r \in sessions
    /\ req[r].active
    /\ req' = Ended({r}, {r})
    /\ UNCHANGED <<gen, hook, down, rootDone, targetGates, gate, starts, sessions>>

Stop(r) ==
    /\ req[r].due
    /\ req[r].tunnel = "live"
    /\ Set(r, [req[r] EXCEPT !.tunnel = "down", !.cancelled = TRUE])
    /\ UNCHANGED <<gen, hook, down, rootDone, targetGates, gate, starts, sessions>>

\* pruneLocked, from List, Close and reserve: stop ends long before the
\* retention of an ended session does.
Prune(r) ==
    /\ r \in sessions
    /\ ~ req[r].active
    /\ req[r].tunnel = "down"
    /\ sessions' = sessions \ {r}
    /\ UNCHANGED <<gen, hook, down, rootDone, targetGates, gate, starts, req>>

-----------------------------------------------------------------------------
(* The generation hook and Shutdown *)

\* The reservations rs lose their claim; those with a cancel are cancelled
\* once the lock is free.
Staled(rs) == [r \in Requests |-> [req[r] EXCEPT !.stale = @ \/ r \in rs]]
Cancels(rs) == {r \in rs : req[r].attached}

\* The lifetime contexts cs are cancelled and the sessions ss stopped.
Released(cs, ss) ==
    [r \in Requests |-> [req[r] EXCEPT !.cancelled = @ \/ r \in cs,
                                       !.due = @ \/ r \in ss]]

PublishGeneration ==
    /\ hook.step = "idle"
    /\ gen < MaxGen
    /\ gen' = gen + 1
    /\ hook' = [hook EXCEPT !.step = "collect"]
    /\ UNCHANGED <<down, rootDone, targetGates, gate, starts, sessions, req>>

OnGenerationCollects ==
    LET old == {r \in starts : ~ Current(r)}
        gone == {r \in sessions : ~ Current(r)}
    IN
    /\ hook.step = "collect"
    /\ req' = Staled(old)
    /\ sessions' = sessions \ gone
    /\ hook' = [hook EXCEPT !.step = "stop", !.cancels = Cancels(old), !.stops = gone]
    /\ UNCHANGED <<gen, down, rootDone, targetGates, gate, starts>>

OnGenerationStops ==
    /\ hook.step = "stop"
    /\ req' = Released(hook.cancels, hook.stops)
    /\ hook' = [hook EXCEPT !.step = "join", !.cancels = {}]
    /\ UNCHANGED <<gen, down, rootDone, targetGates, gate, starts, sessions>>

\* It returns once every stop has.
OnGenerationEnds ==
    /\ hook.step = "join"
    /\ \A r \in hook.stops : req[r].tunnel = "down"
    /\ hook' = [step |-> "idle", cancels |-> {}, stops |-> {}, ended |-> gen]
    /\ UNCHANGED <<gen, down, rootDone, targetGates, gate, starts, sessions, req>>

ShutdownCollects ==
    /\ "shutdown" \in Ends
    /\ down.step = "up"
    /\ req' = Staled(starts)
    /\ sessions' = {}
    /\ down' = [step |-> "stop", cancels |-> Cancels(starts), stops |-> sessions]
    /\ UNCHANGED <<gen, hook, rootDone, targetGates, gate, starts>>

ShutdownStops ==
    /\ down.step = "stop"
    /\ req' = Released(down.cancels, down.stops)
    /\ down' = [step |-> "down", cancels |-> {}, stops |-> {}]
    /\ UNCHANGED <<gen, hook, rootDone, targetGates, gate, starts, sessions>>

-----------------------------------------------------------------------------
(* The environment *)

\* The request's context is done: the browser left, or the handler returned.
Disconnect(r) ==
    /\ req[r].pc # "idle"
    /\ req[r].pc # "done" \/ req[r].watch = "armed"
    /\ ~ req[r].left
    /\ Set(r, [req[r] EXCEPT !.left = TRUE, !.watch = IF @ = "armed" THEN "fired" ELSE @])
    /\ UNCHANGED <<gen, hook, down, rootDone, targetGates, gate, starts, sessions>>

\* The AfterFunc's goroutine runs.
WatchCancels(r) ==
    /\ req[r].watch = "fired"
    /\ Set(r, [req[r] EXCEPT !.watch = "off", !.cancelled = TRUE])
    /\ UNCHANGED <<gen, hook, down, rootDone, targetGates, gate, starts, sessions>>

RootDone ==
    /\ "root" \in Ends
    /\ ~ rootDone
    /\ rootDone' = TRUE
    /\ req' = [r \in Requests |-> [req[r] EXCEPT !.cancelled = @ \/ req[r].attached]]
    /\ UNCHANGED <<gen, hook, down, targetGates, gate, starts, sessions>>

Step(r) ==
    \/ GateRegisters(r) \/ GateAcquires(r) \/ GateLeaves(r)
    \/ \E ok \in BOOLEAN : Reviewed(r, ok) \/ Listen(r, ok) \/ Start(r, ok)
    \/ Enter(r) \/ Reserve(r) \/ CloseTarget(r) \/ Join(r) \/ Attach(r) \/ Check(r)
    \/ Recheck(r) \/ Failed(r) \/ PublishSucceeds(r) \/ PublishFails(r) \/ Refused(r)

Hooks == \/ OnGenerationCollects \/ OnGenerationStops \/ OnGenerationEnds
         \/ ShutdownStops

Next ==
    \/ \E r \in Requests : \/ Arrive(r) \/ Step(r) \/ Finish(r) \/ Stop(r) \/ Prune(r)
                           \/ Disconnect(r) \/ WatchCancels(r)
    \/ PublishGeneration \/ ShutdownCollects \/ RootDone
    \/ Hooks

Progress == Hooks \/ \E r \in Requests : Step(r) \/ Stop(r)

\* A request takes its next step (the review, the binder and the adapter run
\* under setupLimit or the client's timeout), a stop that was called runs,
\* and the hook and Shutdown go on.  Each takes finitely many steps.
Fairness == WF_vars(Progress)

Spec == Init /\ [][Next]_vars /\ Fairness

-----------------------------------------------------------------------------
(* Properties *)

Open(r) == req[r].tunnel \in {"bound", "live"}

\* An origin never has two listeners: a replacement binds only after the
\* session it replaces is stopped, also when Close or the expiry timer is
\* already stopping it, and concurrent requests of an origin are serialized.
OneTunnelPerOrigin ==
    \A r, s \in Requests : Open(r) /\ Open(s) /\ Origin(r) = Origin(s) => r = s

\* The reservations and the active sessions belong to no more origins than
\* there are slots, although a replacement is admitted when all are taken.
SlotsKept ==
    Cardinality({Origin(r) : r \in starts \cup ActiveSessions}) <= MaximumPortForwardSessions

\* An established tunnel outlives the request that created it: neither its
\* disconnection nor a late cancel of its reservation ends a session.
SessionOutlivesRequest ==
    \A r \in ActiveSessions : req[r].cancelled => rootDone

\* Once OnGeneration has returned, no session of an older generation is
\* listed, and none that was created is still up, unless Shutdown took it.
HookFences ==
    \A r \in Requests : req[r].gen < hook.ended =>
        /\ r \notin sessions
        /\ req[r].pc = "done" /\ Open(r) => down.step # "up"

\* Every tunnel is accounted for: one per origin, origins within the slots, no
\* session lost with its request, none of an older generation left listed.
TunnelsAccounted == TypeOK /\ OneTunnelPerOrigin /\ SlotsKept /\ SessionOutlivesRequest /\ HookFences

\* Again and again no tunnel of an older generation, and none that was up when
\* the service shut down, is left, whatever its setup was doing.
StaleTunnelsEnd ==
    []<>(\A r \in Requests : Open(r) => req[r].gen = gen /\ down.step = "up")

\* Every create request is answered and leaves the gate.
RequestsEnd == <>[](\A r \in Requests : req[r].pc \in {"idle", "done"})

\* Forwards settle: requests are answered, and tunnels that lost their
\* generation or their service come down.
ForwardsSettle == StaleTunnelsEnd /\ RequestsEnd

=============================================================================
