---------------------------- MODULE LifecycleProof ----------------------------
(***************************************************************************)
(* The life of an installation, for any number of processes, controllers and  *)
(* updates, with every crash and failure: the file of a live instance stays   *)
(* (InstanceTruthful), the installed binary opens the database                *)
(* (DatabaseSafe), and an update replaces all or nothing (AllOrNothing).       *)
(***************************************************************************)
EXTENDS Lifecycle, TLAPS

USE InstanceAssumption, UpdaterAssumption

-----------------------------------------------------------------------------
(* The inductive invariants *)

ProcPCs == {"idle", "refused", "locked", "cleared", "gone", "portdown", "statedown"} \cup Bound

CtlPCs == {"idle", "load", "request", "recover", "recovering", "running", "not running", "unverified"}

\* What BindLoopback may choose.
PortValues == {0} \cup {Min(S) : S \in SUBSET Ports}

InstanceType ==
    /\ lock \in Actors \cup {None}
    /\ stateFile \in Procs \cup {None}
    /\ proc \in [Procs -> [pc : ProcPCs, port : PortValues, version : Nat]]
    /\ ctl \in [Actors -> [pc : CtlPCs, stop : BOOLEAN, seen : Procs \cup {None}]]

\* Whoever is past the lock and has not left holds it.
LockHeld ==
    /\ \A p \in Procs : Holds(p) => lock = p
    /\ \A c \in Actors : ctl[c].pc = "recovering" => lock = c

\* A start that becomes a status request never runs as a process.
OneRole == \A p \in Procs : ctl[p].pc # "idle" => proc[p].pc = "refused"

\* A controller that goes past LoadState has read of a process.
HasSeen == \A c \in Actors : ctl[c].pc \in {"request", "recover", "recovering"} => ctl[c].seen \in Procs

Published == \A p \in Procs : proc[p].pc = "ready" => stateFile = p

InstanceInv == InstanceType /\ LockHeld /\ OneRole /\ HasSeen /\ Published

-----------------------------------------------------------------------------

UpdatePCs == {"idle", "locked", "fetched", "staged", "scheduled", "replaced", "done"}

Results == {"none", "concurrent", "failed", "updated", "rolled back", "stays", "crashed"}

Busy(u) == update[u].pc \notin {"idle", "done"}

UpdateType ==
    /\ installed \in Nat \ {0}
    /\ updateLock \in BOOLEAN
    /\ update \in [Updaters -> [pc : UpdatePCs, target : Nat, before : Nat, backup : Nat, result : Results]]

\* The lock file keeps updates apart, also when a crash has left it behind.
OneUpdate ==
    /\ \A u \in Updaters : Busy(u) => updateLock
    /\ \A u, w \in Updaters : Busy(u) /\ Busy(w) => u = w

\* Where an update stands, and what is installed meanwhile.
UpdatePlace ==
    \A u \in Updaters :
        /\ Busy(u) => update[u].target # 0 /\ update[u].before # 0
        /\ update[u].pc \in {"idle", "locked", "fetched"} => update[u].backup = 0
        /\ update[u].pc \in {"locked", "fetched", "staged", "scheduled"} => installed = update[u].before
        /\ update[u].pc = "staged" => update[u].backup \in {0, update[u].before}
        /\ update[u].pc = "replaced" => update[u].backup = update[u].before /\ installed = update[u].target

UpdateInv == UpdateType /\ OneUpdate /\ UpdatePlace

-----------------------------------------------------------------------------

StorePCs == {"closed", "refused", "migrate", "apply", "applied", "open"}

StoreType ==
    /\ applied \in Nat
    /\ open \in [pc : StorePCs, known : Nat]

\* The processes that may have the database open.
Opening == {"bound", "built", "serving", "ready", "stopping", "httpdown"}

\* The database is open in the process that holds the lock, with its version.
StoreOwned ==
    open.pc # "closed" =>
        lock \in Procs /\ proc[lock].pc \in Opening /\ proc[lock].version = open.known

\* A migration is applied only if the binary knows it, and if it is destructive,
\* over a backup.
MigrationKnown ==
    /\ open.pc \in {"migrate", "apply", "applied", "open"} => applied <= open.known
    /\ open.pc = "apply" => applied + 1 <= open.known
    /\ open.pc = "apply" /\ applied + 1 \in Destructive => applied \in backup

\* Updates and processes exclude each other, so a process runs what is installed.
Apart ==
    /\ \A u \in Updaters, p \in Procs : Busy(u) => ~ Holds(p)
    /\ \A p \in Procs : Holds(p) => proc[p].version = installed

StoreInv == StoreType /\ StoreOwned /\ MigrationKnown /\ Apart

\* Neither what an update replaces nor what it brings is behind the database.
NotBehind ==
    /\ applied <= installed
    /\ \A u \in Updaters : Busy(u) => applied <= update[u].before /\ applied <= update[u].target

-----------------------------------------------------------------------------
(* Instances *)

LEMMA InstanceStart == Init => InstanceInv
  BY DEF Init, InstanceInit, InstanceInv, InstanceType, LockHeld, OneRole, HasSeen, Published, Holds,
         Actors, ProcPCs, CtlPCs, PortValues

\* A step of a process keeps the invariant; what the other modules do beside it
\* does not matter.
ProcessMoves(p) ==
    \/ StartProcess(p, installed) \/ ClearStale(p) \/ BindLoopback(p) \/ Serve(p) \/ Publish(p)
    \/ CleanupHTTP(p) \/ CleanupPort(p) \/ CleanupState(p) \/ CleanupLast(p)
    \/ Build(p) \/ Cancel(p) \/ CleanupStore(p) \/ CrashProcess(p)

ControllerMoves(c) ==
    \/ ControlStep(c) \/ RequestTimesOut(c)
    \/ \E stop \in BOOLEAN : Ask(c, stop)

\* Every step of the instance is one of theirs.
LEMMA InstanceMoves ==
  ASSUME [Next]_vars
  PROVE  \/ \E p \in Procs : ProcessMoves(p)
         \/ \E c \in Actors : ControllerMoves(c)
         \/ UNCHANGED instanceVars
  BY DEF Next, vars, Foreground, Command, Environment, ProcessMoves, ControllerMoves, Actors

\* Moving on to a place.
LEMMA StepTypes ==
  ASSUME NEW p \in Procs, NEW pc \in ProcPCs, InstanceType, Step(p, pc)
  PROVE  /\ proc' \in [Procs -> [pc : ProcPCs, port : PortValues, version : Nat]]
         /\ proc'[p].pc = pc /\ proc'[p].version = proc[p].version
         /\ \A q \in Procs : q # p => proc'[q] = proc[q]
  BY DEF InstanceType, Step

LEMMA ControlTypes ==
  ASSUME NEW c \in Actors, NEW pc \in CtlPCs, InstanceType, ctl' = [ctl EXCEPT ![c].pc = pc]
  PROVE  /\ ctl' \in [Actors -> [pc : CtlPCs, stop : BOOLEAN, seen : Procs \cup {None}]]
         /\ ctl'[c].pc = pc /\ ctl'[c].seen = ctl[c].seen
         /\ \A d \in Actors : d # c => ctl'[d] = ctl[d]
  BY DEF InstanceType

\* Every place is one.
LEMMA Places ==
  /\ {"idle", "refused", "locked", "cleared", "gone", "portdown", "statedown"} \subseteq ProcPCs
  /\ {"bound", "built", "serving", "ready", "stopping", "httpdown", "storedown"} \subseteq ProcPCs
  /\ {"idle", "load", "request", "recover", "recovering", "running", "not running", "unverified"} \subseteq CtlPCs
  BY DEF ProcPCs, CtlPCs, Bound

ProcTyped == proc \in [Procs -> [pc : ProcPCs, port : PortValues, version : Nat]]

\* A process that takes the lock, or finds it held.
LEMMA StartEffect ==
  ASSUME InstanceType, installed \in Nat, NEW p \in Procs, StartProcess(p, installed)
  PROVE  /\ ProcTyped' /\ proc[p].pc = "idle" /\ UNCHANGED stateFile
         /\ \A q \in Procs : q # p => proc'[q] = proc[q]
         /\ \/ /\ lock = None /\ lock' = p /\ UNCHANGED ctl
                /\ proc'[p].pc = "locked" /\ proc'[p].version = installed
            \/ /\ UNCHANGED lock /\ proc'[p].pc = "refused" /\ ctl' = [ctl EXCEPT ![p].pc = "load"]
<1>1. CASE lock = None
  <2>1. proc' = [proc EXCEPT ![p] = [proc[p] EXCEPT !.pc = "locked", !.version = installed]]
    BY <1>1 DEF StartProcess, InstanceType
  <2>2. [proc[p] EXCEPT !.pc = "locked", !.version = installed] \in [pc : ProcPCs, port : PortValues, version : Nat]
    <3>1. proc[p] \in [pc : ProcPCs, port : PortValues, version : Nat]
      BY DEF InstanceType
    <3>2. "locked" \in ProcPCs
      BY DEF ProcPCs
    <3>3. QED  BY <3>1, <3>2
  <2>3. QED  BY <1>1, <2>1, <2>2 DEF StartProcess, InstanceType, ProcTyped
<1>2. CASE lock # None
  <2>1. Step(p, "refused")
    BY <1>2 DEF StartProcess
  <2>2. QED  BY <1>2, <2>1, StepTypes, Places DEF StartProcess, ProcTyped
<1>3. QED  BY <1>1, <1>2

\* The other steps of a process, and where they take it.
LEMMA ProcessEffect ==
  ASSUME InstanceType, NEW p \in Procs,
         \/ ClearStale(p) \/ BindLoopback(p) \/ Serve(p) \/ Publish(p)
         \/ CleanupHTTP(p) \/ CleanupPort(p) \/ CleanupState(p) \/ CleanupLast(p)
         \/ Build(p) \/ Cancel(p) \/ CleanupStore(p) \/ CrashProcess(p)
  PROVE  /\ ProcTyped' /\ Holds(p) /\ UNCHANGED ctl
         /\ proc'[p].pc \notin {"idle", "refused"} /\ proc'[p].version = proc[p].version
         /\ \A q \in Procs : q # p => proc'[q] = proc[q]
         /\ \/ UNCHANGED lock
            \/ lock' = None /\ proc'[p].pc = "gone"
         /\ stateFile' \in {stateFile, None, p}
         /\ proc'[p].pc = "ready" => stateFile' = p
<1> USE DEF ProcTyped
<1>1. CASE ClearStale(p)
  BY <1>1, StepTypes, Places DEF ClearStale, Holds
<1>2. CASE BindLoopback(p)
  <2>0. /\ proc[p] \in [pc : ProcPCs, port : PortValues, version : Nat]
        /\ "bound" \in ProcPCs /\ "portdown" \in ProcPCs
    BY Places DEF InstanceType
  <2>1. FreePorts \in SUBSET Ports
    BY DEF FreePorts
  <2>2. Min(FreePorts) \in PortValues
    BY <2>1 DEF PortValues
  <2>3. CASE FreePorts = {}
    <3>1. proc' = [proc EXCEPT ![p] = [proc[p] EXCEPT !.pc = "portdown"]]
      BY <1>2, <2>3 DEF BindLoopback
    <3>2. [proc[p] EXCEPT !.pc = "portdown"] \in [pc : ProcPCs, port : PortValues, version : Nat]
      BY <2>0
    <3>3. QED  BY <1>2, <3>1, <3>2 DEF BindLoopback, Holds, InstanceType
  <2>4. CASE FreePorts # {}
    <3>1. proc' = [proc EXCEPT ![p] = [proc[p] EXCEPT !.pc = "bound", !.port = Min(FreePorts)]]
      BY <1>2, <2>4 DEF BindLoopback
    <3>2. [proc[p] EXCEPT !.pc = "bound", !.port = Min(FreePorts)] \in [pc : ProcPCs, port : PortValues, version : Nat]
      BY <2>0, <2>2
    <3>3. QED  BY <1>2, <3>1, <3>2 DEF BindLoopback, Holds, InstanceType
  <2>5. QED  BY <2>3, <2>4
<1>3. CASE Publish(p)
  BY <1>3, StepTypes, Places DEF Publish, Holds
<1>4. CASE Serve(p) \/ Build(p) \/ CleanupHTTP(p)
  BY <1>4, StepTypes, Places DEF Serve, Build, CleanupHTTP, Holds
<1>5. CASE Cancel(p)
  BY <1>5, StepTypes, Places DEF Cancel, Holds
<1>6. CASE CleanupStore(p) \/ CleanupPort(p)
  BY <1>6, StepTypes, Places DEF CleanupStore, CleanupPort, Holds
<1>7. CASE CleanupState(p)
  BY <1>7, StepTypes, Places DEF CleanupState, Holds
<1>8. CASE CleanupLast(p)
  BY <1>8, StepTypes, Places DEF CleanupLast, Holds
<1>9. CASE CrashProcess(p)
  BY <1>9, StepTypes, Places DEF CrashProcess, Holds
<1>10. QED  BY <1>1, <1>2, <1>3, <1>4, <1>5, <1>6, <1>7, <1>8, <1>9

LEMMA ProcessKeeps ==
  ASSUME InstanceInv, installed \in Nat, NEW p \in Procs, ProcessMoves(p)
  PROVE  InstanceInv'
<1> USE DEF InstanceInv
<1>1. CASE StartProcess(p, installed)
  <2>1. p \in Actors
    BY DEF Actors
  <2>2. InstanceType'
    BY <1>1, <2>1, StartEffect, ControlTypes, Places DEF InstanceType, ProcTyped
  <2>3. CASE lock = None /\ lock' = p /\ UNCHANGED ctl /\ proc'[p].pc = "locked"
    <3>1. \A q \in Procs : ~ Holds(q)
      BY <2>3 DEF LockHeld
    <3>2. \A c \in Actors : ctl[c].pc # "recovering"
      BY <2>3 DEF LockHeld, Actors
    <3>3. ctl[p].pc = "idle"
      BY <1>1, StartEffect DEF OneRole
    <3>4. LockHeld'
      BY <1>1, <2>3, <3>1, <3>2, StartEffect DEF LockHeld, Holds
    <3>5. OneRole' /\ HasSeen'
      BY <1>1, <2>3, <3>3, StartEffect DEF OneRole, HasSeen
    <3>6. Published'
      BY <1>1, <2>3, StartEffect DEF Published
    <3>7. QED  BY <2>2, <3>4, <3>5, <3>6
  <2>4. CASE UNCHANGED lock /\ proc'[p].pc = "refused" /\ ctl' = [ctl EXCEPT ![p].pc = "load"]
    <3>1. /\ ctl'[p].pc = "load"
          /\ \A d \in Actors : d # p => ctl'[d] = ctl[d]
      BY <2>1, <2>4, ControlTypes, Places
    <3>2. LockHeld'
      BY <1>1, <2>1, <2>4, <3>1, StartEffect DEF LockHeld, Holds
    <3>3. OneRole'
      BY <1>1, <2>1, <2>4, <3>1, StartEffect DEF OneRole, Actors
    <3>4. HasSeen' /\ Published'
      BY <1>1, <2>1, <2>4, <3>1, StartEffect DEF HasSeen, Published
    <3>5. QED  BY <2>2, <3>2, <3>3, <3>4
  <2>5. QED  BY <1>1, <2>3, <2>4, StartEffect
<1>2. CASE ~ StartProcess(p, installed)
  <2>1. /\ ProcTyped' /\ Holds(p) /\ UNCHANGED ctl
        /\ proc'[p].pc \notin {"idle", "refused"} /\ proc'[p].version = proc[p].version
        /\ \A q \in Procs : q # p => proc'[q] = proc[q]
        /\ \/ UNCHANGED lock
           \/ lock' = None /\ proc'[p].pc = "gone"
        /\ stateFile' \in {stateFile, None, p}
        /\ proc'[p].pc = "ready" => stateFile' = p
    BY <1>2, ProcessEffect DEF ProcessMoves
  <2>2. lock = p /\ ctl[p].pc = "idle"
    BY <2>1 DEF LockHeld, OneRole, Holds
  <2>3. \A q \in Procs : q # p => ~ Holds(q)
    BY <2>2 DEF LockHeld
  <2>4. \A c \in Actors : ctl[c].pc # "recovering"
    BY <2>2 DEF LockHeld
  <2>5. InstanceType'
    BY <2>1 DEF InstanceType, ProcTyped
  <2>6. LockHeld'
    BY <2>1, <2>2, <2>3, <2>4 DEF LockHeld, Holds
  <2>7. OneRole' /\ HasSeen'
    BY <2>1, <2>2 DEF OneRole, HasSeen
  <2>8. Published'
    BY <2>1, <2>3 DEF Published, Holds
  <2>9. QED  BY <2>5, <2>6, <2>7, <2>8
<1>3. QED  BY <1>1, <1>2

LEMMA ControllerKeeps ==
  ASSUME InstanceInv, NEW c \in Actors, ControllerMoves(c)
  PROVE  InstanceInv'
<1> USE DEF InstanceInv
<1> DEFINE Moved(pc) == ctl' = [ctl EXCEPT ![c].pc = pc]
<1>0. ASSUME NEW pc \in CtlPCs, Moved(pc), UNCHANGED <<lock, stateFile, proc>>, ctl[c].pc # "idle",
             pc # "recovering", ctl[c].seen \in Procs \/ pc \in {"load", "running", "not running", "unverified"}
      PROVE  InstanceInv'
  <2>1. /\ ctl' \in [Actors -> [pc : CtlPCs, stop : BOOLEAN, seen : Procs \cup {None}]]
        /\ ctl'[c].pc = pc /\ ctl'[c].seen = ctl[c].seen
        /\ \A d \in Actors : d # c => ctl'[d] = ctl[d]
    BY <1>0, ControlTypes
  <2>2. InstanceType' /\ Published'
    BY <1>0, <2>1 DEF InstanceType, Published
  <2>3. LockHeld'
    BY <1>0, <2>1 DEF LockHeld, Holds
  <2>4. OneRole'
    BY <1>0, <2>1 DEF OneRole, Actors
  <2>5. HasSeen'
    BY <1>0, <2>1 DEF HasSeen
  <2>6. QED  BY <2>2, <2>3, <2>4, <2>5
<1>1. CASE LoadState(c)
  <2>1. ctl' = [ctl EXCEPT ![c] = [ctl[c] EXCEPT !.seen = stateFile, !.pc = IF stateFile = None THEN "not running" ELSE "request"]]
    BY <1>1 DEF LoadState, InstanceType
  <2>2. [ctl[c] EXCEPT !.seen = stateFile, !.pc = IF stateFile = None THEN "not running" ELSE "request"]
          \in [pc : CtlPCs, stop : BOOLEAN, seen : Procs \cup {None}]
    BY Places DEF InstanceType
  <2>3. ctl' \in [Actors -> [pc : CtlPCs, stop : BOOLEAN, seen : Procs \cup {None}]]
    BY <2>1, <2>2 DEF InstanceType
  <2>4. /\ ctl'[c].seen = stateFile
        /\ ctl'[c].pc = IF stateFile = None THEN "not running" ELSE "request"
        /\ \A d \in Actors : d # c => ctl'[d] = ctl[d]
    BY <2>1 DEF InstanceType
  <2>5. ctl[c].pc = "load" /\ UNCHANGED <<lock, stateFile, proc>>
    BY <1>1 DEF LoadState
  <2>6. InstanceType' /\ Published'
    BY <2>3, <2>5 DEF InstanceType, Published
  <2>7. LockHeld'
    BY <2>4, <2>5 DEF LockHeld, Holds
  <2>8. OneRole'
    BY <2>4, <2>5 DEF OneRole, Actors
  <2>9. HasSeen'
    BY <2>4, <2>5 DEF HasSeen, InstanceType
  <2>10. QED  BY <2>6, <2>7, <2>8, <2>9
<1>2. CASE RequestControl(c)
  <2> DEFINE p == ctl[c].seen
  <2>1. p \in Procs
    BY <1>2 DEF RequestControl, HasSeen
  <2>2. PICK pc \in {"recover", "running", "unverified"} : Moved(pc)
    BY <1>2 DEF RequestControl
  <2>3. CASE UNCHANGED proc
    BY <1>0, <1>2, <2>1, <2>2, <2>3, Places DEF RequestControl
  <2>4. CASE p \in Answers(c) /\ Step(p, "stopping")
    <3>1. proc[p].pc \in Serving
      BY <2>4 DEF Answers
    <3>2. Holds(p)
      BY <3>1 DEF Serving, Holds
    <3>3. lock = p
      BY <2>1, <3>2 DEF LockHeld
    <3>4. /\ ProcTyped' /\ proc'[p].pc = "stopping"
          /\ \A q \in Procs : q # p => proc'[q] = proc[q]
      BY <2>1, <2>4, StepTypes, Places DEF ProcTyped
    <3>5. p # c
      BY <1>2, <2>1, <3>2 DEF OneRole, Holds, RequestControl
    <3>6. /\ ctl' \in [Actors -> [pc : CtlPCs, stop : BOOLEAN, seen : Procs \cup {None}]]
          /\ ctl'[c].pc = pc /\ ctl'[c].seen = ctl[c].seen
          /\ \A d \in Actors : d # c => ctl'[d] = ctl[d]
      BY <2>2, ControlTypes, Places
    <3>7. UNCHANGED <<lock, stateFile>> /\ ctl[c].pc = "request"
      BY <1>2 DEF RequestControl
    <3>8. InstanceType'
      BY <3>4, <3>6, <3>7 DEF InstanceType, ProcTyped
    <3>9. LockHeld'
      BY <2>1, <2>2, <3>3, <3>4, <3>6, <3>7 DEF LockHeld, Holds
    <3>10. OneRole'
      <4>1. ctl[p].pc = "idle"
        BY <2>1, <3>1 DEF OneRole, Serving
      <4>2. QED  BY <2>1, <3>4, <3>5, <3>6, <3>7, <4>1 DEF OneRole, Actors
    <3>11. HasSeen' /\ Published'
      BY <2>1, <3>4, <3>6, <3>7 DEF HasSeen, Published
    <3>12. QED  BY <3>8, <3>9, <3>10, <3>11
  <2>5. QED  BY <1>2, <2>3, <2>4 DEF RequestControl, Step
<1>3. CASE RequestTimesOut(c)
  BY <1>0, <1>3, Places DEF RequestTimesOut, HasSeen
<1>4. CASE RecoverLock(c)
  <2>1. CASE lock # None
    BY <1>0, <1>4, <2>1, Places DEF RecoverLock
  <2>2. CASE lock = None
    <3>1. /\ lock' = c /\ UNCHANGED <<stateFile, proc>> /\ ctl[c].pc = "recover"
          /\ Moved("recovering")
      BY <1>4, <2>2 DEF RecoverLock
    <3>2. /\ ctl' \in [Actors -> [pc : CtlPCs, stop : BOOLEAN, seen : Procs \cup {None}]]
          /\ ctl'[c].pc = "recovering" /\ ctl'[c].seen = ctl[c].seen
          /\ \A d \in Actors : d # c => ctl'[d] = ctl[d]
      BY <3>1, ControlTypes, Places
    <3>3. \A d \in Actors : d # c => ctl[d].pc # "recovering"
      BY <2>2 DEF LockHeld, Actors
    <3>4. \A p \in Procs : ~ Holds(p)
      BY <2>2 DEF LockHeld
    <3>5. QED  BY <3>1, <3>2, <3>3, <3>4 DEF InstanceType, LockHeld, OneRole, HasSeen, Published, Holds, Actors
  <2>3. QED  BY <2>1, <2>2
<1>5. CASE RecoverRemove(c)
  <2>1. /\ lock = c /\ ctl[c].pc = "recovering"
        /\ lock' = None /\ stateFile' \in {stateFile, None} /\ UNCHANGED proc
    BY <1>5 DEF RecoverRemove, LockHeld
  <2>2. PICK pc \in {"not running", "unverified"} : Moved(pc)
    BY <1>5 DEF RecoverRemove
  <2>3. /\ ctl' \in [Actors -> [pc : CtlPCs, stop : BOOLEAN, seen : Procs \cup {None}]]
        /\ ctl'[c].pc = pc /\ ctl'[c].seen = ctl[c].seen
        /\ \A d \in Actors : d # c => ctl'[d] = ctl[d]
    BY <2>2, ControlTypes, Places
  <2>4. \A p \in Procs : ~ Holds(p)
    BY <2>1 DEF LockHeld, OneRole, Holds
  <2>5. \A d \in Actors : d # c => ctl[d].pc # "recovering"
    BY <2>1 DEF LockHeld
  <2>6. QED  BY <2>1, <2>2, <2>3, <2>4, <2>5 DEF InstanceType, LockHeld, OneRole, HasSeen, Published, Holds, Actors
<1>6. ASSUME NEW stop \in BOOLEAN, Ask(c, stop) PROVE InstanceInv'
  <2>1. ctl' = [ctl EXCEPT ![c] = [ctl[c] EXCEPT !.pc = "load", !.stop = stop]]
    BY <1>6 DEF Ask, InstanceType
  <2>2. [ctl[c] EXCEPT !.pc = "load", !.stop = stop] \in [pc : CtlPCs, stop : BOOLEAN, seen : Procs \cup {None}]
    BY Places DEF InstanceType
  <2>3. /\ ctl' \in [Actors -> [pc : CtlPCs, stop : BOOLEAN, seen : Procs \cup {None}]]
        /\ ctl'[c].pc = "load" /\ \A d \in Actors : d # c => ctl'[d] = ctl[d]
    BY <2>1, <2>2 DEF InstanceType
  <2>4. c \notin Procs
    BY <1>6 DEF Ask
  <2>5. QED  BY <1>6, <2>3, <2>4 DEF Ask, InstanceType, LockHeld, OneRole, HasSeen, Published, Holds, Actors
<1>7. QED  BY <1>1, <1>2, <1>3, <1>4, <1>5, <1>6 DEF ControllerMoves, ControlStep

LEMMA InstanceKeeps ==
  ASSUME InstanceInv, installed \in Nat, [Next]_vars
  PROVE  InstanceInv'
<1>1. CASE UNCHANGED instanceVars
  BY <1>1 DEF instanceVars, InstanceInv, InstanceType, LockHeld, OneRole, HasSeen, Published, Holds
<1>2. QED  BY <1>1, InstanceMoves, ProcessKeeps, ControllerKeeps

-----------------------------------------------------------------------------
(* Updates *)

LEMMA UpdateStart == Init => UpdateInv
<1> SUFFICES ASSUME Init PROVE UpdateInv
  OBVIOUS
<1>1. UpdateType
  <2>1. [pc |-> "idle", target |-> 0, before |-> 0, backup |-> 0, result |-> "none"]
          \in [pc : UpdatePCs, target : Nat, before : Nat, backup : Nat, result : Results]
    BY DEF UpdatePCs, Results
  <2>2. update \in [Updaters -> [pc : UpdatePCs, target : Nat, before : Nat, backup : Nat, result : Results]]
    BY <2>1 DEF Init, UpdateInit
  <2>3. installed \in Nat \ {0}
    BY DEF Init, UpdateInit
  <2>4. updateLock \in BOOLEAN
    BY Zenon DEF Init, UpdateInit
  <2>5. QED  BY <2>2, <2>3, <2>4 DEF UpdateType
<1>2. \A u \in Updaters : update[u].pc = "idle" /\ update[u].backup = 0
  BY DEF Init, UpdateInit
<1>3. QED  BY <1>1, <1>2 DEF UpdateInv, OneUpdate, UpdatePlace, Busy

UpdateMoves(u) == UpdateStep(u) \/ UpdateFault(u) \/ \E v \in Versions : BeginUpdate(u, v)

LEMMA UpdatesMove ==
  ASSUME [Next]_vars
  PROVE  (\E u \in Updaters : UpdateMoves(u)) \/ UNCHANGED updateVars
  BY DEF Next, vars, Foreground, Command, Environment, UpdateMoves

UpdateRecord == [pc : UpdatePCs, target : Nat, before : Nat, backup : Nat, result : Results]

\* Where an updater may stand next, with v installed.
GoodPlace(r, v) ==
    /\ r.pc \notin {"idle", "done"} => r.target # 0 /\ r.before # 0
    /\ r.pc \in {"idle", "locked", "fetched"} => r.backup = 0
    /\ r.pc \in {"locked", "fetched", "staged", "scheduled"} => v = r.before
    /\ r.pc = "staged" => r.backup \in {0, r.before}
    /\ r.pc = "replaced" => r.backup = r.before /\ v = r.target

\* An updater that is alone moves to a good place.
LEMMA UpdatePlaced ==
  ASSUME UpdateInv, NEW u \in Updaters, NEW r \in UpdateRecord,
         update' = [update EXCEPT ![u] = r],
         installed' \in Nat \ {0}, updateLock' \in BOOLEAN,
         \/ Busy(u) \/ ~ updateLock
         \/ r.pc = "done" /\ UNCHANGED <<installed, updateLock>>,
         r.pc \notin {"idle", "done"} => updateLock',
         GoodPlace(r, installed')
  PROVE  UpdateInv'
<1> USE DEF UpdateInv
<1>1. UpdateType'
  BY DEF UpdateType, UpdateRecord
<1>2. update'[u] = r /\ \A w \in Updaters : w # u => update'[w] = update[w]
  BY DEF UpdateType
<1>3. CASE Busy(u) \/ ~ updateLock
  <2>1. \A w \in Updaters : w # u => ~ Busy(w)
    BY <1>3 DEF OneUpdate
  <2>2. OneUpdate'
    BY <1>2, <2>1 DEF OneUpdate, Busy
  <2>3. UpdatePlace'
    BY <1>2, <2>1 DEF UpdatePlace, Busy, GoodPlace
  <2>4. QED  BY <1>1, <2>2, <2>3
<1>4. CASE r.pc = "done" /\ UNCHANGED <<installed, updateLock>>
  <2>2. OneUpdate'
    BY <1>2, <1>4 DEF OneUpdate, Busy
  <2>3. UpdatePlace'
    BY <1>2, <1>4 DEF UpdatePlace, Busy, GoodPlace
  <2>4. QED  BY <1>1, <2>2, <2>3
<1>5. QED  BY <1>3, <1>4

LEMMA UpdateMoveKeeps ==
  ASSUME UpdateInv, NEW u \in Updaters, UpdateMoves(u)
  PROVE  UpdateInv'
<1> USE DEF UpdateInv
<1> DEFINE r == update[u]
<1>0. /\ r \in UpdateRecord /\ installed \in Nat \ {0} /\ updateLock \in BOOLEAN
      /\ Busy(u) => updateLock
      /\ GoodPlace(r, installed)
  BY DEF UpdateType, UpdateRecord, UpdatePlace, Busy, GoodPlace, OneUpdate
<1>1. ASSUME NEW v \in Versions, BeginUpdate(u, v) PROVE UpdateInv'
  <2>1. CASE updateLock
    <3> DEFINE n == [r EXCEPT !.pc = "done", !.result = "concurrent"]
    <3>1. update' = [update EXCEPT ![u] = n] /\ UNCHANGED <<installed, updateLock>>
      BY <1>1, <2>1 DEF BeginUpdate, UpdateType
    <3>2. n \in UpdateRecord /\ n.pc = "done"
      BY <1>0 DEF UpdateRecord, UpdatePCs, Results
    <3>3. GoodPlace(n, installed')
      BY <3>2 DEF GoodPlace
    <3> HIDE DEF n
    <3>4. QED  BY <1>0, <3>1, <3>2, <3>3, UpdatePlaced
  <2>2. CASE ~ updateLock
    <3> DEFINE n == [r EXCEPT !.pc = "locked", !.target = v, !.before = installed]
    <3>1. update' = [update EXCEPT ![u] = n] /\ UNCHANGED installed /\ updateLock' = TRUE /\ r.pc = "idle"
      BY <1>1, <2>2 DEF BeginUpdate, UpdateType
    <3>2. n \in UpdateRecord /\ n.pc = "locked" /\ n.backup = r.backup /\ n.target = v /\ n.before = installed
      BY <1>0 DEF UpdateRecord, UpdatePCs, Results
    <3>3. GoodPlace(n, installed')
      BY <1>0, <3>1, <3>2 DEF GoodPlace
    <3> HIDE DEF n
    <3>4. QED  BY <1>0, <2>2, <3>1, <3>2, <3>3, UpdatePlaced
  <2>3. QED  BY <1>0, <2>1, <2>2
\* The other steps are those of an updater that is busy.
<1>2. ASSUME NEW n \in UpdateRecord, update' = [update EXCEPT ![u] = n], Busy(u),
             installed' \in Nat \ {0}, updateLock' \in BOOLEAN,
             n.pc # "done" => UNCHANGED updateLock, GoodPlace(n, installed')
      PROVE  UpdateInv'
  <2>0. updateLock
    BY <1>0, <1>2
  <2>1. n.pc \notin {"idle", "done"} => updateLock'
    BY <1>2, <2>0, Zenon
  <2>2. QED  BY <1>2, <2>1, UpdatePlaced
<1>3. CASE Download(u)
  <2> DEFINE n == [r EXCEPT !.pc = "fetched"]
  <2>1. update' = [update EXCEPT ![u] = n] /\ UNCHANGED installed /\ UNCHANGED updateLock /\ r.pc = "locked"
    BY <1>3 DEF Download, UpdateType
  <2>2. n \in UpdateRecord /\ n.pc = "fetched" /\ n.target = r.target /\ n.before = r.before /\ n.backup = r.backup
    BY <1>0 DEF UpdateRecord, UpdatePCs, Results
  <2>3. GoodPlace(n, installed')
    BY <1>0, <2>1, <2>2 DEF GoodPlace
  <2>4. Busy(u)
    BY <2>1 DEF Busy
  <2> HIDE DEF n
  <2>5. QED  BY <1>0, <1>2, <2>1, <2>2, <2>3, <2>4
<1>4. CASE Stage(u)
  <2> DEFINE n == [r EXCEPT !.pc = "staged"]
  <2>1. update' = [update EXCEPT ![u] = n] /\ UNCHANGED installed /\ UNCHANGED updateLock /\ r.pc = "fetched"
    BY <1>4 DEF Stage, UpdateType
  <2>2. n \in UpdateRecord /\ n.pc = "staged" /\ n.target = r.target /\ n.before = r.before /\ n.backup = r.backup
    BY <1>0 DEF UpdateRecord, UpdatePCs, Results
  <2>3. GoodPlace(n, installed')
    BY <1>0, <2>1, <2>2 DEF GoodPlace
  <2>4. Busy(u)
    BY <2>1 DEF Busy
  <2> HIDE DEF n
  <2>5. QED  BY <1>0, <1>2, <2>1, <2>2, <2>3, <2>4
<1>5. CASE Schedule(u)
  <2> DEFINE n == [r EXCEPT !.pc = "scheduled"]
  <2>1. update' = [update EXCEPT ![u] = n] /\ UNCHANGED installed /\ UNCHANGED updateLock /\ r.pc = "staged"
    BY <1>5 DEF Schedule, UpdateType
  <2>2. n \in UpdateRecord /\ n.pc = "scheduled" /\ n.target = r.target /\ n.before = r.before /\ n.backup = r.backup
    BY <1>0 DEF UpdateRecord, UpdatePCs, Results
  <2>3. GoodPlace(n, installed')
    BY <1>0, <2>1, <2>2 DEF GoodPlace
  <2>4. Busy(u)
    BY <2>1 DEF Busy
  <2> HIDE DEF n
  <2>5. QED  BY <1>0, <1>2, <2>1, <2>2, <2>3, <2>4
<1>6. CASE CopyBackup(u)
  <2> DEFINE n == [r EXCEPT !.backup = installed]
  <2>1. update' = [update EXCEPT ![u] = n] /\ UNCHANGED installed /\ UNCHANGED updateLock /\ r.pc = "staged"
    BY <1>6 DEF CopyBackup, UpdateType
  <2>2. n \in UpdateRecord /\ n.pc = r.pc /\ n.target = r.target /\ n.before = r.before /\ n.backup = installed
    BY <1>0 DEF UpdateRecord, UpdatePCs, Results
  <2>3. GoodPlace(n, installed')
    BY <1>0, <2>1, <2>2 DEF GoodPlace
  <2>4. Busy(u)
    BY <2>1 DEF Busy
  <2> HIDE DEF n
  <2>5. QED  BY <1>0, <1>2, <2>1, <2>2, <2>3, <2>4
<1>7. CASE Replace(u)
  <2> DEFINE n == [r EXCEPT !.pc = "replaced"]
  <2>1. update' = [update EXCEPT ![u] = n] /\ installed' = r.target /\ UNCHANGED updateLock /\ r.pc = "staged" /\ r.backup # 0
    BY <1>7 DEF Replace, UpdateType
  <2>2. n \in UpdateRecord /\ n.pc = "replaced" /\ n.target = r.target /\ n.before = r.before /\ n.backup = r.backup
    BY <1>0 DEF UpdateRecord, UpdatePCs, Results
  <2>3. GoodPlace(n, installed')
    BY <1>0, <2>1, <2>2 DEF GoodPlace
  <2>4. Busy(u)
    BY <2>1 DEF Busy
  <2>5. installed' \in Nat \ {0}
    BY <1>0, <2>1 DEF GoodPlace, UpdateRecord
  <2> HIDE DEF n
  <2>6. QED  BY <1>0, <1>2, <2>1, <2>2, <2>3, <2>4, <2>5
<1>8. CASE VerifyReplacement(u)
  <2> DEFINE n == [r EXCEPT !.pc = "done", !.result = "updated", !.backup = 0]
  <2>1. update' = [update EXCEPT ![u] = n] /\ UNCHANGED installed /\ updateLock' = FALSE /\ r.pc = "replaced"
    BY <1>8 DEF VerifyReplacement, UpdateType, Ends
  <2>2. n \in UpdateRecord /\ n.pc = "done"
    BY <1>0 DEF UpdateRecord, UpdatePCs, Results
  <2>3. GoodPlace(n, installed')
    BY <1>0, <2>1, <2>2 DEF GoodPlace
  <2>4. Busy(u)
    BY <2>1 DEF Busy
  <2> HIDE DEF n
  <2>5. QED  BY <1>0, <1>2, <2>1, <2>2, <2>3, <2>4
<1>9. CASE UpdateFails(u)
  <2> DEFINE n == [r EXCEPT !.pc = "done", !.result = "failed", !.backup = 0]
  <2>1. update' = [update EXCEPT ![u] = n] /\ UNCHANGED installed /\ updateLock' = FALSE /\ r.pc \in {"locked", "fetched", "staged", "scheduled"}
    BY <1>9 DEF UpdateFails, UpdateType, Ends
  <2>2. n \in UpdateRecord /\ n.pc = "done"
    BY <1>0 DEF UpdateRecord, UpdatePCs, Results
  <2>3. GoodPlace(n, installed')
    BY <1>0, <2>1, <2>2 DEF GoodPlace
  <2>4. Busy(u)
    BY <2>1 DEF Busy
  <2> HIDE DEF n
  <2>5. QED  BY <1>0, <1>2, <2>1, <2>2, <2>3, <2>4
<1>10. CASE RollBack(u)
  <2> DEFINE n == [r EXCEPT !.pc = "done", !.result = "rolled back", !.backup = 0]
  <2>1. update' = [update EXCEPT ![u] = n] /\ installed' = r.backup /\ updateLock' = FALSE /\ r.pc = "replaced"
    BY <1>10 DEF RollBack, UpdateType, Ends
  <2>2. n \in UpdateRecord /\ n.pc = "done"
    BY <1>0 DEF UpdateRecord, UpdatePCs, Results
  <2>3. GoodPlace(n, installed')
    BY <1>0, <2>1, <2>2 DEF GoodPlace
  <2>4. Busy(u)
    BY <2>1 DEF Busy
  <2>5. installed' \in Nat \ {0}
    BY <1>0, <2>1 DEF GoodPlace, UpdateRecord
  <2> HIDE DEF n
  <2>6. QED  BY <1>0, <1>2, <2>1, <2>2, <2>3, <2>4, <2>5
<1>11. CASE ReplacementStays(u)
  <2> DEFINE n == [r EXCEPT !.pc = "done", !.result = "stays", !.backup = 0]
  <2>1. update' = [update EXCEPT ![u] = n] /\ UNCHANGED installed /\ updateLock' = FALSE /\ r.pc = "replaced"
    BY <1>11 DEF ReplacementStays, UpdateType, Ends
  <2>2. n \in UpdateRecord /\ n.pc = "done"
    BY <1>0 DEF UpdateRecord, UpdatePCs, Results
  <2>3. GoodPlace(n, installed')
    BY <1>0, <2>1, <2>2 DEF GoodPlace
  <2>4. Busy(u)
    BY <2>1 DEF Busy
  <2> HIDE DEF n
  <2>5. QED  BY <1>0, <1>2, <2>1, <2>2, <2>3, <2>4
<1>12. CASE CrashUpdate(u)
  <2> DEFINE n == [r EXCEPT !.pc = "done", !.result = "crashed"]
  <2>1. update' = [update EXCEPT ![u] = n] /\ UNCHANGED installed /\ UNCHANGED updateLock /\ r.pc \notin {"idle", "done"}
    BY <1>12 DEF CrashUpdate, UpdateType
  <2>2. n \in UpdateRecord /\ n.pc = "done"
    BY <1>0 DEF UpdateRecord, UpdatePCs, Results
  <2>3. GoodPlace(n, installed')
    BY <1>0, <2>1, <2>2 DEF GoodPlace
  <2>4. Busy(u)
    BY <2>1 DEF Busy
  <2> HIDE DEF n
  <2>5. QED  BY <1>0, <1>2, <2>1, <2>2, <2>3, <2>4
<1>13. CASE HelperReplace(u)
  <2> DEFINE n == [r EXCEPT !.pc = "replaced", !.backup = installed]
  <2>1. r.pc = "scheduled"
    BY <1>13 DEF HelperReplace
  <2>2. Busy(u) /\ installed = r.before
    BY <1>0, <2>1 DEF Busy, GoodPlace
  <2>3. update' = [update EXCEPT ![u] = n] /\ installed' = r.target /\ UNCHANGED updateLock
    BY <1>13, <2>2 DEF HelperReplace, UpdateType
  <2>4. n \in UpdateRecord /\ n.pc = "replaced" /\ n.target = r.target /\ n.before = r.before /\ n.backup = installed
    BY <1>0 DEF UpdateRecord, UpdatePCs, Results
  <2>5. GoodPlace(n, installed')
    BY <1>0, <2>1, <2>2, <2>3, <2>4 DEF GoodPlace
  <2>6. installed' \in Nat \ {0}
    BY <1>0, <2>1, <2>3 DEF GoodPlace, UpdateRecord
  <2> HIDE DEF n
  <2>7. QED  BY <1>0, <1>2, <2>2, <2>3, <2>4, <2>5, <2>6
<1>14. QED  BY <1>1, <1>3, <1>4, <1>5, <1>6, <1>7, <1>8, <1>9, <1>10, <1>11, <1>12, <1>13
            DEF UpdateMoves, UpdateStep, UpdateFault

LEMMA UpdateKeeps ==
  ASSUME UpdateInv, [Next]_vars
  PROVE  UpdateInv'
<1>1. CASE UNCHANGED updateVars
  BY <1>1 DEF updateVars, UpdateInv, UpdateType, OneUpdate, UpdatePlace, Busy
<1>2. QED  BY <1>1, UpdatesMove, UpdateMoveKeeps

-----------------------------------------------------------------------------
(* The database *)

\* The steps of a process that leave the database as it is.
QuietProcess(p) ==
    \/ StartProcess(p, installed) \/ ClearStale(p) \/ BindLoopback(p) \/ Serve(p) \/ Publish(p)
    \/ CleanupHTTP(p) \/ CleanupPort(p) \/ CleanupState(p) \/ CleanupLast(p)
    \/ Build(p) \/ Cancel(p)

\* Every step, by what it does to the database.
LEMMA StoreMoves ==
  ASSUME [Next]_vars
  PROVE  \/ (\E p \in Procs : QuietProcess(p)) /\ UNCHANGED storeVars
         \/ (\E c \in Actors : ControllerMoves(c)) /\ UNCHANGED storeVars
         \/ UNCHANGED instanceVars /\ \E p \in Procs : proc[p].pc = "bound" /\ OpenStore(proc[p].version)
         \/ UNCHANGED instanceVars /\ (StoreStep \/ StoreFault)
         \/ CloseStore
         \/ UNCHANGED <<instanceVars, storeVars>>
  BY DEF Next, vars, Foreground, Command, Environment, QuietProcess, ControllerMoves, Actors

LEMMA StoreStart == Init => StoreInv
<1> SUFFICES ASSUME Init PROVE StoreInv
  OBVIOUS
<1>1. StoreType /\ StoreOwned /\ MigrationKnown
  BY DEF Init, StoreInit, Closed, StoreType, StorePCs, StoreOwned, MigrationKnown
<1>2. (\A p \in Procs : ~ Holds(p)) /\ (\A u \in Updaters : ~ Busy(u))
  BY DEF Init, InstanceInit, UpdateInit, Holds, Busy
<1>3. QED  BY <1>1, <1>2 DEF StoreInv, Apart

\* The owner of an open database keeps the lock and its version.
LEMMA OwnerStays ==
  ASSUME InstanceInv, installed \in Nat, lock \in Procs, proc[lock].pc \in Opening,
         \/ \E p \in Procs : QuietProcess(p)
         \/ \E c \in Actors : ControllerMoves(c)
  PROVE  lock' = lock /\ proc'[lock].pc \in Opening /\ proc'[lock].version = proc[lock].version
<1> USE DEF InstanceInv
<1>0. lock # None /\ Holds(lock)
  BY DEF Opening, Holds
<1>1. ASSUME NEW p \in Procs, QuietProcess(p)
      PROVE  lock' = lock /\ proc'[lock].pc \in Opening /\ proc'[lock].version = proc[lock].version
  <2>1. CASE StartProcess(p, installed)
    BY <1>0, <2>1, StartEffect DEF Opening
  <2>2. CASE ~ StartProcess(p, installed)
    <3>1. Holds(p)
      BY <1>1, <2>2, ProcessEffect DEF QuietProcess
    <3>2. p = lock
      BY <3>1 DEF LockHeld
    <3>3. proc[p].pc \notin {"locked", "cleared", "storedown", "portdown", "statedown"}
      BY <3>2 DEF Opening
    <3>4. Serve(p) \/ Publish(p) \/ CleanupHTTP(p) \/ Build(p) \/ Cancel(p)
      BY <1>1, <2>2, <3>3 DEF QuietProcess, ClearStale, BindLoopback, CleanupPort, CleanupState, CleanupLast
    <3>5. lock' = lock /\ \E pc \in {"serving", "ready", "httpdown", "built", "stopping"} : Step(p, pc)
      BY <3>4 DEF Serve, Publish, CleanupHTTP, Build, Cancel
    <3>6. QED  BY <3>2, <3>5, StepTypes, Places DEF Opening
  <2>3. QED  BY <2>1, <2>2
<1>2. ASSUME NEW c \in Actors, ControllerMoves(c)
      PROVE  lock' = lock /\ proc'[lock].pc \in Opening /\ proc'[lock].version = proc[lock].version
  <2>1. CASE LoadState(c) \/ RequestTimesOut(c) \/ \E stop \in BOOLEAN : Ask(c, stop)
    BY <2>1 DEF LoadState, RequestTimesOut, Ask
  <2>2. CASE RequestControl(c)
    <3>1. ctl[c].seen \in Procs /\ lock' = lock
      BY <2>2 DEF RequestControl, HasSeen
    <3>2. UNCHANGED proc \/ Step(ctl[c].seen, "stopping")
      BY <2>2 DEF RequestControl, Step
    <3>3. CASE UNCHANGED proc
      BY <3>1, <3>3
    <3>4. CASE Step(ctl[c].seen, "stopping")
      <4> DEFINE p == ctl[c].seen
      <4>1. "stopping" \in ProcPCs
        BY Places
      <4>2. /\ proc'[p].pc = "stopping" /\ proc'[p].version = proc[p].version
            /\ \A q \in Procs : q # p => proc'[q] = proc[q]
        BY <3>1, <3>4, <4>1, StepTypes
      <4> HIDE DEF p
      <4>3. QED  BY <3>1, <4>2 DEF Opening
    <3>5. QED  BY <3>2, <3>3, <3>4
  <2>3. CASE RecoverLock(c)
    BY <1>0, <2>3 DEF RecoverLock
  <2>4. CASE RecoverRemove(c)
    <3>1. lock = c /\ ctl[c].pc = "recovering"
      BY <2>4 DEF RecoverRemove, LockHeld
    <3>2. QED  BY <3>1 DEF OneRole, Opening
  <2>5. QED  BY <1>2, <2>1, <2>2, <2>3, <2>4 DEF ControllerMoves, ControlStep
<1>3. QED  BY <1>1, <1>2

\* What a step inside an open database does.
LEMMA StoreEffect ==
  ASSUME StoreType, MigrationKnown, StoreStep \/ StoreFault
  PROVE  /\ StoreType' /\ MigrationKnown' /\ open.pc # "closed" /\ open'.known = open.known
         /\ \/ applied' = applied
            \/ /\ open.pc = "apply" /\ applied' = applied + 1 /\ applied' <= open.known
               /\ applied' \in Destructive => applied \in backup
<1>0. open \in [pc : StorePCs, known : Nat] /\ applied \in Nat
  BY DEF StoreType
<1>1. ASSUME NEW pc \in StorePCs, At(pc)
      PROVE  open' \in [pc : StorePCs, known : Nat] /\ open'.pc = pc /\ open'.known = open.known
  BY <1>0, <1>1 DEF At
<1>2. {"refused", "migrate", "apply", "applied", "open"} \subseteq StorePCs
  BY DEF StorePCs
<1>3. CASE BackupBefore
  BY <1>0, <1>1, <1>2, <1>3 DEF BackupBefore, StoreType, MigrationKnown, Next1
<1>4. CASE BackupUnneeded
  BY <1>0, <1>1, <1>2, <1>4 DEF BackupUnneeded, StoreType, MigrationKnown, Next1
<1>5. CASE ApplyOne
  BY <1>0, <1>1, <1>2, <1>5 DEF ApplyOne, StoreType, MigrationKnown, Next1
<1>6. CASE DropBackup
  BY <1>0, <1>1, <1>2, <1>6 DEF DropBackup, StoreType, MigrationKnown
<1>7. CASE Opened
  BY <1>0, <1>1, <1>2, <1>7 DEF Opened, StoreType, MigrationKnown
<1>8. CASE ApplyFails
  BY <1>0, <1>1, <1>2, <1>8 DEF ApplyFails, StoreType, MigrationKnown
<1>9. CASE MaintenanceFails
  BY <1>0, <1>1, <1>2, <1>9 DEF MaintenanceFails, StoreType, MigrationKnown
<1>10. QED  BY <1>3, <1>4, <1>5, <1>6, <1>7, <1>8, <1>9 DEF StoreStep, StoreFault

LEMMA DatabaseKeeps ==
  ASSUME InstanceInv, installed \in Nat, StoreType, StoreOwned, MigrationKnown, [Next]_vars
  PROVE  StoreType' /\ StoreOwned' /\ MigrationKnown'
<1>1. CASE UNCHANGED storeVars
  <2>1. StoreType' /\ MigrationKnown'
    BY <1>1 DEF storeVars, StoreType, MigrationKnown
  <2>2. CASE (\E p \in Procs : QuietProcess(p)) \/ (\E c \in Actors : ControllerMoves(c))
    BY <1>1, <2>1, <2>2, OwnerStays DEF StoreOwned, storeVars
  <2>3. CASE UNCHANGED instanceVars
    BY <1>1, <2>1, <2>3 DEF StoreOwned, storeVars, instanceVars
  <2>4. CASE CloseStore
    BY <2>1, <2>4 DEF CloseStore, Closed, StoreOwned
  <2>5. QED  BY <2>2, <2>3, <2>4, StoreMoves
<1>2. ASSUME NEW p \in Procs, proc[p].pc = "bound", OpenStore(proc[p].version), UNCHANGED instanceVars
      PROVE  StoreType' /\ StoreOwned' /\ MigrationKnown'
  <2>1. lock = p
    BY <1>2 DEF InstanceInv, LockHeld, Holds
  <2>2. proc[p].version \in Nat /\ applied \in Nat
    BY DEF InstanceInv, InstanceType, StoreType
  <2>3. /\ open' = [pc |-> IF applied > proc[p].version THEN "refused" ELSE "migrate", known |-> proc[p].version]
        /\ applied' = applied /\ proc' = proc /\ lock' = lock
    BY <1>2 DEF OpenStore, instanceVars
  <2>4. StoreType'
    BY <2>2, <2>3 DEF StoreType, StorePCs
  <2>5. StoreOwned'
    BY <1>2, <2>1, <2>3 DEF StoreOwned, Opening
  <2>6. MigrationKnown'
    BY <2>2, <2>3 DEF MigrationKnown
  <2>7. QED  BY <2>4, <2>5, <2>6
<1>3. CASE UNCHANGED instanceVars /\ (StoreStep \/ StoreFault)
  BY <1>3, StoreEffect DEF StoreOwned, instanceVars
<1>4. CASE CloseStore
  BY <1>4 DEF CloseStore, Closed, StoreType, StorePCs, StoreOwned, MigrationKnown
<1>5. QED  BY <1>1, <1>2, <1>3, <1>4, StoreMoves

\* A process that is past the lock was so before, or starts while no update runs.
LEMMA ProcessSurvives ==
  ASSUME InstanceInv, installed \in Nat, [Next]_vars, NEW p \in Procs, Holds(p)'
  PROVE  \/ Holds(p) /\ proc'[p].version = proc[p].version
         \/ proc'[p].version = installed /\ ~ Updating /\ UNCHANGED updateVars
<1> USE DEF InstanceInv
<1>1. CASE \E q \in Procs : StartProcess(q, installed) /\ ~ Updating /\ UNCHANGED updateVars
  <2>1. PICK q \in Procs : StartProcess(q, installed) /\ ~ Updating /\ UNCHANGED updateVars
    BY <1>1
  <2>2. CASE q = p
    BY <2>1, <2>2, StartEffect DEF Holds
  <2>3. CASE q # p
    BY <2>1, <2>3, StartEffect DEF Holds
  <2>4. QED  BY <2>2, <2>3
<1>2. ASSUME NEW q \in Procs, ProcessMoves(q), ~ StartProcess(q, installed)
      PROVE  Holds(p) /\ proc'[p].version = proc[p].version
  BY <1>2, ProcessEffect DEF ProcessMoves, Holds
<1>3. ASSUME NEW c \in Actors, ControllerMoves(c)
      PROVE  Holds(p) /\ proc'[p].version = proc[p].version
  <2>1. CASE RequestControl(c)
    <3>1. ctl[c].seen \in Procs
      BY <2>1 DEF RequestControl, HasSeen
    <3>2. UNCHANGED proc \/ (proc[ctl[c].seen].pc \in Serving /\ Step(ctl[c].seen, "stopping"))
      BY <2>1 DEF RequestControl, Step, Answers
    <3>3. CASE UNCHANGED proc
      BY <3>3 DEF Holds
    <3>4. CASE proc[ctl[c].seen].pc \in Serving /\ Step(ctl[c].seen, "stopping")
      <4> DEFINE q == ctl[c].seen
      <4>1. "stopping" \in ProcPCs
        BY Places
      <4>2. /\ proc'[q].version = proc[q].version
            /\ \A x \in Procs : x # q => proc'[x] = proc[x]
        BY <3>1, <3>4, <4>1, StepTypes
      <4>3. Holds(q)
        BY <3>4 DEF Holds, Serving
      <4> HIDE DEF q
      <4>4. QED  BY <3>1, <4>2, <4>3 DEF Holds
    <3>5. QED  BY <3>2, <3>3, <3>4
  <2>2. CASE UNCHANGED proc
    BY <2>2 DEF Holds
  <2>3. QED  BY <1>3, <2>1, <2>2 DEF ControllerMoves, ControlStep, LoadState, RequestTimesOut, Ask, RecoverLock, RecoverRemove
<1>4. CASE UNCHANGED instanceVars
  BY <1>4, Zenon DEF instanceVars, Holds
<1>5. \/ \E q \in Procs : StartProcess(q, installed) /\ ~ Updating /\ UNCHANGED updateVars
      \/ \E q \in Procs : ProcessMoves(q) /\ ~ StartProcess(q, installed)
      \/ \E c \in Actors : ControllerMoves(c)
      \/ UNCHANGED instanceVars
  BY ZenonT(60) DEF Next, vars, Foreground, Command, Environment, ProcessMoves, ControllerMoves, Actors,
         StartProcess, ClearStale, BindLoopback, Serve, Publish, CleanupHTTP, CleanupPort, CleanupState,
         CleanupLast, Build, Cancel, CleanupStore, CrashProcess, Holds
<1>6. QED  BY <1>1, <1>2, <1>3, <1>4, <1>5

\* An update moves only while no process is past the lock.
LEMMA UpdateAlone ==
  ASSUME Apart, [Next]_vars
  PROVE  \/ UNCHANGED updateVars
         \/ UNCHANGED instanceVars /\ UNCHANGED storeVars /\ \A p \in Procs : ~ Holds(p)
<1>1. ASSUME NEW u \in Updaters, UpdateStep(u) \/ UpdateFault(u)
      PROVE  \A p \in Procs : ~ Holds(p)
  <2>1. Busy(u)
    BY <1>1 DEF UpdateStep, UpdateFault, Busy, Download, Stage, Schedule, CopyBackup, Replace, HelperReplace,
                VerifyReplacement, UpdateFails, RollBack, ReplacementStays, CrashUpdate
  <2>2. QED  BY <2>1 DEF Apart
<1>2. \/ UNCHANGED updateVars
      \/ /\ UNCHANGED instanceVars /\ UNCHANGED storeVars
         /\ \/ \E u \in Updaters : UpdateStep(u) \/ UpdateFault(u)
            \/ \A p \in Procs : ~ Holds(p)
  BY DEF Next, vars, Foreground, Command, Environment
<1>3. QED  BY <1>1, <1>2

LEMMA ApartKeeps ==
  ASSUME InstanceInv, UpdateInv, Apart, [Next]_vars
  PROVE  Apart'
<1>0. installed \in Nat
  BY DEF UpdateInv, UpdateType
<1>1. CASE UNCHANGED updateVars
  <2>1. UNCHANGED installed /\ \A u \in Updaters : Busy(u)' <=> Busy(u)
    BY <1>1 DEF updateVars, Busy
  <2>2. Updating <=> \E u \in Updaters : Busy(u)
    BY DEF Updating, Busy
  <2>3. ASSUME NEW p \in Procs, Holds(p)'
        PROVE  proc'[p].version = installed' /\ \A u \in Updaters : ~ Busy(u)'
    BY <1>0, <2>1, <2>2, <2>3, ProcessSurvives DEF Apart
  <2>4. QED  BY <2>3 DEF Apart
<1>2. CASE UNCHANGED instanceVars /\ \A p \in Procs : ~ Holds(p)
  BY <1>2 DEF Apart, Holds, instanceVars
<1>3. QED  BY <1>1, <1>2, UpdateAlone

-----------------------------------------------------------------------------
(* The theorems *)

LifecycleInv == InstanceInv /\ UpdateInv /\ StoreInv

\* The invariant of an installation: one holder of the lock, one update, one
\* open database, in the process that holds the lock (RunForeground, Update,
\* sqlite.Open).
THEOREM LifecycleHolds == Spec => []LifecycleInv
<1>1. Init => LifecycleInv
  BY InstanceStart, UpdateStart, StoreStart DEF LifecycleInv
<1>2. LifecycleInv /\ [Next]_vars => LifecycleInv'
  <2> SUFFICES ASSUME LifecycleInv, [Next]_vars PROVE LifecycleInv'
    OBVIOUS
  <2>0. installed \in Nat
    BY DEF LifecycleInv, UpdateInv, UpdateType
  <2>1. InstanceInv'
    BY <2>0, InstanceKeeps DEF LifecycleInv
  <2>2. UpdateInv'
    BY UpdateKeeps DEF LifecycleInv
  <2>3. StoreInv'
    BY <2>0, DatabaseKeeps, ApartKeeps DEF LifecycleInv, StoreInv
  <2>4. QED  BY <2>1, <2>2, <2>3 DEF LifecycleInv
<1>3. QED  BY <1>1, <1>2, PTL DEF Spec

\* What the steps of a process do to the controllers' picture.
LEMMA ProcessTruthful ==
  ASSUME InstanceInv, installed \in Nat, NEW p \in Procs, ProcessMoves(p), NEW c \in Actors
  PROVE  /\ ctl[c].pc = "request" => ctl'[c].pc = "request"
         /\ ctl[c].pc = "recovering" => stateFile' = stateFile
<1> USE DEF InstanceInv
<1>1. CASE StartProcess(p, installed)
  <2>1. p \in Actors /\ ctl[p].pc = "idle"
    BY <1>1, StartEffect DEF OneRole, Actors
  <2>2. QED  BY <1>1, <2>1, StartEffect, ControlTypes, Places
<1>2. CASE ~ StartProcess(p, installed)
  <2>1. Holds(p) /\ UNCHANGED ctl
    BY <1>2, ProcessEffect DEF ProcessMoves
  <2>2. lock = p /\ ctl[p].pc = "idle"
    BY <2>1 DEF LockHeld, OneRole, Holds
  <2>3. ctl[c].pc # "recovering"
    BY <2>2 DEF LockHeld
  <2>4. QED  BY <2>1, <2>3
<1>3. QED  BY <1>1, <1>2

\* What a controller's step does to the picture of another, and its own.
LEMMA ControllerTruthful ==
  ASSUME InstanceInv, NEW d \in Actors, ControllerMoves(d), NEW c \in Actors
  PROVE  /\ ctl[c].pc = "request" /\ ctl'[c].pc = "running" => proc[ctl[c].seen].pc \in Serving
         /\ ctl[c].pc = "recovering" /\ stateFile' # stateFile => proc[stateFile].pc \notin Serving
         /\ \A p \in Procs : p # ctl[c].seen /\ ctl[c].pc = "request" /\ ctl'[c].pc # "request"
                                => proc'[p].pc = proc[p].pc
<1> USE DEF InstanceInv
<1>1. CASE LoadState(d) \/ RecoverLock(d) \/ \E stop \in BOOLEAN : Ask(d, stop)
  <2>1. UNCHANGED <<stateFile, proc>> /\ ctl[d].pc # "request" /\ \A e \in Actors : e # d => ctl'[e] = ctl[e]
    BY <1>1 DEF LoadState, RecoverLock, Ask, InstanceType
  <2>2. QED  BY <2>1
<1>2. CASE RequestTimesOut(d)
  BY <1>2, ControlTypes, Places, ZenonT(60) DEF RequestTimesOut
<1>3. CASE RequestControl(d)
  <2>1. /\ UNCHANGED stateFile /\ ctl[d].pc = "request" /\ ctl[d].seen \in Procs
        /\ \A e \in Actors : e # d => ctl'[e] = ctl[e]
    BY <1>3 DEF RequestControl, InstanceType, HasSeen
  <2>2. ctl'[d].pc = "running" => proc[ctl[d].seen].pc \in Serving
    BY <1>3 DEF RequestControl, InstanceType, Answers
  <2>3. \A p \in Procs : p # ctl[d].seen => proc'[p] = proc[p]
    BY <1>3, <2>1 DEF RequestControl, InstanceType
  <2>4. QED  BY <2>1, <2>2, <2>3
<1>4. CASE RecoverRemove(d)
  <2>1. /\ lock = d /\ ctl[d].pc = "recovering" /\ UNCHANGED proc
        /\ stateFile' # stateFile => stateFile = ctl[d].seen
        /\ \A e \in Actors : e # d => ctl'[e] = ctl[e]
    BY <1>4 DEF RecoverRemove, LockHeld, InstanceType
  <2>2. \A p \in Procs : ~ Holds(p)
    BY <2>1 DEF LockHeld, OneRole, Holds
  <2>3. ctl[d].seen \in Procs
    BY <2>1 DEF HasSeen
  <2>4. QED  BY <2>1, <2>2, <2>3 DEF Holds, Serving
<1>5. QED  BY <1>1, <1>2, <1>3, <1>4 DEF ControllerMoves, ControlStep

\* Instances and controllers keep a true picture: a published instance's file
\* and lock stay its own until it cleans up (WriteInstanceStateAtomic,
\* recoverStaleState), and a controller says "running" of, stops and removes
\* the file of nobody but the process it read of (requestControl).
THEOREM InstancesTruthful == Spec => InstanceTruthful
<1>1. LifecycleInv => LiveStateKept
  BY DEF LifecycleInv, InstanceInv, LiveStateKept, Published, LockHeld, Holds
<1>2. LifecycleInv /\ [Next]_vars =>
        [\A c \in Actors :
           /\ ctl[c].pc = "request" /\ ctl'[c].pc = "running" => proc[ctl[c].seen].pc \in Serving
           /\ ctl[c].pc = "recovering" /\ stateFile' # stateFile =>
                  proc[stateFile].pc \notin Serving
           /\ \A p \in Procs : (p # ctl[c].seen /\ ctl[c].pc = "request" /\ ctl'[c].pc # "request")
                                  => proc'[p].pc = proc[p].pc]_instanceVars
  <2> SUFFICES ASSUME LifecycleInv, [Next]_vars, ~ UNCHANGED instanceVars, NEW c \in Actors
               PROVE  /\ ctl[c].pc = "request" /\ ctl'[c].pc = "running" => proc[ctl[c].seen].pc \in Serving
                      /\ ctl[c].pc = "recovering" /\ stateFile' # stateFile =>
                             proc[stateFile].pc \notin Serving
                      /\ \A p \in Procs : (p # ctl[c].seen /\ ctl[c].pc = "request" /\ ctl'[c].pc # "request")
                                             => proc'[p].pc = proc[p].pc
    OBVIOUS
  <2>1. InstanceInv /\ installed \in Nat
    BY DEF LifecycleInv, UpdateInv, UpdateType
  <2>2. CASE \E p \in Procs : ProcessMoves(p)
    BY <2>1, <2>2, ProcessTruthful
  <2>3. CASE \E d \in Actors : ControllerMoves(d)
    BY <2>1, <2>3, ControllerTruthful
  <2>4. QED  BY <2>2, <2>3, InstanceMoves
<1>3. QED  BY <1>1, <1>2, LifecycleHolds, PTL DEF Spec, InstanceTruthful, ControllersTruthful

-----------------------------------------------------------------------------

\* Outcome of an update's step, as AllOrNothing asks.
Kept(u) ==
    update'[u].result # update[u].result =>
        CASE update'[u].result = "updated" -> installed' = update[u].target
          [] update'[u].result \in {"failed", "rolled back"} -> installed' = update[u].before
          [] OTHER -> installed' = installed

LEMMA UpdateOutcome ==
  ASSUME UpdateInv, NEW u \in Updaters, UpdateMoves(u), NEW w \in Updaters
  PROVE  Kept(w)
<1> USE DEF UpdateInv
<1> DEFINE r == update[u]
<1>0. update \in [Updaters -> UpdateRecord]
  BY DEF UpdateType, UpdateRecord
<1>a. r \in UpdateRecord
  BY <1>0
<1>1. ASSUME NEW n, update' = [update EXCEPT ![u] = n],
             \/ n.result = r.result
             \/ n.result = "updated" /\ installed' = r.target
             \/ n.result \in {"failed", "rolled back"} /\ installed' = r.before
             \/ n.result \in {"concurrent", "stays", "crashed"} /\ installed' = installed
      PROVE  Kept(w)
  BY <1>0, <1>1 DEF Kept
<1>2. ASSUME NEW result, update' = [update EXCEPT ![u].pc = "done", ![u].result = result, ![u].backup = 0]
      PROVE  /\ update' = [update EXCEPT ![u] = [r EXCEPT !.pc = "done", !.result = result, !.backup = 0]]
             /\ [r EXCEPT !.pc = "done", !.result = result, !.backup = 0].result = result
  BY <1>0, <1>a, <1>2 DEF UpdateRecord
<1>3. ASSUME NEW v \in Versions, BeginUpdate(u, v) PROVE Kept(w)
  <2>1. CASE updateLock
    <3> DEFINE n == [r EXCEPT !.pc = "done", !.result = "concurrent"]
    <3>1. update' = [update EXCEPT ![u] = n] /\ installed' = installed /\ n.result = "concurrent"
      BY <1>0, <1>a, <1>3, <2>1 DEF BeginUpdate, UpdateRecord
    <3>2. QED  BY <1>1, <3>1
  <2>2. CASE ~ updateLock
    <3> DEFINE n == [r EXCEPT !.pc = "locked", !.target = v, !.before = installed]
    <3>1. update' = [update EXCEPT ![u] = n] /\ n.result = r.result
      BY <1>0, <1>a, <1>3, <2>2 DEF BeginUpdate, UpdateRecord
    <3>2. QED  BY <1>1, <3>1
  <2>3. QED  BY <2>1, <2>2 DEF UpdateType
<1>4. CASE Download(u) \/ Stage(u) \/ Schedule(u) \/ Replace(u)
  <2>1. PICK pc \in UpdatePCs : update' = [update EXCEPT ![u] = [r EXCEPT !.pc = pc]]
    BY <1>0, <1>4 DEF Download, Stage, Schedule, Replace, UpdatePCs
  <2>2. [r EXCEPT !.pc = pc].result = r.result
    BY <1>a DEF UpdateRecord
  <2>3. QED  BY <1>1, <2>1, <2>2
<1>5. CASE CopyBackup(u)
  <2>1. update' = [update EXCEPT ![u] = [r EXCEPT !.backup = installed]]
    BY <1>0, <1>5 DEF CopyBackup
  <2>2. [r EXCEPT !.backup = installed].result = r.result
    BY <1>a DEF UpdateRecord
  <2>3. QED  BY <1>1, <2>1, <2>2
<1>6. CASE HelperReplace(u)
  <2>1. installed = r.before
    BY <1>6 DEF HelperReplace, UpdatePlace
  <2>2. update' = [update EXCEPT ![u] = [r EXCEPT !.pc = "replaced", !.backup = installed]]
    BY <1>0, <1>6, <2>1 DEF HelperReplace
  <2>3. [r EXCEPT !.pc = "replaced", !.backup = installed].result = r.result
    BY <1>a DEF UpdateRecord
  <2>4. QED  BY <1>1, <2>2, <2>3
<1>7. CASE VerifyReplacement(u)
  <2>1. installed' = r.target
    BY <1>7 DEF VerifyReplacement, UpdatePlace
  <2>2. QED  BY <1>1, <1>2, <1>7, <2>1 DEF VerifyReplacement, Ends
<1>8. CASE UpdateFails(u)
  <2>1. installed' = r.before
    BY <1>8 DEF UpdateFails, UpdatePlace
  <2>2. QED  BY <1>1, <1>2, <1>8, <2>1 DEF UpdateFails, Ends
<1>9. CASE RollBack(u)
  <2>1. installed' = r.before
    BY <1>9 DEF RollBack, UpdatePlace
  <2>2. QED  BY <1>1, <1>2, <1>9, <2>1 DEF RollBack, Ends
<1>10. CASE ReplacementStays(u)
  BY <1>1, <1>2, <1>10 DEF ReplacementStays, Ends
<1>11. CASE CrashUpdate(u)
  <2> DEFINE n == [r EXCEPT !.pc = "done", !.result = "crashed"]
  <2>1. update' = [update EXCEPT ![u] = n] /\ installed' = installed /\ n.result = "crashed"
    BY <1>0, <1>a, <1>11 DEF CrashUpdate, UpdateRecord
  <2>2. QED  BY <1>1, <2>1
<1>12. QED  BY <1>3, <1>4, <1>5, <1>6, <1>7, <1>8, <1>9, <1>10, <1>11 DEF UpdateMoves, UpdateStep, UpdateFault

\* An update replaces all or nothing: success leaves its version, failure,
\* refusal and rollback what was there before (installPlatform, the Windows
\* helper), with any number of updates racing for the lock file.
THEOREM UpdatesAllOrNothing == Spec => AllOrNothing
<1>1. LifecycleInv /\ [Next]_vars =>
        [\A u \in Updaters :
           update'[u].result # update[u].result =>
              CASE update'[u].result = "updated" -> installed' = update[u].target
                [] update'[u].result \in {"failed", "rolled back"} -> installed' = update[u].before
                [] OTHER -> installed' = installed]_updateVars
  BY UpdatesMove, UpdateOutcome DEF Kept, LifecycleInv
<1>2. QED  BY <1>1, LifecycleHolds, PTL DEF Spec, AllOrNothing

-----------------------------------------------------------------------------

\* An update that goes up: Update accepts an explicit older version too, and
\* that one can leave the installed binary behind the database.
NewerOnly ==
    \A u \in Updaters : update[u].pc = "idle" /\ update'[u].pc = "locked" => update'[u].target > installed

\* What is installed next is what was, what the update brings or what it keeps.
LEMMA InstalledNext ==
  ASSUME UpdateInv, NotBehind, applied \in Nat, NewerOnly, NEW u \in Updaters, UpdateMoves(u), applied' = applied
  PROVE  NotBehind'
<1> USE DEF UpdateInv
<1> DEFINE r == update[u]
<1>0. update \in [Updaters -> UpdateRecord] /\ r \in UpdateRecord /\ installed \in Nat
  BY DEF UpdateType, UpdateRecord
<1>1. ASSUME NEW n, update' = [update EXCEPT ![u] = n],
             installed' \in {installed, r.target, r.before}, installed' = installed \/ Busy(u),
             n.pc = "done" \/ (Busy(u) /\ n.target = r.target /\ n.before = r.before)
      PROVE  NotBehind'
  <2>1. update'[u] = n /\ \A w \in Updaters : w # u => update'[w] = update[w]
    BY <1>0, <1>1
  <2>2. (applied <= installed)'
    BY <1>1 DEF NotBehind
  <2>3. QED  BY <1>1, <2>1, <2>2 DEF NotBehind, Busy
<1>2. ASSUME NEW result, Ends(u, result)
      PROVE  /\ update' = [update EXCEPT ![u] = [r EXCEPT !.pc = "done", !.result = result, !.backup = 0]]
             /\ [r EXCEPT !.pc = "done", !.result = result, !.backup = 0].pc = "done"
  BY <1>0, <1>2 DEF UpdateRecord, Ends
<1>3. ASSUME NEW v \in Versions, BeginUpdate(u, v) PROVE NotBehind'
  <2>1. CASE updateLock
    <3> DEFINE n == [r EXCEPT !.pc = "done", !.result = "concurrent"]
    <3>1. update' = [update EXCEPT ![u] = n] /\ installed' = installed /\ n.pc = "done"
      BY <1>0, <1>3, <2>1 DEF BeginUpdate, UpdateRecord
    <3>2. QED  BY <1>1, <3>1
  <2>2. CASE ~ updateLock
    <3> DEFINE n == [r EXCEPT !.pc = "locked", !.target = v, !.before = installed]
    <3>1. /\ update' = [update EXCEPT ![u] = n] /\ installed' = installed /\ r.pc = "idle"
          /\ n.pc = "locked" /\ n.target = v /\ n.before = installed
      BY <1>0, <1>3, <2>2 DEF BeginUpdate, UpdateRecord
    <3>2. update'[u] = n /\ \A w \in Updaters : w # u => update'[w] = update[w]
      BY <1>0, <3>1
    <3> HIDE DEF n
    <3>3. v > installed
      <4>1. update[u].pc = "idle" /\ update'[u].pc = "locked" /\ update'[u].target = v
        BY <3>1, <3>2
      <4>2. QED  BY <4>1 DEF NewerOnly
    <3>4. v \in Nat /\ applied <= v
      BY <1>0, <3>3 DEF NotBehind
    <3>5. QED  BY <3>1, <3>2, <3>4 DEF NotBehind, Busy
  <2>3. QED  BY <2>1, <2>2 DEF UpdateType
<1>4. CASE Download(u) \/ Stage(u) \/ Schedule(u)
  <2>1. PICK pc \in UpdatePCs : update' = [update EXCEPT ![u] = [r EXCEPT !.pc = pc]]
    BY <1>0, <1>4 DEF Download, Stage, Schedule, UpdatePCs
  <2>2. [r EXCEPT !.pc = pc].target = r.target /\ [r EXCEPT !.pc = pc].before = r.before
    BY <1>0 DEF UpdateRecord
  <2>3. installed' = installed /\ Busy(u)
    BY <1>4 DEF Download, Stage, Schedule, Busy
  <2>4. QED  BY <1>1, <2>1, <2>2, <2>3
<1>5. CASE CopyBackup(u)
  <2> DEFINE n == [r EXCEPT !.backup = installed]
  <2>1. update' = [update EXCEPT ![u] = n] /\ n.target = r.target /\ n.before = r.before
    BY <1>0, <1>5 DEF CopyBackup, UpdateRecord
  <2>2. installed' = installed /\ Busy(u)
    BY <1>5 DEF CopyBackup, Busy
  <2>3. QED  BY <1>1, <2>1, <2>2
<1>6. CASE HelperReplace(u)
  <2> DEFINE n == [r EXCEPT !.pc = "replaced", !.backup = installed]
  <2>1. installed = r.before /\ Busy(u)
    BY <1>6 DEF HelperReplace, UpdatePlace, Busy
  <2>2. update' = [update EXCEPT ![u] = n] /\ n.target = r.target /\ n.before = r.before /\ installed' = r.target
    BY <1>0, <1>6, <2>1 DEF HelperReplace, UpdateRecord
  <2>3. QED  BY <1>1, <2>1, <2>2
<1>7. CASE Replace(u)
  <2> DEFINE n == [r EXCEPT !.pc = "replaced"]
  <2>1. update' = [update EXCEPT ![u] = n] /\ n.target = r.target /\ n.before = r.before
    BY <1>0, <1>7 DEF Replace, UpdateRecord
  <2>2. installed' = r.target /\ Busy(u)
    BY <1>7 DEF Replace, Busy
  <2>3. QED  BY <1>1, <2>1, <2>2
<1>8. CASE VerifyReplacement(u) \/ UpdateFails(u) \/ ReplacementStays(u)
  <2>1. installed' = installed /\ \E result \in Results : Ends(u, result)
    BY <1>8 DEF VerifyReplacement, UpdateFails, ReplacementStays, Results
  <2>2. QED  BY <1>1, <1>2, <2>1
<1>9. CASE RollBack(u)
  <2>1. installed' = r.before /\ Busy(u) /\ Ends(u, "rolled back")
    BY <1>9 DEF RollBack, UpdatePlace, Busy
  <2>2. QED  BY <1>1, <1>2, <2>1
<1>10. CASE CrashUpdate(u)
  <2> DEFINE n == [r EXCEPT !.pc = "done", !.result = "crashed"]
  <2>1. update' = [update EXCEPT ![u] = n] /\ installed' = installed /\ n.pc = "done"
    BY <1>0, <1>10 DEF CrashUpdate, UpdateRecord
  <2>2. QED  BY <1>1, <2>1
<1>11. QED  BY <1>3, <1>4, <1>5, <1>6, <1>7, <1>8, <1>9, <1>10 DEF UpdateMoves, UpdateStep, UpdateFault

\* The database moves on only inside a process that knows the migration, over
\* a backup if the migration is destructive.
LEMMA AppliedNext ==
  ASSUME LifecycleInv, [Next]_vars
  PROVE  \/ applied' = applied
         \/ /\ applied' <= installed /\ UNCHANGED updateVars /\ (\A u \in Updaters : ~ Busy(u))
            /\ applied' \in Destructive => applied \in backup
<1> USE DEF LifecycleInv, StoreInv
<1>1. CASE UNCHANGED instanceVars /\ (StoreStep \/ StoreFault)
  <2>1. open.pc # "closed"
    BY <1>1, StoreEffect
  <2>2. lock \in Procs /\ Holds(lock) /\ proc[lock].version = open.known
    BY <2>1 DEF StoreOwned, Opening, Holds
  <2>3. open.known = installed /\ \A u \in Updaters : ~ Busy(u)
    BY <2>2 DEF Apart
  <2>4. CASE applied' # applied
    <3>1. UNCHANGED updateVars
      BY <2>2, UpdateAlone
    <3>2. QED  BY <1>1, <2>3, <2>4, <3>1, StoreEffect
  <2>5. QED  BY <2>4
<1>2. QED  BY <1>1, StoreMoves DEF storeVars, OpenStore, CloseStore

LEMMA NotBehindKeeps ==
  ASSUME LifecycleInv, NotBehind, [NewerOnly]_vars, [Next]_vars
  PROVE  NotBehind'
<1>0. UpdateInv /\ applied \in Nat
  BY DEF LifecycleInv, StoreInv, StoreType
<1>1. CASE applied' # applied
  BY <1>1, AppliedNext DEF NotBehind, updateVars, Busy
<1>2. CASE UNCHANGED <<applied, updateVars>>
  BY <1>2 DEF NotBehind, updateVars, Busy
<1>3. CASE applied' = applied /\ ~ UNCHANGED updateVars
  <2>1. NewerOnly
    BY <1>3 DEF vars, updateVars
  <2>2. QED  BY <1>0, <1>3, <2>1, UpdatesMove, InstalledNext
<1>4. QED  BY <1>1, <1>2, <1>3

\* The database stays usable: if updates only go up, no update, failure, crash
\* or rollback leaves the installed binary behind the migrations (ApplyMigrations
\* would refuse them), one process has the database open, and a destructive
\* migration is committed only over a backup (temporaryBackupLocked).
THEOREM DatabaseStaysSafe == Spec /\ [][NewerOnly]_vars => DatabaseSafe
<1>1. Init => NotBehind
  BY DEF Init, StoreInit, UpdateInit, NotBehind, Busy
<1>2. LifecycleInv /\ NotBehind /\ [NewerOnly]_vars /\ [Next]_vars => NotBehind'
  BY NotBehindKeeps
<1>3. LifecycleInv /\ NotBehind => DatabaseOpens
  BY DEF LifecycleInv, StoreInv, StoreOwned, NotBehind, DatabaseOpens, Opening, Bound
<1>4. LifecycleInv /\ [Next]_vars => [applied' # applied /\ applied' \in Destructive => applied \in backup]_vars
  BY AppliedNext
<1>5. QED  BY <1>1, <1>2, <1>3, <1>4, LifecycleHolds, PTL DEF Spec, DatabaseSafe, BackedUp

\* Also when an update goes down, a destructive migration is committed only
\* over a backup of what it replaces (temporaryBackupLocked before applyOne).
THEOREM MigrationsBackedUp == Spec => BackedUp
<1>1. LifecycleInv /\ [Next]_vars => [applied' # applied /\ applied' \in Destructive => applied \in backup]_vars
  BY AppliedNext
<1>2. QED  BY <1>1, LifecycleHolds, PTL DEF Spec, BackedUp
=============================================================================
