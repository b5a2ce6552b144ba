-------------------------------- MODULE Instance --------------------------------
(***************************************************************************)
(* The local process: internal/runtime.  A process takes the instance lock,  *)
(* drops a stale instance.json, binds a port, builds its service, serves,    *)
(* proves itself healthy, publishes instance.json and later cleans up in     *)
(* reverse.  Controllers (kubePeep status and stop, and a start that finds   *)
(* the lock held) read instance.json, ask the process behind its port for    *)
(* its identity, and drop the file when its owner is provably gone.          *)
(*                                                                          *)
(* A process runs once; its name stands for its instance id, fingerprint and *)
(* control token.  The operating system releases the lock and the port of a  *)
(* process that crashes.  The actions leave the variables of other modules   *)
(* to the module that composes them.                                         *)
(***************************************************************************)
EXTENDS Integers, FiniteSets, FiniteSetsExt

CONSTANTS
    Procs, Controllers, None,
    Ports        \* the range tried by BindLoopback

ASSUME InstanceAssumption ==
    /\ Procs \cap Controllers = {}
    /\ None \notin Procs \cup Controllers

VARIABLES
    lock,        \* who holds kubePeep.lock
    stateFile,   \* the process instance.json names
    proc,        \* the processes
    ctl          \* the controllers, and the starts that found the lock held

instanceVars == <<lock, stateFile, proc, ctl>>

Actors == Procs \cup Controllers

InstanceInit ==
    /\ lock = None /\ stateFile = None
    /\ proc = [p \in Procs |-> [pc |-> "idle", port |-> 0, version |-> 0]]
    /\ ctl = [c \in Actors |-> [pc |-> "idle", stop |-> FALSE, seen |-> None]]

\* A process that has its listener, and one whose HTTP server answers.
Bound   == {"bound", "built", "serving", "ready", "stopping", "httpdown", "storedown"}
Serving == {"serving", "ready", "stopping"}

Holds(p) == proc[p].pc \notin {"idle", "refused", "gone"}

Step(p, pc) == proc' = [proc EXCEPT ![p].pc = pc]

-----------------------------------------------------------------------------
(* RunForeground *)

\* AcquireFileLock, by a process that runs the given version; when the lock is
\* held the start becomes a status request.
StartProcess(p, version) ==
    /\ proc[p].pc = "idle"
    /\ IF lock = None
       THEN /\ lock' = p
            /\ proc' = [proc EXCEPT ![p].pc = "locked", ![p].version = version]
            /\ UNCHANGED ctl
       ELSE /\ Step(p, "refused")
            /\ ctl' = [ctl EXCEPT ![p].pc = "load"]
            /\ UNCHANGED lock
    /\ UNCHANGED stateFile

\* Holding the lock proves that instance.json is stale.
ClearStale(p) ==
    /\ proc[p].pc = "locked"
    /\ stateFile' = None
    /\ Step(p, "cleared")
    /\ UNCHANGED <<lock, ctl>>

FreePorts == Ports \ {proc[q].port : q \in {r \in Procs : proc[r].pc \in Bound}}

\* BindLoopback takes the first free port; without one the start fails.
BindLoopback(p) ==
    /\ proc[p].pc = "cleared"
    /\ proc' = [proc EXCEPT ![p] = IF FreePorts = {} THEN [@ EXCEPT !.pc = "portdown"]
                                   ELSE [@ EXCEPT !.pc = "bound", !.port = Min(FreePorts)]]
    /\ UNCHANGED <<lock, stateFile, ctl>>

\* The service is built: the composing module opens the database.
Build(p) == proc[p].pc = "bound" /\ Step(p, "built") /\ UNCHANGED <<lock, stateFile, ctl>>

\* server.Serve, and waitForHealth.
Serve(p) == proc[p].pc = "built" /\ Step(p, "serving") /\ UNCHANGED <<lock, stateFile, ctl>>

\* WriteInstanceStateAtomic: a private temporary, renamed over instance.json.
Publish(p) ==
    /\ proc[p].pc = "serving"
    /\ stateFile' = p
    /\ Step(p, "ready")
    /\ UNCHANGED <<lock, ctl>>

\* A signal, an unhealthy or failing server, or a build that failed.
Cancel(p) ==
    /\ proc[p].pc \in {"bound", "built", "serving", "ready"}
    /\ Step(p, "stopping")
    /\ UNCHANGED <<lock, stateFile, ctl>>

\* CleanupRegistry.Run, in reverse order of acquisition: the streams and the
\* HTTP server, the database, the listener.
CleanupHTTP(p)  == proc[p].pc = "stopping" /\ Step(p, "httpdown") /\ UNCHANGED <<lock, stateFile, ctl>>
CleanupStore(p) == proc[p].pc = "httpdown" /\ Step(p, "storedown") /\ UNCHANGED <<lock, stateFile, ctl>>
CleanupPort(p)  == proc[p].pc = "storedown" /\ Step(p, "portdown") /\ UNCHANGED <<lock, stateFile, ctl>>

\* RemoveInstanceState, then the lock.
CleanupState(p) ==
    /\ proc[p].pc = "portdown"
    /\ stateFile' = None
    /\ Step(p, "statedown")
    /\ UNCHANGED <<lock, ctl>>

CleanupLast(p) ==
    /\ proc[p].pc = "statedown"
    /\ lock' = None
    /\ Step(p, "gone")
    /\ UNCHANGED <<stateFile, ctl>>

\* The process is killed.
CrashProcess(p) ==
    /\ Holds(p)
    /\ lock' = IF lock = p THEN None ELSE lock
    /\ Step(p, "gone")
    /\ UNCHANGED <<stateFile, ctl>>

-----------------------------------------------------------------------------
(* Controller.request *)

Ask(c, stop) ==
    /\ c \in Controllers /\ ctl[c].pc = "idle"
    /\ ctl' = [ctl EXCEPT ![c].pc = "load", ![c].stop = stop]
    /\ UNCHANGED <<lock, stateFile, proc>>

LoadState(c) ==
    /\ ctl[c].pc = "load"
    /\ ctl' = [ctl EXCEPT ![c].seen = stateFile,
                          ![c].pc = IF stateFile = None THEN "not running" ELSE "request"]
    /\ UNCHANGED <<lock, stateFile, proc>>

\* The process that answers behind the port of the one that was read.
Answers(c) == {p \in Procs : proc[p].pc \in Serving /\ proc[p].port = proc[ctl[c].seen].port}

\* Whoever answers is believed to be the instance that was read of.
RequestControlAny(c) ==
    /\ ctl[c].pc = "request"
    /\ ctl' = [ctl EXCEPT ![c].pc = IF Answers(c) = {} THEN "recover" ELSE "running"]
    /\ proc' = IF ctl[c].stop
               THEN [p \in Procs |-> IF p \in Answers(c) THEN [proc[p] EXCEPT !.pc = "stopping"] ELSE proc[p]]
               ELSE proc
    /\ UNCHANGED <<lock, stateFile>>

\* requestControl and NewControlHandler: only the process with that token
\* answers with its identity, and stops if it is asked to; another one refuses,
\* which proves nothing.  Without an answer the state may be stale.
RequestControl(c) ==
    LET p == ctl[c].seen IN
    /\ ctl[c].pc = "request"
    /\ ctl' = [ctl EXCEPT ![c].pc = IF Answers(c) = {} THEN "recover"
                                    ELSE IF p \in Answers(c) THEN "running" ELSE "unverified"]
    /\ proc' = IF p \in Answers(c) /\ ctl[c].stop THEN [proc EXCEPT ![p].pc = "stopping"] ELSE proc
    /\ UNCHANGED <<lock, stateFile>>

\* The two seconds pass although the process lives.
RequestTimesOut(c) ==
    /\ ctl[c].pc = "request"
    /\ ctl' = [ctl EXCEPT ![c].pc = "recover"]
    /\ UNCHANGED <<lock, stateFile, proc>>

\* recoverStaleState: with the lock in hand, the file is removed if it is the
\* one that was read.
RecoverLock(c) ==
    /\ ctl[c].pc = "recover"
    /\ IF lock = None THEN lock' = c /\ ctl' = [ctl EXCEPT ![c].pc = "recovering"]
       ELSE UNCHANGED lock /\ ctl' = [ctl EXCEPT ![c].pc = "unverified"]
    /\ UNCHANGED <<stateFile, proc>>

\* The file goes, the lock stays.
RecoverRemoveHolding(c) ==
    /\ ctl[c].pc = "recovering"
    /\ stateFile' = IF stateFile = ctl[c].seen THEN None ELSE stateFile
    /\ ctl' = [ctl EXCEPT ![c].pc = "not running"]
    /\ UNCHANGED <<lock, proc>>

RecoverRemove(c) ==
    /\ ctl[c].pc = "recovering"
    /\ stateFile' = IF stateFile = ctl[c].seen THEN None ELSE stateFile
    /\ lock' = IF lock = c THEN None ELSE lock
    /\ ctl' = [ctl EXCEPT ![c].pc = IF stateFile \in {None, ctl[c].seen} THEN "not running"
                                    ELSE "unverified"]
    /\ UNCHANGED proc

ControlStep(c) == \/ LoadState(c) \/ RequestControl(c) \/ RecoverLock(c) \/ RecoverRemove(c)

-----------------------------------------------------------------------------
(* Properties *)

\* The file of a live instance stays: while an instance is published and has
\* not begun to clean up, instance.json names it, whatever controllers race
\* with its start or with a predecessor's end, and it holds the lock.
LiveStateKept == \A p \in Procs : proc[p].pc = "ready" => stateFile = p /\ lock = p

\* A controller believes only the process it read of: "running" is said of a
\* process that published itself, and never while it was somebody else that
\* was asked to stop; "not running" never removes a live instance's file.
ControllersTruthful ==
    [][\A c \in Actors :
         /\ ctl[c].pc = "request" /\ ctl'[c].pc = "running" => proc[ctl[c].seen].pc \in Serving
         /\ ctl[c].pc = "recovering" /\ stateFile' # stateFile =>
                proc[stateFile].pc \notin Serving
         /\ \A p \in Procs : (p # ctl[c].seen /\ ctl[c].pc = "request" /\ ctl'[c].pc # "request")
                                => proc'[p].pc = proc[p].pc]_instanceVars

\* Instances and their controllers keep a true picture of who is running.
InstanceTruthful == []LiveStateKept /\ ControllersTruthful
=============================================================================
