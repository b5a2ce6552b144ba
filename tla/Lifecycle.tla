------------------------------- MODULE Lifecycle -------------------------------
(***************************************************************************)
(* The life of an installation: processes (Instance) that open the database  *)
(* (Storage) with the binary that was installed when they started, which     *)
(* updates (Updater) replace.  As docs/download.md asks, an update is begun  *)
(* when kubePeep is stopped, and kubePeep is not started before it ends.     *)
(***************************************************************************)
EXTENDS Instance, Storage, Updater

CONSTANTS
    MaxUpsets   \* bound: crashes, failures, cancellations, timeouts

VARIABLES upsets

vars == <<instanceVars, storeVars, updateVars, windows, upsets>>

Init == InstanceInit /\ StoreInit /\ UpdateInit /\ upsets = 0

Upset == upsets < MaxUpsets /\ upsets' = upsets + 1

\* RunForeground, with the database opened by the factory's Build.
Foreground(p) ==
    \/ /\ StartProcess(p, installed)
       /\ ~Updating
       /\ UNCHANGED <<storeVars, updateVars, upsets>>
    \/ /\ \/ ClearStale(p) \/ BindLoopback(p) \/ Serve(p) \/ Publish(p)
          \/ CleanupHTTP(p) \/ CleanupPort(p) \/ CleanupState(p) \/ CleanupLast(p)
       /\ UNCHANGED <<storeVars, updateVars, upsets>>
    \/ /\ proc[p].pc = "bound" /\ OpenStore(proc[p].version)
       /\ UNCHANGED <<instanceVars, updateVars, upsets>>
    \/ /\ proc[p].pc = "bound" /\ StoreStep
       /\ UNCHANGED <<instanceVars, updateVars, upsets>>
    \/ /\ open.pc = "open" /\ Build(p)
       /\ UNCHANGED <<storeVars, updateVars, upsets>>
    \/ /\ open.pc = "refused" /\ Cancel(p)
       /\ UNCHANGED <<storeVars, updateVars, upsets>>
    \/ /\ CleanupStore(p) /\ CloseStore
       /\ UNCHANGED <<updateVars, upsets>>

\* Controllers and updates.
Command ==
    \/ /\ \E c \in Actors : ControlStep(c)
       /\ UNCHANGED <<storeVars, updateVars, upsets>>
    \/ /\ \E u \in Updaters : UpdateStep(u)
       /\ UNCHANGED <<instanceVars, storeVars, upsets>>

\* What the user does, and what goes wrong.
Environment ==
    \/ /\ \E c \in Controllers, stop \in BOOLEAN : Ask(c, stop)
       /\ UNCHANGED <<storeVars, updateVars, upsets>>
    \/ /\ \E u \in Updaters, v \in Versions : BeginUpdate(u, v)
       /\ \A p \in Procs : ~Holds(p)
       /\ UNCHANGED <<instanceVars, storeVars, upsets>>
    \/ /\ Upset
       /\ \/ \E c \in Actors : RequestTimesOut(c) /\ UNCHANGED <<storeVars, updateVars>>
          \/ \E u \in Updaters : UpdateFault(u) /\ UNCHANGED <<instanceVars, storeVars>>
          \/ StoreFault /\ UNCHANGED <<instanceVars, updateVars>>
          \/ \E p \in Procs : \/ open.pc = "open" /\ Cancel(p) /\ UNCHANGED <<storeVars, updateVars>>
                              \/ CrashProcess(p) /\ CloseStore /\ UNCHANGED updateVars

Next ==
    /\ (\E p \in Procs : Foreground(p)) \/ Command \/ Environment
    /\ UNCHANGED windows

Spec == Init /\ [][Next]_vars

\* Processes, controllers and updates run until they are done.
FairSpec == Spec /\ WF_vars(((\E p \in Procs : Foreground(p)) \/ Command) /\ UNCHANGED windows)

-----------------------------------------------------------------------------
(* Properties *)

\* The installed binary can open the database: no update, failure, crash or
\* rollback leaves migrations behind that it does not know, and a process that
\* opens the database is the only one that does.
DatabaseOpens ==
    /\ applied <= installed
    /\ open.pc # "closed" => \E p \in Procs : lock = p /\ proc[p].pc \in Bound

\* A destructive migration is only committed while a backup of what it
\* replaces is on disk, and such a backup only goes when the migration is
\* committed or rolled back.
BackedUp ==
    [][applied' # applied /\ applied' \in Destructive => applied \in backup]_vars

\* The database stays usable: by the binary that is installed, by one process,
\* with a backup of whatever a destructive migration replaces.
DatabaseSafe == []DatabaseOpens /\ BackedUp

\* The lock comes back: whoever takes it, also a controller that looks for a
\* stale file, gives it up or becomes a ready instance.
LockReturns ==
    \A a \in Actors : lock = a ~> (lock # a \/ (a \in Procs /\ proc[a].pc = "ready"))
=============================================================================
