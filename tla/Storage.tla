--------------------------------- MODULE Storage ---------------------------------
(***************************************************************************)
(* Opening the database: internal/adapters/sqlite store.go, migrate.go and   *)
(* backup.go, with the embedded set of internal/migrations.  A binary of     *)
(* version v knows the migrations 1..v; those in Destructive are preceded by  *)
(* a verified backup.  A transaction, and a restore, is atomic.              *)
(***************************************************************************)
EXTENDS Integers

CONSTANTS
    Destructive   \* migrations whose first line asks for a backup

VARIABLES
    applied,   \* schema_migrations: 1..applied
    backup,    \* migration backups on disk, by the version they were taken at
    open       \* the Store being opened or open, and the binary's version

storeVars == <<applied, backup, open>>

Closed == [pc |-> "closed", known |-> 0]

StoreInit == applied = 0 /\ backup = {} /\ open = Closed

At(pc) == open' = [open EXCEPT !.pc = pc]

\* Open: the private file, WAL, and then ApplyMigrations; histories the binary
\* does not know are refused.
OpenStore(version) ==
    /\ open.pc = "closed"
    /\ open' = [pc |-> IF applied > version THEN "refused" ELSE "migrate", known |-> version]
    /\ UNCHANGED <<applied, backup>>

Next1 == applied + 1

\* temporaryBackupLocked, before a destructive migration.
BackupBefore ==
    /\ open.pc = "migrate" /\ Next1 <= open.known /\ Next1 \in Destructive
    /\ backup' = backup \cup {applied}
    /\ At("apply")
    /\ UNCHANGED applied

\* Every migration is taken for one that needs no backup.
BackupForgotten ==
    /\ open.pc = "migrate" /\ Next1 <= open.known
    /\ At("apply")
    /\ UNCHANGED <<applied, backup>>

\* A migration that needs no backup.
BackupUnneeded ==
    /\ open.pc = "migrate" /\ Next1 <= open.known /\ Next1 \notin Destructive
    /\ At("apply")
    /\ UNCHANGED <<applied, backup>>

\* applyOne commits.
ApplyOne ==
    /\ open.pc = "apply"
    /\ applied' = Next1
    /\ At("applied")
    /\ UNCHANGED backup

\* removeVerifiedBackup, once the migration is committed.
DropBackup ==
    /\ open.pc = "applied"
    /\ backup' = backup \ {applied - 1}
    /\ At("migrate")
    /\ UNCHANGED applied

\* applyOne fails and rolls back: recoverFailedMigration restores the backup
\* and removes it, or keeps it when the restore fails too; the Open fails.
ApplyFails ==
    /\ open.pc = "apply"
    /\ \/ backup' = backup \ {applied}
       \/ applied \in backup /\ UNCHANGED backup
    /\ At("refused")
    /\ UNCHANGED applied

\* A backup cannot be taken, verified or removed: the Open fails.
MaintenanceFails ==
    /\ open.pc \in {"migrate", "applied"}
    /\ At("refused")
    /\ UNCHANGED <<applied, backup>>

Opened ==
    /\ open.pc = "migrate" /\ applied = open.known
    /\ At("open")
    /\ UNCHANGED <<applied, backup>>

\* Close, or the end of the process.
CloseStore == open' = Closed /\ UNCHANGED <<applied, backup>>

StoreStep == \/ BackupBefore \/ BackupUnneeded \/ ApplyOne \/ DropBackup \/ Opened

StoreFault == ApplyFails \/ MaintenanceFails
=============================================================================
