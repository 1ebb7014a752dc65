------------------------------ MODULE StateFile ------------------------------
(***************************************************************************)
(* How a process opens the ledger (internal/store/json.go withStateLock),  *)
(* down to the files.  A ledger that is not SQLite yet is created, or a    *)
(* legacy JSON state is backed up, imported into a database beside it and  *)
(* replaced by a rename, under a file lock.  The check whether that is     *)
(* needed is made without the lock, so others may use the new database     *)
(* before the process that made it has finished.                           *)
(*                                                                         *)
(* A process may be killed between any two steps, which releases its lock  *)
(* and leaves its files.  The machine may lose power: a directory entry    *)
(* that was not synced is then there or not, and a file whose content was  *)
(* not synced is torn.                                                     *)
(***************************************************************************)
EXTENDS Naturals, FiniteSets

CONSTANTS
  Processes,
  Old,         \* the record a legacy state holds
  None,
  MaxKills,    \* bound: processes killed
  MaxLosses,   \* bound: power losses
  MaxUses      \* bound: transactions begun

ASSUME StateFileAssumption ==
  None \notin Processes /\ MaxKills \in Nat /\ MaxLosses \in Nat /\ MaxUses \in Nat

VARIABLES
  now,        \* the directory as processes see it: name -> file
  disk,       \* the directory as it is on the disk
  lock,       \* who holds the state lock
  pc, data,   \* per process: where it is, and the state as it last read it
  uses, kills, losses,
  committed,  \* records whose writers were told so, and those of the legacy state
  cutOff,     \* somebody was cut off between the creation of a backup and its sync
  origin      \* what the ledger was at first

vars == <<now, disk, lock, pc, data, uses, kills, losses, committed, cutOff, origin>>
faults == <<kills, losses, cutOff, origin>>

(* Names and files.                                                        *)
State == <<"state", None>>
Backup == <<"backup", None>>
Tmp(p) == <<"tmp", p>>
NameSet == {State, Backup} \cup {Tmp(p) : p \in Processes}

File(kind, records, version, synced) ==
  [kind |-> kind, records |-> records, version |-> version, synced |-> synced]
Absent == File("absent", {}, 0, TRUE)
Empty == File("empty", {}, 0, TRUE)
Torn == File("torn", {}, 0, TRUE)
Json == File("json", {Old}, 0, TRUE)
Db(records, version) == File("db", records, version, TRUE)

Init ==
  /\ origin \in {Absent, Empty, Torn, Json, Db({Old}, 0)}
  /\ now = [f \in NameSet |-> IF f = State THEN origin ELSE Absent] /\ disk = now
  /\ lock = None /\ pc = [p \in Processes |-> "off"] /\ data = [p \in Processes |-> Absent]
  /\ uses = 0 /\ kills = 0 /\ losses = 0 /\ cutOff = FALSE
  /\ committed = origin.records

To(p, s) == pc' = [pc EXCEPT ![p] = s]
Write(f, file) == now' = [now EXCEPT ![f] = file] /\ UNCHANGED disk

\* A commit of SQLite.  It syncs the write-ahead log and, with the first sync of the
\* log, the directory, which all the files are in.
SQLiteCommit(f, db) == now' = [now EXCEPT ![f] = db] /\ disk' = now'

-----------------------------------------------------------------------------
(* withStateLock.                                                          *)

hasSQLiteHeader(file) == file.kind = "db"

\* The header is looked at before the lock is taken.
Start(p) ==
  /\ pc[p] = "off" /\ uses < MaxUses /\ uses' = uses + 1
  /\ To(p, IF hasSQLiteHeader(now[State]) THEN "open" ELSE "locking")
  /\ data' = [data EXCEPT ![p] = now[State]]
  /\ UNCHANGED <<now, disk, lock, committed, faults>>

\* Mutant: two processes may hold the lock.
LockShared(p) == lock' = p

\* acquireStateLock: flock, tried again every 10 ms until the timeout.
LockTaken(p) == lock = None /\ lock' = p

Acquire(p) ==
  /\ pc[p] = "locking" /\ LockTaken(p) /\ To(p, "ensure")
  /\ UNCHANGED <<now, disk, data, uses, committed, faults>>

LockTimeout(p) ==
  /\ pc[p] = "locking" /\ lock # None /\ To(p, "off")
  /\ UNCHANGED <<now, disk, lock, data, uses, committed, faults>>

Unlocked(p) == lock' = IF lock = p THEN None ELSE lock

Release(p) ==
  /\ pc[p] = "release" /\ Unlocked(p) /\ To(p, "open")
  /\ UNCHANGED <<now, disk, data, uses, committed, faults>>

\* runSQLiteMigrations.
Migrated(db) == Db(db.records, 1)

\* openSQLite and a transaction in it.  Opening runs the statements of the schema
\* and the migrations, which find them done but for the first time.
Open(p) ==
  /\ pc[p] = "open"
  /\ IF now[State].version = 0 THEN SQLiteCommit(State, Migrated(now[State])) ELSE UNCHANGED <<now, disk>>
  /\ To(p, "begin")
  /\ UNCHANGED <<lock, data, uses, committed, faults>>

\* An immediate transaction: it reads what it changes after it got the write lock.
Commit(p) ==
  /\ pc[p] = "begin"
  /\ SQLiteCommit(State, Db(now[State].records \cup {<<p, uses>>}, now[State].version))
  /\ committed' = committed \cup {<<p, uses>>} /\ To(p, "off")
  /\ UNCHANGED <<lock, data, uses, faults>>

\* The operation fails, or the database stays busy.
Rollback(p) ==
  /\ pc[p] = "begin" /\ To(p, "off")
  /\ UNCHANGED <<now, disk, lock, data, uses, committed, faults>>

-----------------------------------------------------------------------------
(* ensureSQLite, under the lock.                                           *)

\* Mutant: what was found before the lock was taken is not looked at again.
FoundBefore(p) == data[p]

Current(p) == now[State]

\* The state is read, again.
Ensure(p) ==
  /\ pc[p] = "ensure"
  /\ LET file == Current(p) IN
     /\ data' = [data EXCEPT ![p] = file]
     /\ \/ hasSQLiteHeader(file) /\ To(p, "release") /\ UNCHANGED lock
        \/ file.kind \in {"absent", "empty"} /\ To(p, "create") /\ UNCHANGED lock
        \/ file.kind = "json" /\ To(p, "backup") /\ UNCHANGED lock
        \/ file.kind = "torn" /\ To(p, "off") /\ Unlocked(p)
  /\ UNCHANGED <<now, disk, uses, committed, faults>>

\* openSQLite where there is nothing: an empty file first, then the schema.
CreateFile(p) ==
  /\ pc[p] = "create" /\ To(p, "schema")
  /\ Write(State, IF now[State] = Absent THEN Empty ELSE now[State])
  /\ UNCHANGED <<lock, data, uses, committed, faults>>
CreateSchema(p) ==
  /\ pc[p] = "schema" /\ To(p, "release")
  /\ SQLiteCommit(State, Db({}, 1))
  /\ UNCHANGED <<lock, data, uses, committed, faults>>

Unsynced(file) == [file EXCEPT !.synced = FALSE]

\* The backup: kept when it has the same contents, refused when it has others, else
\* created.
BackUp(p) ==
  /\ pc[p] = "backup"
  /\ LET backup == now[Backup]
         same == backup \in {data[p], Unsynced(data[p])}
     IN
     \/ same /\ To(p, "import") /\ UNCHANGED <<now, disk, lock>>
     \/ ~same /\ backup # Absent /\ To(p, "refused") /\ Unlocked(p) /\ UNCHANGED <<now, disk>>
     \/ backup = Absent /\ To(p, "write") /\ UNCHANGED lock /\ Write(Backup, Unsynced(Torn))
  /\ UNCHANGED <<data, uses, committed, faults>>

\* writeFileDurably: the write and the sync of the file; then syncParentDir.
WriteBackup(p) ==
  /\ pc[p] = "write" /\ Write(Backup, Unsynced(data[p])) /\ To(p, "sync")
  /\ UNCHANGED <<lock, data, uses, committed, faults>>

\* Mutant: the file is not synced.
NotSynced(p) == UNCHANGED <<now, disk>>

Synced(p) == Write(Backup, [now[Backup] EXCEPT !.synced = TRUE])

SyncBackup(p) ==
  /\ pc[p] = "sync" /\ Synced(p) /\ To(p, "syncDir")
  /\ UNCHANGED <<lock, data, uses, committed, faults>>
SyncBackupDir(p) ==
  /\ pc[p] = "syncDir" /\ disk' = now /\ UNCHANGED now /\ To(p, "import")
  /\ UNCHANGED <<lock, data, uses, committed, faults>>

\* writeState: the records of the legacy state, in one transaction.
writeState(legacy) == Db(legacy.records, 1)

\* The import into a database of the process's own, or its failure.
Import(p) ==
  /\ pc[p] = "import"
  /\ \/ SQLiteCommit(Tmp(p), writeState(data[p])) /\ To(p, "activate") /\ UNCHANGED lock
     \/ Write(Tmp(p), Absent) /\ To(p, "off") /\ Unlocked(p)
  /\ UNCHANGED <<data, uses, committed, faults>>

\* replaceStateFile, then syncParentDir.
Activate(p) ==
  /\ pc[p] = "activate" /\ To(p, "syncState")
  /\ now' = [now EXCEPT ![State] = now[Tmp(p)], ![Tmp(p)] = Absent] /\ UNCHANGED disk
  /\ UNCHANGED <<lock, data, uses, committed, faults>>
SyncState(p) ==
  /\ pc[p] = "syncState" /\ disk' = now /\ UNCHANGED now /\ To(p, "release")
  /\ UNCHANGED <<lock, data, uses, committed, faults>>

-----------------------------------------------------------------------------
(* Faults.                                                                 *)

\* What a name may hold after a power loss.
Survives(file) == IF file.synced THEN file ELSE Torn
Outcomes(f) == {Survives(now[f]), Survives(disk[f])}

Kill(p) ==
  /\ pc[p] \notin {"off", "refused"} /\ kills < MaxKills /\ kills' = kills + 1
  /\ To(p, "off") /\ Unlocked(p) /\ cutOff' = (cutOff \/ pc[p] \in {"write", "sync"})
  /\ UNCHANGED <<now, disk, data, uses, losses, committed, origin>>

PowerLoss ==
  /\ losses < MaxLosses /\ losses' = losses + 1
  /\ \E d \in [NameSet -> UNION {Outcomes(f) : f \in NameSet}] :
        (\A f \in NameSet : d[f] \in Outcomes(f)) /\ now' = d /\ disk' = d
  /\ pc' = [p \in Processes |-> "off"] /\ lock' = None
  /\ cutOff' = (cutOff \/ \E p \in Processes : pc[p] \in {"write", "sync"})
  /\ UNCHANGED <<data, uses, kills, committed, origin>>

Step(p) ==
  \/ Start(p) \/ Acquire(p) \/ LockTimeout(p) \/ Release(p) \/ Open(p) \/ Commit(p) \/ Rollback(p)
  \/ Ensure(p) \/ CreateFile(p) \/ CreateSchema(p) \/ BackUp(p) \/ WriteBackup(p) \/ SyncBackup(p)
  \/ SyncBackupDir(p) \/ Import(p) \/ Activate(p) \/ SyncState(p) \/ Kill(p)

Next == PowerLoss \/ \E p \in Processes : Step(p)

Spec == Init /\ [][Next]_vars

-----------------------------------------------------------------------------
(* Properties.                                                             *)

\* Whatever is killed or loses power in whichever moment, every record of the
\* legacy state and every record whose writer was told that it is saved is in the
\* ledger, also those written into a new database before the process that made it
\* synced the directory.  (json.go:787, json.go:872)
NothingLost == \A file \in Outcomes(State) \cup {now[State]} : committed \subseteq file.records

\* There is no moment in which a power loss could leave the new database without
\* the whole legacy state beside it, unless a process was cut off before it synced
\* the backup: the next one finds it and does not sync it.
\* (docs/design.md:42, "retains a legacy JSON copy")
BackupKept ==
  origin.kind = "json" /\ ~cutOff /\ (\E file \in Outcomes(State) : file.kind = "db") =>
     Outcomes(Backup) = {Json}

\* A ledger is refused for its backup only if somebody was cut off while writing
\* that backup: processes that open a legacy state at the same time never refuse
\* each other.  (json.go:895)
RefusalExplained == (\E p \in Processes : pc[p] = "refused") => cutOff
=============================================================================
