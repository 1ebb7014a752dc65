--------------------------- MODULE StateFileProofs ---------------------------
(***************************************************************************)
(* That opening the ledger loses no record and keeps the legacy backup,    *)
(* for any number of processes, kills and power losses; and that a         *)
(* worktree which is handed out for reuse is whole.                        *)
(***************************************************************************)
EXTENDS MCStateFile, TLAPS

-----------------------------------------------------------------------------
(* The inductive invariant of StateFile.                                   *)

\* Where a process holds the state lock.
Holding == {"ensure", "create", "schema", "backup", "write", "sync", "syncDir",
            "import", "activate", "syncState", "release"}

\* Where it migrates a legacy state that is still in place.
Migrating == {"backup", "write", "sync", "syncDir", "import", "activate"}

\* Where it has seen that the ledger is a database.
Opening == {"open", "begin", "release", "syncState"}

Records == {Old} \cup (Processes \X Nat)
Files == [kind : {"absent", "empty", "torn", "json", "db"}, records : SUBSET Records,
          version : {0, 1}, synced : BOOLEAN]

Types ==
  /\ now \in [NameSet -> Files] /\ disk \in [NameSet -> Files]
  /\ lock \in Processes \cup {None}
  /\ pc \in [Processes -> {"off", "locking", "open", "begin", "refused"} \cup Holding]
  /\ data \in [Processes -> Files]
  /\ uses \in Nat /\ committed \subseteq Records /\ origin \in Files

\* Only the holder of the lock is past Acquire.
Locked == \A p \in Processes : pc[p] \in Holding => lock = p

\* What may be under the name of the ledger: a file that is synced and has every
\* committed record; a JSON state only where there was one at first, and then nothing
\* but it and a database.
Sound(file) ==
  /\ file.synced /\ committed \subseteq file.records
  /\ file.kind \in {"absent", "empty", "torn"} => file.records = {}
  /\ file.kind = "json" => file = Json
  /\ file.kind = "json" <=> file.kind # "db" /\ origin.kind = "json"

\* What a process may count on at each step.
CountsOn(p) ==
  /\ pc[p] \in Opening => now[State].kind = "db"
  /\ pc[p] \in {"create", "schema"} => now[State].kind \in {"absent", "empty"}
  /\ pc[p] \in Migrating => now[State] = Json /\ data[p] = Json
  /\ pc[p] = "activate" => now[Tmp(p)] = Db({Old}, 1)

\* The ledger as processes see it, and as it is on the disk.
Ledger == Sound(now[State]) /\ Sound(disk[State]) /\ \A p \in Processes : CountsOn(p)

\* The backup, unless somebody was cut off while writing it: there is none or it is
\* whole, but for the moments in which its writer holds the lock, and it is whole and
\* on the disk before the database takes the place of the legacy state.
WholeBackup ==
  ~cutOff =>
    /\ disk[Backup] \in {Absent, Json}
    /\ now[Backup] \in {Absent, Json} \/ \E p \in Processes : pc[p] \in {"write", "sync"}
    /\ \A p \in Processes :
         /\ pc[p] # "refused"
         /\ pc[p] = "write" => now[Backup] = Unsynced(Torn)
         /\ pc[p] = "sync" => now[Backup] = Unsynced(Json)
         /\ pc[p] \in {"syncDir", "import", "activate"} => now[Backup] = Json
         /\ pc[p] = "activate" => disk[Backup] = Json
    /\ origin.kind = "json" /\ (now[State].kind = "db" \/ disk[State].kind = "db") =>
         now[Backup] = Json /\ disk[Backup] = Json

StateFileInv == Types /\ Locked /\ Ledger /\ WholeBackup

-----------------------------------------------------------------------------
(* Names and files.                                                        *)

\* The ledger, its backup and every process's database of its own have different
\* names.
LEMMA NameFacts ==
  /\ State \in NameSet /\ Backup \in NameSet /\ State # Backup
  /\ \A p \in Processes : Tmp(p) \in NameSet /\ Tmp(p) # State /\ Tmp(p) # Backup
  /\ \A p, q \in Processes : Tmp(p) = Tmp(q) => p = q
BY DEF State, Backup, Tmp, NameSet

\* What the files that the program writes are.
LEMMA FileFacts ==
  /\ Absent \in Files /\ Absent.kind = "absent" /\ Absent.records = {} /\ Absent.synced
  /\ Empty \in Files /\ Empty.kind = "empty" /\ Empty.records = {} /\ Empty.synced
  /\ Torn \in Files /\ Torn.kind = "torn" /\ Torn.records = {} /\ Torn.synced
  /\ Json \in Files /\ Json.kind = "json" /\ Json.records = {Old} /\ Json.synced
  /\ Unsynced(Torn) \in Files /\ Unsynced(Json) \in Files
  /\ Unsynced(Json) # Absent /\ Json # Absent /\ Unsynced(Torn) # Json
  /\ [Unsynced(Json) EXCEPT !.synced = TRUE] = Json
<1>1. /\ Absent \in Files /\ Empty \in Files /\ Torn \in Files /\ Json \in Files
      /\ Unsynced(Torn) \in Files /\ Unsynced(Json) \in Files
  BY DEF File, Files, Records, Absent, Empty, Torn, Json, Unsynced
<1>2. [Unsynced(Json) EXCEPT !.synced = TRUE] = Json
  <2> DEFINE synced == [Unsynced(Json) EXCEPT !.synced = TRUE]
  <2>1. Json \in Files /\ Json.synced
    BY <1>1 DEF File, Json
  <2>2. /\ synced \in Files /\ synced.kind = Json.kind /\ synced.records = Json.records
        /\ synced.version = Json.version /\ synced.synced
    BY <2>1 DEF Files, Unsynced
  <2>3. synced.synced = Json.synced
    BY <2>1, <2>2 DEF Files
  <2> HIDE DEF synced
  <2>4. synced = Json
    BY <2>1, <2>2, <2>3 DEF Files
  <2> QED
    BY <2>4 DEF synced
<1>3. Unsynced(Json) # Absent /\ Json # Absent /\ Unsynced(Torn) # Json
  BY DEF File, Absent, Json, Torn, Unsynced
<1> QED
  BY <1>1, <1>2, <1>3 DEF File, Absent, Empty, Torn, Json

\* A database that is written has the records given and is synced.
LEMMA DbFacts ==
  ASSUME NEW r \in SUBSET Records, NEW v \in {0, 1}
  PROVE  Db(r, v) \in Files /\ Db(r, v).kind = "db" /\ Db(r, v).records = r
           /\ Db(r, v).version = v /\ Db(r, v).synced
BY DEF File, Files, Db

\* What a file consists of.
LEMMA FileFields ==
  ASSUME NEW f \in Files
  PROVE  f.kind \in {"absent", "empty", "torn", "json", "db"} /\ f.records \in SUBSET Records
           /\ f.version \in {0, 1} /\ f.synced \in BOOLEAN
           /\ Unsynced(f) \in Files /\ [f EXCEPT !.synced = TRUE] \in Files
BY DEF Files, Unsynced

-----------------------------------------------------------------------------
(* Every step keeps the invariant.                                         *)

\* The look before the lock changes nothing of the ledger; it sees a database or not.
LEMMA StartInv ==
  ASSUME StateFileInv, NEW p \in Processes, Start(p)
  PROVE  StateFileInv'
<1> USE NameFacts, FileFacts, DbFacts, FileFields DEF StateFileInv, Start, To, faults, hasSQLiteHeader
<1>1. Types'
  BY DEF Types, Holding, Records
<1>2. Locked'
  BY StateFileAssumption DEF Types, Locked, Holding
<1>3. Ledger'
  <2>1. Sound(now[State])' /\ Sound(disk[State])'
    BY DEF Types, Ledger, CountsOn, Sound, Migrating, Opening
  <2>2. ASSUME NEW q \in Processes PROVE CountsOn(q)'
    BY <1>1 DEF Types, Locked, Ledger, CountsOn, Sound, Holding, Migrating, Opening
  <2> QED
    BY <2>1, <2>2 DEF Ledger
<1>4. WholeBackup'
  BY DEF Types, Locked, Ledger, CountsOn, Sound, WholeBackup, Holding, Migrating, Opening
<1> QED
  BY <1>1, <1>2, <1>3, <1>4

\* Who gets the lock finds nobody else past it.
LEMMA AcquireInv ==
  ASSUME StateFileInv, NEW p \in Processes, Acquire(p)
  PROVE  StateFileInv'
<1> USE NameFacts, FileFacts, DbFacts, FileFields DEF StateFileInv, Acquire, To, faults, LockTaken
<1>1. Types'
  BY DEF Types, Holding, Records
<1>2. Locked'
  BY StateFileAssumption DEF Types, Locked, Holding
<1>3. Ledger'
  <2>1. Sound(now[State])' /\ Sound(disk[State])'
    BY DEF Types, Ledger, CountsOn, Sound, Migrating, Opening
  <2>2. ASSUME NEW q \in Processes PROVE CountsOn(q)'
    BY <1>1 DEF Types, Locked, Ledger, CountsOn, Sound, Holding, Migrating, Opening
  <2> QED
    BY <2>1, <2>2 DEF Ledger
<1>4. WholeBackup'
  BY DEF Types, Locked, Ledger, CountsOn, Sound, WholeBackup, Holding, Migrating, Opening
<1> QED
  BY <1>1, <1>2, <1>3, <1>4

\* Who gives up waiting has changed nothing.
LEMMA LockTimeoutInv ==
  ASSUME StateFileInv, NEW p \in Processes, LockTimeout(p)
  PROVE  StateFileInv'
<1> USE NameFacts, FileFacts, DbFacts, FileFields DEF StateFileInv, LockTimeout, To, faults
<1>1. Types'
  BY DEF Types, Holding, Records
<1>2. Locked'
  BY StateFileAssumption DEF Types, Locked, Holding
<1>3. Ledger'
  <2>1. Sound(now[State])' /\ Sound(disk[State])'
    BY DEF Types, Ledger, CountsOn, Sound, Migrating, Opening
  <2>2. ASSUME NEW q \in Processes PROVE CountsOn(q)'
    BY <1>1 DEF Types, Locked, Ledger, CountsOn, Sound, Holding, Migrating, Opening
  <2> QED
    BY <2>1, <2>2 DEF Ledger
<1>4. WholeBackup'
  BY DEF Types, Locked, Ledger, CountsOn, Sound, WholeBackup, Holding, Migrating, Opening
<1> QED
  BY <1>1, <1>2, <1>3, <1>4

\* The lock is released over a database.
LEMMA ReleaseInv ==
  ASSUME StateFileInv, NEW p \in Processes, Release(p)
  PROVE  StateFileInv'
<1> USE NameFacts, FileFacts, DbFacts, FileFields DEF StateFileInv, Release, To, faults, Unlocked
<1>1. Types'
  BY DEF Types, Holding, Records
<1>2. Locked'
  BY StateFileAssumption DEF Types, Locked, Holding
<1>3. Ledger'
  <2>1. Sound(now[State])' /\ Sound(disk[State])'
    BY DEF Types, Ledger, CountsOn, Sound, Migrating, Opening
  <2>2. ASSUME NEW q \in Processes PROVE CountsOn(q)'
    BY <1>1 DEF Types, Locked, Ledger, CountsOn, Sound, Holding, Migrating, Opening
  <2> QED
    BY <2>1, <2>2 DEF Ledger
<1>4. WholeBackup'
  BY DEF Types, Locked, Ledger, CountsOn, Sound, WholeBackup, Holding, Migrating, Opening
<1> QED
  BY <1>1, <1>2, <1>3, <1>4

\* The first opening migrates the database, which keeps its records, and syncs it.
LEMMA OpenInv ==
  ASSUME StateFileInv, NEW p \in Processes, Open(p)
  PROVE  StateFileInv'
<1> DEFINE new == IF now[State].version = 0 THEN Migrated(now[State]) ELSE now[State]
<1> USE NameFacts DEF StateFileInv, To, faults
<1>1. now[State] \in Files /\ now[State].kind = "db"
  BY DEF Types, Ledger, CountsOn, Opening, Open
<1>2. new \in Files /\ new.kind = "db" /\ new.records = now[State].records /\ new.synced
  BY <1>1, DbFacts, FileFields DEF Migrated, Ledger, Sound
<1>3. now' = [now EXCEPT ![State] = new] /\ disk' \in {now', disk}
  BY DEF Open, SQLiteCommit, Types
<1> HIDE DEF new
<1>4. Types'
  BY <1>2, <1>3 DEF Types, Holding, Open
<1>5. now'[State] = new /\ disk'[State] \in {new, disk[State]}
      /\ (\A f \in NameSet \ {State} : now'[f] = now[f] /\ disk'[f] \in {now[f], disk[f]})
  BY <1>3, <1>4 DEF Types
<1>6. Locked'
  BY DEF Types, Locked, Holding, Open
<1>7. Ledger'
  <2>1. Sound(now[State])' /\ Sound(disk[State])'
    BY <1>2, <1>5 DEF Ledger, Sound, Open
  <2>2. ASSUME NEW q \in Processes PROVE CountsOn(q)'
    <3>1. CountsOn(q) /\ now'[State].kind = "db"
      BY <1>2, <1>5 DEF Ledger
    <3>2. pc'[q] \notin Migrating \cup {"create", "schema"}
      BY <1>1, FileFacts DEF Types, Ledger, CountsOn, Migrating, Open
    <3> QED
      BY <3>1, <3>2 DEF CountsOn, Migrating
  <2> QED
    BY <2>1, <2>2 DEF Ledger
<1>8. WholeBackup'
  BY <1>1, <1>2, <1>5, FileFacts DEF Types, Ledger, CountsOn, WholeBackup, Open, Migrating
<1> QED
  BY <1>4, <1>6, <1>7, <1>8

\* A commit adds a record to the ledger and to what is committed, and syncs it.
LEMMA CommitInv ==
  ASSUME StateFileInv, NEW p \in Processes, Commit(p)
  PROVE  StateFileInv'
<1> DEFINE record == <<p, uses>>
           new == Db(now[State].records \cup {record}, now[State].version)
<1> USE NameFacts DEF StateFileInv, To, faults
<1>1. now[State] \in Files /\ now[State].kind = "db" /\ record \in Records
  BY DEF Types, Ledger, CountsOn, Opening, Commit, Records
<1>2. new \in Files /\ new.kind = "db" /\ new.synced
      /\ new.records = now[State].records \cup {record}
  <2>1. now[State].records \in SUBSET Records /\ now[State].version \in {0, 1}
    BY <1>1, FileFields
  <2>2. now[State].records \cup {record} \in SUBSET Records
    BY <1>1, <2>1
  <2> QED
    BY <2>1, <2>2, DbFacts
<1>3. /\ now' = [now EXCEPT ![State] = new] /\ disk' = now'
      /\ committed' = committed \cup {record}
  BY DEF Commit, SQLiteCommit
<1> HIDE DEF new, record
<1>4. Types'
  BY <1>1, <1>2, <1>3 DEF Types, Holding, Commit
<1>5. now'[State] = new /\ \A f \in NameSet \ {State} : now'[f] = now[f] /\ disk'[f] = now[f]
  BY <1>3, <1>4 DEF Types
<1>6. Locked'
  BY DEF Types, Locked, Holding, Commit
<1>7. Ledger'
  <2>1. Sound(now[State])' /\ Sound(disk[State])'
    BY <1>2, <1>3, <1>5 DEF Ledger, Sound, Commit
  <2>2. ASSUME NEW q \in Processes PROVE CountsOn(q)'
    <3>1. CountsOn(q) /\ now'[State].kind = "db"
      BY <1>2, <1>5 DEF Ledger
    <3>2. pc'[q] \notin Migrating \cup {"create", "schema"}
      BY <1>1, FileFacts DEF Types, Ledger, CountsOn, Migrating, Commit
    <3> QED
      BY <3>1, <3>2 DEF CountsOn, Migrating
  <2> QED
    BY <2>1, <2>2 DEF Ledger
<1>8. WholeBackup'
  BY <1>1, <1>2, <1>3, <1>5, FileFacts DEF Types, Ledger, CountsOn, WholeBackup, Commit, Migrating
<1> QED
  BY <1>4, <1>6, <1>7, <1>8

\* A transaction that fails changes nothing.
LEMMA RollbackInv ==
  ASSUME StateFileInv, NEW p \in Processes, Rollback(p)
  PROVE  StateFileInv'
<1> USE NameFacts, FileFacts, DbFacts, FileFields DEF StateFileInv, Rollback, To, faults
<1>1. Types'
  BY DEF Types, Holding, Records
<1>2. Locked'
  BY StateFileAssumption DEF Types, Locked, Holding
<1>3. Ledger'
  <2>1. Sound(now[State])' /\ Sound(disk[State])'
    BY DEF Types, Ledger, CountsOn, Sound, Migrating, Opening
  <2>2. ASSUME NEW q \in Processes PROVE CountsOn(q)'
    BY <1>1 DEF Types, Locked, Ledger, CountsOn, Sound, Holding, Migrating, Opening
  <2> QED
    BY <2>1, <2>2 DEF Ledger
<1>4. WholeBackup'
  BY DEF Types, Locked, Ledger, CountsOn, Sound, WholeBackup, Holding, Migrating, Opening
<1> QED
  BY <1>1, <1>2, <1>3, <1>4

\* The state is read again under the lock: what it is decides the next step.
LEMMA EnsureInv ==
  ASSUME StateFileInv, NEW p \in Processes, Ensure(p)
  PROVE  StateFileInv'
<1> USE NameFacts, FileFacts, DbFacts, FileFields DEF StateFileInv, Ensure, To, faults, hasSQLiteHeader, Current, Unlocked
<1>1. Types'
  BY DEF Types, Holding, Records
<1>2. Locked'
  BY StateFileAssumption DEF Types, Locked, Holding
<1>3. Ledger'
  <2>1. Sound(now[State])' /\ Sound(disk[State])'
    BY DEF Types, Ledger, CountsOn, Sound, Migrating, Opening
  <2>2. ASSUME NEW q \in Processes PROVE CountsOn(q)'
    BY <1>1 DEF Types, Locked, Ledger, CountsOn, Sound, Holding, Migrating, Opening
  <2> QED
    BY <2>1, <2>2 DEF Ledger
<1>4. WholeBackup'
  BY DEF Types, Locked, Ledger, CountsOn, Sound, WholeBackup, Holding, Migrating, Opening
<1> QED
  BY <1>1, <1>2, <1>3, <1>4

\* An empty file takes the place of no file.
LEMMA CreateFileInv ==
  ASSUME StateFileInv, NEW p \in Processes, CreateFile(p)
  PROVE  StateFileInv'
<1> USE NameFacts, FileFacts, DbFacts, FileFields DEF StateFileInv, CreateFile, To, faults, Write
<1>1. Types'
  BY DEF Types, Holding, Records
<1>2. Locked'
  BY StateFileAssumption DEF Types, Locked, Holding
<1>3. Ledger'
  <2>1. Sound(now[State])' /\ Sound(disk[State])'
    BY DEF Types, Ledger, CountsOn, Sound, Migrating, Opening
  <2>2. ASSUME NEW q \in Processes PROVE CountsOn(q)'
    BY <1>1 DEF Types, Locked, Ledger, CountsOn, Sound, Holding, Migrating, Opening
  <2> QED
    BY <2>1, <2>2 DEF Ledger
<1>4. WholeBackup'
  BY DEF Types, Locked, Ledger, CountsOn, Sound, WholeBackup, Holding, Migrating, Opening
<1> QED
  BY <1>1, <1>2, <1>3, <1>4

\* A new database is made only where no record has been committed.
LEMMA CreateSchemaInv ==
  ASSUME StateFileInv, NEW p \in Processes, CreateSchema(p)
  PROVE  StateFileInv'
<1> USE NameFacts, FileFacts, DbFacts, FileFields DEF StateFileInv, CreateSchema, To, faults, SQLiteCommit
<1>1. Types'
  BY DEF Types, Holding, Records
<1>2. Locked'
  BY StateFileAssumption DEF Types, Locked, Holding
<1>3. Ledger'
  <2>1. Sound(now[State])' /\ Sound(disk[State])'
    BY DEF Types, Ledger, CountsOn, Sound, Migrating, Opening
  <2>2. ASSUME NEW q \in Processes PROVE CountsOn(q)'
    BY <1>1 DEF Types, Locked, Ledger, CountsOn, Sound, Holding, Migrating, Opening
  <2> QED
    BY <2>1, <2>2 DEF Ledger
<1>4. WholeBackup'
  BY DEF Types, Locked, Ledger, CountsOn, Sound, WholeBackup, Holding, Migrating, Opening
<1> QED
  BY <1>1, <1>2, <1>3, <1>4

\* A backup that is there is the legacy state, or else somebody was cut off.
LEMMA BackUpInv ==
  ASSUME StateFileInv, NEW p \in Processes, BackUp(p)
  PROVE  StateFileInv'
<1> USE NameFacts, FileFacts, DbFacts, FileFields DEF StateFileInv, BackUp, To, faults, Write, Unlocked
<1>1. Types'
  BY DEF Types, Holding, Records
<1>2. Locked'
  BY StateFileAssumption DEF Types, Locked, Holding
<1>3. Ledger'
  <2>1. Sound(now[State])' /\ Sound(disk[State])'
    BY DEF Types, Ledger, CountsOn, Sound, Migrating, Opening
  <2>2. ASSUME NEW q \in Processes PROVE CountsOn(q)'
    BY <1>1 DEF Types, Locked, Ledger, CountsOn, Sound, Holding, Migrating, Opening
  <2> QED
    BY <2>1, <2>2 DEF Ledger
<1>4. WholeBackup'
  BY DEF Types, Locked, Ledger, CountsOn, Sound, WholeBackup, Holding, Migrating, Opening
<1> QED
  BY <1>1, <1>2, <1>3, <1>4

\* The backup is written by the holder of the lock.
LEMMA WriteBackupInv ==
  ASSUME StateFileInv, NEW p \in Processes, WriteBackup(p)
  PROVE  StateFileInv'
<1> USE NameFacts, FileFacts DEF StateFileInv, WriteBackup, To, Write, faults
<1>1. now' = [now EXCEPT ![Backup] = Unsynced(Json)]
  BY DEF Ledger, CountsOn, Migrating
<1>2. \A q \in Processes \ {p} : pc[q] \notin Holding
  BY DEF Types, Locked, Holding
<1>3. now[State].kind = "json"
  BY DEF Ledger, CountsOn, Migrating
<1>4. Types'
  BY <1>1 DEF Types, Holding
<1>5. now'[Backup] = Unsynced(Json) /\ \A f \in NameSet \ {Backup} : now'[f] = now[f]
  BY <1>1 DEF Types
<1>6. Locked'
  BY DEF Types, Locked, Holding
<1>7. Ledger'
  <2>1. Sound(now[State])' /\ Sound(disk[State])'
    BY <1>5 DEF Ledger, Sound
  <2>2. ASSUME NEW q \in Processes PROVE CountsOn(q)'
    BY <1>5 DEF Types, Ledger, CountsOn, Migrating, Opening
  <2> QED
    BY <2>1, <2>2 DEF Ledger
<1>8. WholeBackup'
  <2>1. \A q \in Processes \ {p} : pc'[q] = pc[q]
    BY DEF Types
  <2>2. pc'[p] = "sync"
    BY DEF Types
  <2> QED
    BY <1>2, <1>3, <1>5, <2>1, <2>2 DEF Ledger, Sound, WholeBackup, Holding
<1> QED
  BY <1>4, <1>6, <1>7, <1>8

\* The sync makes the backup the legacy state.
LEMMA SyncBackupInv ==
  ASSUME StateFileInv, NEW p \in Processes, SyncBackup(p)
  PROVE  StateFileInv'
<1> USE NameFacts, FileFacts, DbFacts, FileFields DEF StateFileInv, SyncBackup, To, faults, Synced, Write
<1>1. Types'
  BY DEF Types, Holding, Records
<1>2. Locked'
  BY StateFileAssumption DEF Types, Locked, Holding
<1>3. Ledger'
  <2>1. Sound(now[State])' /\ Sound(disk[State])'
    BY DEF Types, Ledger, CountsOn, Sound, Migrating, Opening
  <2>2. ASSUME NEW q \in Processes PROVE CountsOn(q)'
    BY <1>1 DEF Types, Locked, Ledger, CountsOn, Sound, Holding, Migrating, Opening
  <2> QED
    BY <2>1, <2>2 DEF Ledger
<1>4. WholeBackup'
  BY DEF Types, Locked, Ledger, CountsOn, Sound, WholeBackup, Holding, Migrating, Opening
<1> QED
  BY <1>1, <1>2, <1>3, <1>4

\* Then its name is on the disk.
LEMMA SyncBackupDirInv ==
  ASSUME StateFileInv, NEW p \in Processes, SyncBackupDir(p)
  PROVE  StateFileInv'
<1> USE NameFacts, FileFacts, DbFacts, FileFields DEF StateFileInv, SyncBackupDir, To, faults
<1>1. Types'
  BY DEF Types, Holding, Records
<1>2. Locked'
  BY StateFileAssumption DEF Types, Locked, Holding
<1>3. Ledger'
  <2>1. Sound(now[State])' /\ Sound(disk[State])'
    BY DEF Types, Ledger, CountsOn, Sound, Migrating, Opening
  <2>2. ASSUME NEW q \in Processes PROVE CountsOn(q)'
    BY <1>1 DEF Types, Locked, Ledger, CountsOn, Sound, Holding, Migrating, Opening
  <2> QED
    BY <2>1, <2>2 DEF Ledger
<1>4. WholeBackup'
  BY DEF Types, Locked, Ledger, CountsOn, Sound, WholeBackup, Holding, Migrating, Opening
<1> QED
  BY <1>1, <1>2, <1>3, <1>4

\* The import, whose commit syncs the directory, or its failure.
LEMMA ImportInv ==
  ASSUME StateFileInv, NEW p \in Processes, Import(p)
  PROVE  StateFileInv'
<1> USE NameFacts, FileFacts DEF StateFileInv, To, faults
<1>1. now[State] = Json /\ data[p] = Json /\ pc[p] = "import"
  BY DEF Ledger, CountsOn, Migrating, Import
<1>2. \A q \in Processes \ {p} : pc[q] \notin Holding
  BY <1>1 DEF Types, Locked, Holding
<1> DEFINE new == Db({Old}, 1)
<1>3. new \in Files /\ new = writeState(data[p])
  BY <1>1, DbFacts DEF Records, writeState
<1> HIDE DEF new
<1>4. CASE SQLiteCommit(Tmp(p), writeState(data[p])) /\ To(p, "activate") /\ UNCHANGED lock
  <2>1. now' = [now EXCEPT ![Tmp(p)] = new] /\ disk' = now'
    BY <1>3, <1>4 DEF SQLiteCommit
  <2>2. Types'
    BY <1>3, <1>4, <2>1 DEF Types, Holding, Import
  <2>3. now'[Tmp(p)] = new /\ \A f \in NameSet \ {Tmp(p)} : now'[f] = now[f]
    BY <2>1 DEF Types
  <2>4. pc'[p] = "activate" /\ \A q \in Processes \ {p} : pc'[q] = pc[q]
    BY <1>4 DEF Types
  <2>5. Locked'
    BY <1>1, <1>2, <1>4, <2>4 DEF Locked, Holding
  <2>6. Sound(now[State])' /\ Sound(disk[State])'
    BY <2>1, <2>3 DEF Import, Ledger, Sound
  <2>7. ASSUME NEW q \in Processes PROVE CountsOn(q)'
    BY <1>1, <1>2, <2>3, <2>4 DEF Import, Ledger, CountsOn, Holding, Opening, Migrating, new
  <2>8. WholeBackup'
    BY <1>1, <1>2, <2>1, <2>3, <2>4 DEF Import, WholeBackup, Holding
  <2> QED
    BY <2>2, <2>5, <2>6, <2>7, <2>8 DEF Ledger
<1>5. CASE Write(Tmp(p), Absent) /\ To(p, "off") /\ Unlocked(p)
  <2>1. now' = [now EXCEPT ![Tmp(p)] = Absent] /\ disk' = disk
    BY <1>5 DEF Write
  <2>2. Types'
    BY <1>5, <2>1 DEF Types, Holding, Import, Unlocked
  <2>3. \A f \in NameSet \ {Tmp(p)} : now'[f] = now[f]
    BY <2>1 DEF Types
  <2>4. pc'[p] = "off" /\ \A q \in Processes \ {p} : pc'[q] = pc[q]
    BY <1>5 DEF Types
  <2>5. Locked'
    BY <1>2, <2>4 DEF Locked, Holding
  <2>6. Sound(now[State])' /\ Sound(disk[State])'
    BY <2>1, <2>3 DEF Import, Ledger, Sound
  <2>7. ASSUME NEW q \in Processes PROVE CountsOn(q)'
    BY <1>1, <1>2, <2>3, <2>4 DEF Import, Ledger, CountsOn, Holding, Opening, Migrating
  <2>8. WholeBackup'
    BY <1>1, <1>2, <2>1, <2>3, <2>4 DEF Import, WholeBackup, Holding
  <2> QED
    BY <2>2, <2>5, <2>6, <2>7, <2>8 DEF Ledger
<1> QED
  BY <1>4, <1>5 DEF Import

\* The database that takes the place of the legacy state has its record.
LEMMA ActivateInv ==
  ASSUME StateFileInv, NEW p \in Processes, Activate(p)
  PROVE  StateFileInv'
<1> USE NameFacts, FileFacts, DbFacts, FileFields DEF StateFileInv, Activate, To, faults
<1>1. Types'
  BY DEF Types, Holding, Records
<1>2. Locked'
  BY StateFileAssumption DEF Types, Locked, Holding
<1>3. Ledger'
  <2>1. Sound(now[State])' /\ Sound(disk[State])'
    BY DEF Types, Ledger, CountsOn, Sound, Migrating, Opening
  <2>2. ASSUME NEW q \in Processes PROVE CountsOn(q)'
    BY <1>1 DEF Types, Locked, Ledger, CountsOn, Sound, Holding, Migrating, Opening
  <2> QED
    BY <2>1, <2>2 DEF Ledger
<1>4. WholeBackup'
  BY DEF Types, Locked, Ledger, CountsOn, Sound, WholeBackup, Holding, Migrating, Opening
<1> QED
  BY <1>1, <1>2, <1>3, <1>4

\* The new name is on the disk.
LEMMA SyncStateInv ==
  ASSUME StateFileInv, NEW p \in Processes, SyncState(p)
  PROVE  StateFileInv'
<1> USE NameFacts, FileFacts, DbFacts, FileFields DEF StateFileInv, SyncState, To, faults
<1>1. Types'
  BY DEF Types, Holding, Records
<1>2. Locked'
  BY StateFileAssumption DEF Types, Locked, Holding
<1>3. Ledger'
  <2>1. Sound(now[State])' /\ Sound(disk[State])'
    BY DEF Types, Ledger, CountsOn, Sound, Migrating, Opening
  <2>2. ASSUME NEW q \in Processes PROVE CountsOn(q)'
    BY <1>1 DEF Types, Locked, Ledger, CountsOn, Sound, Holding, Migrating, Opening
  <2> QED
    BY <2>1, <2>2 DEF Ledger
<1>4. WholeBackup'
  BY DEF Types, Locked, Ledger, CountsOn, Sound, WholeBackup, Holding, Migrating, Opening
<1> QED
  BY <1>1, <1>2, <1>3, <1>4

\* A kill releases the lock and leaves the files; in the middle of the backup it is a
\* cut-off.
LEMMA KillInv ==
  ASSUME StateFileInv, NEW p \in Processes, Kill(p)
  PROVE  StateFileInv'
<1> USE DEF StateFileInv, Kill, To, Unlocked
<1>1. pc'[p] = "off" /\ \A q \in Processes \ {p} : pc'[q] = pc[q]
  BY DEF Types
<1>2. Types'
  BY DEF Types, Holding
<1>3. Locked'
  BY StateFileAssumption, <1>1 DEF Types, Locked, Holding
<1>4. Ledger'
  <2>1. Sound(now[State])' /\ Sound(disk[State])'
    BY DEF Ledger, Sound
  <2>2. ASSUME NEW q \in Processes PROVE CountsOn(q)'
    BY <1>1 DEF Ledger, CountsOn, Migrating, Opening
  <2> QED
    BY <2>1, <2>2 DEF Ledger
<1>5. WholeBackup'
  BY <1>1, NameFacts DEF Types, WholeBackup
<1> QED
  BY <1>2, <1>3, <1>4, <1>5

\* A power loss leaves, for each name, what was there or what was on the disk, and
\* ends every process.
LEMMA PowerLossInv ==
  ASSUME StateFileInv, PowerLoss
  PROVE  StateFileInv'
<1> USE NameFacts, FileFacts DEF StateFileInv
<1>1. PICK d \in [NameSet -> UNION {Outcomes(f) : f \in NameSet}] :
         (\A f \in NameSet : d[f] \in Outcomes(f)) /\ now' = d /\ disk' = d
  BY DEF PowerLoss
<1>2. \A f \in NameSet : now'[f] \in Outcomes(f) /\ disk'[f] = now'[f]
  BY <1>1
<1>3. \A f \in NameSet : Outcomes(f) \subseteq Files
  BY DEF Types, Outcomes, Survives
<1>4. now'[State] \in {now[State], disk[State]} /\ disk'[State] = now'[State]
  BY <1>2 DEF Outcomes, Survives, Ledger, Sound
<1>5. pc' = [p \in Processes |-> "off"] /\ lock' = None
      /\ UNCHANGED <<data, uses, committed, origin>>
  BY DEF PowerLoss
<1>6. Types'
  <2>1. now' \in [NameSet -> Files] /\ disk' \in [NameSet -> Files]
    BY <1>1, <1>3
  <2> QED
    BY <1>5, <2>1 DEF Types
<1>7. Locked'
  BY <1>5 DEF Locked, Holding
<1>8. Ledger'
  <2>1. Sound(now[State])' /\ Sound(disk[State])'
    BY <1>4, <1>5 DEF Ledger, Sound
  <2>2. ASSUME NEW p \in Processes PROVE CountsOn(p)'
    BY <1>5 DEF CountsOn, Migrating, Opening
  <2> QED
    BY <2>1, <2>2 DEF Ledger
<1>9. WholeBackup'
  <2> SUFFICES ASSUME ~cutOff' PROVE WholeBackup'
    BY DEF WholeBackup
  <2>1. ~cutOff /\ \A p \in Processes : pc[p] \notin {"write", "sync"}
    BY DEF PowerLoss
  <2>2. now[Backup] \in {Absent, Json} /\ disk[Backup] \in {Absent, Json}
    BY <2>1 DEF WholeBackup
  <2>3. now'[Backup] \in {now[Backup], disk[Backup]} /\ disk'[Backup] = now'[Backup]
    BY <1>2, <2>2 DEF Outcomes, Survives
  <2>4. \A p \in Processes : pc'[p] = "off"
    BY <1>5
  <2> QED
    BY <1>4, <1>5, <2>1, <2>2, <2>3, <2>4 DEF WholeBackup
<1> QED
  BY <1>6, <1>7, <1>8, <1>9

\* Every ledger that may be found at first satisfies the invariant.
LEMMA StateFileInit == Init => StateFileInv
<1> SUFFICES ASSUME Init PROVE StateFileInv
  OBVIOUS
<1> USE NameFacts, FileFacts
<1>1. Db({Old}, 0) \in Files /\ Db({Old}, 0).kind = "db" /\ Db({Old}, 0).synced
      /\ Db({Old}, 0).records = {Old}
  BY DbFacts DEF Records
<1>2. origin \in Files
  BY <1>1 DEF Init
<1>3. now[State] = origin /\ disk = now /\ \A f \in NameSet \ {State} : now[f] = Absent
  BY DEF Init
<1>4. Types
  BY <1>1, <1>2 DEF Init, Types, Files
<1>5. Locked
  BY DEF Init, Locked, Holding
<1>6. Ledger
  <2>1. Sound(origin)
    BY <1>1 DEF Init, Sound
  <2>2. ASSUME NEW p \in Processes PROVE CountsOn(p)
    BY DEF Init, CountsOn, Migrating, Opening
  <2> QED
    BY <1>3, <2>1, <2>2 DEF Ledger
<1>7. WholeBackup
  BY <1>1, <1>3 DEF Init, WholeBackup
<1> QED
  BY <1>4, <1>5, <1>6, <1>7 DEF StateFileInv

\* A step of any process, a power loss or no step at all keeps the invariant.
LEMMA StateFileStep == StateFileInv /\ [Next]_vars => StateFileInv'
<1> SUFFICES ASSUME StateFileInv, [Next]_vars PROVE StateFileInv'
  OBVIOUS
<1>1. CASE UNCHANGED vars
  <2>1. Types' /\ Locked' /\ Ledger'
    BY <1>1 DEF vars, StateFileInv, Types, Locked, Ledger, CountsOn, Sound
  <2>2. WholeBackup'
    BY <1>1 DEF vars, StateFileInv, WholeBackup
  <2> QED
    BY <2>1, <2>2 DEF StateFileInv
<1>2. CASE PowerLoss
  BY <1>2, PowerLossInv
<1>3. ASSUME NEW p \in Processes, Step(p) PROVE StateFileInv'
  BY <1>3, StartInv, AcquireInv, LockTimeoutInv, ReleaseInv, OpenInv, CommitInv, RollbackInv,
     EnsureInv, CreateFileInv, CreateSchemaInv, BackUpInv, WriteBackupInv, SyncBackupInv,
     SyncBackupDirInv, ImportInv, ActivateInv, SyncStateInv, KillInv DEF Step
<1> QED
  BY <1>1, <1>2, <1>3 DEF Next

-----------------------------------------------------------------------------
(* The theorems about the ledger's files.                                  *)

\* In every reachable state only the holder of the state lock migrates the ledger, the
\* ledger has every committed record, and the backup is whole unless its writer was
\* cut off (withStateLock, ensureSQLite).
THEOREM StateFileInvariance == Spec => []StateFileInv
BY StateFileInit, StateFileStep, PTL DEF Spec

\* No record of the legacy state, and none whose writer was told that it is saved, is
\* missing from the ledger or from what a power loss may leave of it, whoever creates,
\* migrates, opens and uses it at the same time and whoever is killed (withStateLock).
THEOREM NothingLostHolds == Spec => []NothingLost
<1>1. StateFileInv => NothingLost
  BY DEF StateFileInv, Ledger, Sound, NothingLost, Outcomes, Survives
<1> QED
  BY <1>1, StateFileInvariance, PTL

\* Once a power loss could leave the new database, it could not leave less than the
\* whole legacy state beside it, unless a process was cut off while it wrote the
\* backup (ensureSQLite, writeFileDurably, syncParentDir).
THEOREM BackupKeptHolds == Spec => []BackupKept
<1>1. StateFileInv => BackupKept
  <2> SUFFICES ASSUME StateFileInv, origin.kind = "json", ~cutOff,
                      NEW file \in Outcomes(State), file.kind = "db"
               PROVE  Outcomes(Backup) = {Json}
    BY DEF BackupKept
  <2>1. now[State].kind = "db" \/ disk[State].kind = "db"
    BY DEF StateFileInv, Ledger, Sound, Outcomes, Survives
  <2>2. now[Backup] = Json /\ disk[Backup] = Json
    BY <2>1 DEF StateFileInv, WholeBackup
  <2> QED
    BY <2>2, FileFacts DEF Outcomes, Survives
<1> QED
  BY <1>1, StateFileInvariance, PTL

\* Processes that open a legacy state at the same time never refuse the ledger for the
\* backup another of them is making: only a cut-off leaves one that differs
\* (ensureSQLite's comparison of the backup).
THEOREM RefusalExplainedHolds == Spec => []RefusalExplained
<1>1. StateFileInv => RefusalExplained
  BY DEF StateFileInv, WholeBackup, RefusalExplained
<1> QED
  BY <1>1, StateFileInvariance, PTL

-----------------------------------------------------------------------------
(* Worktrees.  Their invariant speaks of the time before the first mishap: *)
(* until then the lock files exclude.                                      *)

\* Where a process has the lock file of its branch.
UnderLock == {"write", "list", "stat", "add", "checkout", "release"}

LockFiles == [by : Processes, written : BOOLEAN]

WorktreeTypes ==
  /\ wpc \in [Processes -> {"off", "try", "read", "look", "prune", "done", "killed"} \cup UnderLock]
  /\ branch \in [Processes -> Branches \cup {None}] /\ path \in [Processes -> Paths \cup {None}]
  /\ result \in [Processes -> {None, "error", "reused", "created"}]
  /\ listed \in [Processes -> [Branches -> Paths \cup {None}]]
  /\ tree \in [Branches -> Paths \cup {None}]
  /\ wlock \in [Branches -> {None} \cup LockFiles]
  /\ holder \in [Processes -> Processes \cup {None}] /\ mishap \in BOOLEAN
  /\ \A p \in Processes : wpc[p] = "look" => holder[p] \in Processes
  /\ \A p \in Processes : wpc[p] # "off" => branch[p] \in Branches /\ path[p] \in Paths

\* The lock file of a branch names exactly the process that is under the lock, and
\* nobody is removing one.
LockNames ==
  /\ \A p \in Processes : wpc[p] \notin {"killed", "prune"}
  /\ \A p \in Processes :
       wpc[p] \in UnderLock => wlock[branch[p]] # None /\ wlock[branch[p]].by = p
  /\ \A b \in Branches :
       wlock[b] # None => wpc[wlock[b].by] \in UnderLock /\ branch[wlock[b].by] = b

\* A worktree is whole or being checked out by the holder of its lock; what a process
\* has listed of its branch, and what it has answered, is still so.
Checkouts ==
  /\ \A b \in Branches :
       tree[b] # None => b \in whole \/ \E p \in Processes : wpc[p] = "checkout" /\ branch[p] = b
  /\ \A p \in Processes :
       /\ wpc[p] = "stat" => listed[p][branch[p]] = tree[branch[p]]
       /\ wpc[p] = "release" /\ result[p] = "reused" =>
            branch[p] \in whole /\ tree[branch[p]] = path[p]

WorktreeInv == WorktreeTypes /\ (~mishap => LockNames /\ Checkouts)

\* A lock file names a process and is something.
LEMMA LockFileFacts ==
  /\ None \notin LockFiles
  /\ \A f \in LockFiles : f.by \in Processes
  /\ \A p \in Processes : LET f == [by |-> p, written |-> FALSE] IN f \in LockFiles /\ f.by = p
  /\ \A f \in LockFiles : LET g == [f EXCEPT !.written = TRUE] IN g \in LockFiles /\ g.by = f.by
<1>1. None \notin LockFiles
  <2> SUFFICES ASSUME None \in LockFiles PROVE FALSE
    OBVIOUS
  <2>1. None.by \in Processes /\ None.written \in BOOLEAN
        /\ None = [by |-> None.by, written |-> None.written]
    BY DEF LockFiles
  <2> QED
    BY <2>1, WorktreeAssumption
<1>2. \A f \in LockFiles : f.by \in Processes
  BY DEF LockFiles
<1>3. \A p \in Processes : LET f == [by |-> p, written |-> FALSE] IN f \in LockFiles /\ f.by = p
  BY DEF LockFiles
<1>4. \A f \in LockFiles : LET g == [f EXCEPT !.written = TRUE] IN g \in LockFiles /\ g.by = f.by
  BY DEF LockFiles
<1> QED
  BY <1>1, <1>2, <1>3, <1>4

\* Steps under the lock, and steps without it, keep the names in the lock files.
LEMMA LockNamesKept ==
  ASSUME WorktreeTypes, LockNames, UNCHANGED <<wlock, branch>>,
         \A q \in Processes : /\ wpc'[q] \in UnderLock <=> wpc[q] \in UnderLock
                              /\ wpc'[q] \notin {"killed", "prune"}
  PROVE  LockNames'
<1>1. \A b \in Branches : wlock[b] # None => wlock[b].by \in Processes
  BY LockFileFacts DEF WorktreeTypes
<1> QED
  BY <1>1 DEF LockNames


\* A process begins with a branch and a path.
LEMMA StartWorktree ==
  ASSUME WorktreeInv, NEW p \in Processes, NEW b \in Branches, NEW w \in Paths, W!Start(p, b, w)
  PROVE  WorktreeInv'
<1> USE LockFileFacts, WorktreeAssumption DEF W!Start, W!To, W!git
<1>1. WorktreeTypes'
  BY DEF WorktreeInv, WorktreeTypes, UnderLock
<1>2. ASSUME ~mishap' PROVE LockNames' /\ Checkouts'
  <2>1. ~mishap /\ LockNames /\ Checkouts
    BY <1>2 DEF WorktreeInv, LockNames, Checkouts
  <2>2. LockNames'
    BY <1>1, <1>2, <2>1 DEF WorktreeInv, WorktreeTypes, LockNames, UnderLock
  <2>3. Checkouts'
    BY <1>1, <1>2, <2>1, <2>2 DEF WorktreeInv, WorktreeTypes, LockNames, Checkouts, UnderLock
  <2> QED
    BY <2>2, <2>3
<1> QED
  BY <1>1, <1>2 DEF WorktreeInv

\* A lock file is made where there is none.
LEMMA OpenLockWorktree ==
  ASSUME WorktreeInv, NEW p \in Processes, W!OpenLock(p)
  PROVE  WorktreeInv'
<1> USE DEF W!To, W!Ends, W!Lock, W!git
<1> DEFINE new == [by |-> p, written |-> FALSE]
<1>1. new \in LockFiles /\ new.by = p /\ new # None
  BY LockFileFacts
<1>2. branch[p] \in Branches /\ wpc[p] = "try"
  BY DEF W!OpenLock, WorktreeInv, WorktreeTypes
<1> HIDE DEF new
<1>3. CASE wlock[branch[p]] = None /\ wpc' = [wpc EXCEPT ![p] = "write"]
           /\ wlock' = [wlock EXCEPT ![branch[p]] = new] /\ UNCHANGED result
  <2>1. WorktreeTypes'
    BY <1>1, <1>2, <1>3 DEF W!OpenLock, WorktreeInv, WorktreeTypes, UnderLock
  <2>2. /\ wlock'[branch[p]] = new /\ \A b \in Branches \ {branch[p]} : wlock'[b] = wlock[b]
        /\ wpc'[p] = "write" /\ \A q \in Processes \ {p} : wpc'[q] = wpc[q]
    BY <1>2, <1>3 DEF WorktreeInv, WorktreeTypes
  <2>3. ASSUME ~mishap' PROVE LockNames' /\ Checkouts'
    <3>1. ~mishap /\ LockNames /\ Checkouts /\ UNCHANGED <<branch, path, result, listed, tree, whole>>
      BY <2>3, <1>3 DEF W!OpenLock, WorktreeInv
    <3>2. \A q \in Processes : wpc[q] \in UnderLock => branch[q] \in Branches /\ branch[q] # branch[p]
      BY <1>3, <3>1 DEF LockNames, WorktreeInv, WorktreeTypes, UnderLock
    <3>3. \A b \in Branches : wlock[b] # None => wlock[b].by \in Processes /\ wlock[b].by # p
      BY <1>2, <3>1, LockFileFacts DEF LockNames, UnderLock, WorktreeInv, WorktreeTypes
    <3>4. LockNames'
      BY <1>1, <1>2, <2>2, <3>1, <3>2, <3>3 DEF LockNames, UnderLock
    <3>5. Checkouts'
      BY <1>2, <2>2, <3>1 DEF Checkouts
    <3> QED
      BY <3>4, <3>5
  <2> QED
    BY <2>1, <2>3 DEF WorktreeInv
<1>4. CASE wpc' \in {[wpc EXCEPT ![p] = "read"], [wpc EXCEPT ![p] = "done"]} /\ UNCHANGED wlock
           /\ result' \in {result, [result EXCEPT ![p] = "error"]}
  <2>1. WorktreeTypes'
    BY <1>2, <1>4 DEF W!OpenLock, WorktreeInv, WorktreeTypes, UnderLock
  <2>2. wpc'[p] \in {"read", "done"} /\ \A q \in Processes \ {p} : wpc'[q] = wpc[q]
    BY <1>4 DEF WorktreeInv, WorktreeTypes
  <2>3. ASSUME ~mishap' PROVE LockNames' /\ Checkouts'
    <3>1. ~mishap /\ LockNames /\ Checkouts /\ UNCHANGED <<branch, path, listed, tree, whole>>
      BY <2>3 DEF W!OpenLock, WorktreeInv
    <3>2. LockNames'
      BY <1>2, <1>4, <2>2, <3>1, LockNamesKept DEF LockNames, UnderLock, WorktreeInv
    <3>3. \A q \in Processes \ {p} : result'[q] = result[q]
      BY <1>4 DEF WorktreeInv, WorktreeTypes
    <3>4. Checkouts'
      BY <1>2, <2>2, <3>1, <3>3 DEF Checkouts
    <3> QED
      BY <3>2, <3>4
  <2> QED
    BY <2>1, <2>3 DEF WorktreeInv
<1> QED
  BY <1>3, <1>4 DEF W!OpenLock, new

\* The lock file is written by the one it is made for.
LEMMA WriteLockWorktree ==
  ASSUME WorktreeInv, NEW p \in Processes, W!WriteLock(p)
  PROVE  WorktreeInv'
<1> USE DEF W!To, W!Ends, W!Lock, W!git
<1> DEFINE mine == wlock[branch[p]]
           written == [mine EXCEPT !.written = TRUE]
<1>1. branch[p] \in Branches /\ wpc[p] = "write" /\ mine \in LockFiles \cup {None}
  BY DEF W!WriteLock, WorktreeInv, WorktreeTypes
<1>2. mine # None => written \in LockFiles /\ written.by = mine.by /\ written # None
  BY <1>1, LockFileFacts
<1>3. CASE wpc' = [wpc EXCEPT ![p] = "list"] /\ UNCHANGED result
           /\ \/ UNCHANGED wlock
              \/ mine # None /\ wlock' = [wlock EXCEPT ![branch[p]] = written]
  <2> HIDE DEF written
  <2>1. WorktreeTypes'
    BY <1>1, <1>2, <1>3 DEF W!WriteLock, WorktreeInv, WorktreeTypes, UnderLock
  <2>2. /\ \A b \in Branches : /\ wlock'[b] = None <=> wlock[b] = None
                               /\ wlock[b] # None => wlock'[b].by = wlock[b].by
        /\ wpc'[p] = "list" /\ \A q \in Processes \ {p} : wpc'[q] = wpc[q]
    BY <1>1, <1>2, <1>3 DEF WorktreeInv, WorktreeTypes
  <2>3. ASSUME ~mishap' PROVE LockNames' /\ Checkouts'
    <3>1. ~mishap /\ LockNames /\ Checkouts /\ UNCHANGED <<branch, path, result, listed, tree, whole>>
      BY <2>3, <1>3 DEF W!WriteLock, WorktreeInv
    <3>2. \A b \in Branches : wlock[b] # None => wlock[b].by \in Processes
      BY LockFileFacts DEF WorktreeInv, WorktreeTypes
    <3>3. \A q \in Processes : wpc[q] \in UnderLock => branch[q] \in Branches
      BY DEF WorktreeInv, WorktreeTypes, UnderLock
    <3>4. LockNames'
      BY <1>1, <2>2, <3>1, <3>2, <3>3 DEF LockNames, UnderLock
    <3>5. Checkouts'
      BY <1>1, <2>2, <3>1 DEF Checkouts
    <3> QED
      BY <3>4, <3>5
  <2> QED
    BY <2>1, <2>3 DEF WorktreeInv
<1>4. CASE wpc' = [wpc EXCEPT ![p] = "done"] /\ result' = [result EXCEPT ![p] = "error"]
           /\ wlock' = [wlock EXCEPT ![branch[p]] = None]
  <2>1. WorktreeTypes'
    BY <1>1, <1>4 DEF W!WriteLock, WorktreeInv, WorktreeTypes, UnderLock
  <2>2. /\ wlock'[branch[p]] = None /\ \A b \in Branches \ {branch[p]} : wlock'[b] = wlock[b]
        /\ wpc'[p] = "done" /\ \A q \in Processes \ {p} : wpc'[q] = wpc[q] /\ result'[q] = result[q]
    BY <1>1, <1>4 DEF WorktreeInv, WorktreeTypes
  <2>3. ASSUME ~mishap' PROVE LockNames' /\ Checkouts'
    <3>1. ~mishap /\ LockNames /\ Checkouts /\ UNCHANGED <<branch, path, listed, tree, whole>>
      BY <2>3 DEF W!WriteLock, WorktreeInv
    <3>2. \A q \in Processes \ {p} : wpc[q] \in UnderLock => branch[q] \in Branches \ {branch[p]}
      BY <1>1, <3>1 DEF LockNames, WorktreeInv, WorktreeTypes, UnderLock
    <3>3. \A b \in Branches \ {branch[p]} : wlock[b] # None => wlock[b].by \in Processes \ {p}
      BY <3>1, LockFileFacts DEF LockNames, WorktreeInv, WorktreeTypes
    <3>4. LockNames'
      BY <2>2, <3>1, <3>2, <3>3 DEF LockNames, UnderLock
    <3>5. Checkouts'
      BY <1>1, <2>2, <3>1 DEF Checkouts
    <3> QED
      BY <3>4, <3>5
  <2> QED
    BY <2>1, <2>3 DEF WorktreeInv
<1> QED
  BY <1>3, <1>4 DEF W!WriteLock

\* An unwritten lock file has a living writer, so taking it for stale is a mishap.
LEMMA ReadLockWorktree ==
  ASSUME WorktreeInv, NEW p \in Processes, W!ReadLock(p)
  PROVE  WorktreeInv'
<1> USE DEF W!To, W!Lock, W!git, W!unreadableLockStale, W!processAlive
<1>1. branch[p] \in Branches /\ wpc[p] = "read"
  BY DEF W!ReadLock, WorktreeInv, WorktreeTypes
<1>2. wlock[branch[p]] # None => wlock[branch[p]].by \in Processes
  BY <1>1, LockFileFacts DEF WorktreeInv, WorktreeTypes
<1>3. WorktreeTypes'
  BY <1>1, <1>2 DEF W!ReadLock, WorktreeInv, WorktreeTypes, UnderLock
<1>4. ASSUME ~mishap' PROVE LockNames' /\ Checkouts'
  <2>1. ~mishap
    BY <1>4, Zenon DEF W!ReadLock
  <2>2. LockNames /\ Checkouts /\ UNCHANGED <<branch, path, result, listed, tree, whole, wlock>>
    BY <2>1 DEF W!ReadLock, WorktreeInv
  <2>3. wpc'[p] \in {"try", "look"} /\ \A q \in Processes \ {p} : wpc'[q] = wpc[q]
    <3>1. wpc' # [wpc EXCEPT ![p] = "prune"] \/ wlock[branch[p]] = None
            \/ wpc[wlock[branch[p]].by] \in {"killed", "done"}
      BY <1>4, <1>1 DEF W!ReadLock, WorktreeInv, WorktreeTypes
    <3> QED
      BY <1>1, <2>2, <3>1 DEF W!ReadLock, LockNames, UnderLock, WorktreeInv, WorktreeTypes
  <2>4. LockNames'
    BY <1>1, <2>2, <2>3, LockNamesKept DEF LockNames, UnderLock, WorktreeInv
  <2>5. Checkouts'
    BY <1>1, <2>2, <2>3 DEF Checkouts
  <2> QED
    BY <2>4, <2>5
<1> QED
  BY <1>3, <1>4 DEF WorktreeInv

\* A holder that is found gone has ended just then, which is a mishap.
LEMMA LookForHolderWorktree ==
  ASSUME WorktreeInv, NEW p \in Processes, W!LookForHolder(p)
  PROVE  WorktreeInv'
<1> USE DEF W!To, W!Ends, W!git, W!processAlive
<1>1. holder[p] \in Processes /\ wpc[p] = "look"
  BY DEF W!LookForHolder, WorktreeInv, WorktreeTypes
<1>2. WorktreeTypes'
  BY <1>1 DEF W!LookForHolder, WorktreeInv, WorktreeTypes, UnderLock
<1>3. ASSUME ~mishap' PROVE LockNames' /\ Checkouts'
  <2>1. ~mishap
    BY <1>3 DEF W!LookForHolder
  <2>2. LockNames /\ Checkouts /\ UNCHANGED <<branch, path, listed, tree, whole, wlock>>
    BY <2>1 DEF W!LookForHolder, WorktreeInv
  <2>3. wpc[holder[p]] \notin {"killed", "done"}
    BY <1>1, <1>3, <2>2 DEF W!LookForHolder, LockNames
  <2>4. wpc'[p] = "done" /\ \A q \in Processes \ {p} : wpc'[q] = wpc[q] /\ result'[q] = result[q]
    BY <2>3 DEF W!LookForHolder, WorktreeInv, WorktreeTypes
  <2>5. LockNames'
    BY <1>1, <2>2, <2>4, LockNamesKept DEF LockNames, UnderLock, WorktreeInv
  <2>6. Checkouts'
    BY <1>1, <2>2, <2>4 DEF Checkouts
  <2> QED
    BY <2>5, <2>6
<1> QED
  BY <1>2, <1>3 DEF WorktreeInv

\* A lock is removed as stale only after a mishap.
LEMMA PruneWorktree ==
  ASSUME WorktreeInv, NEW p \in Processes, W!Prune(p)
  PROVE  WorktreeInv'
<1> USE LockFileFacts, WorktreeAssumption DEF W!Prune, W!To, W!git
<1>1. WorktreeTypes'
  BY DEF WorktreeInv, WorktreeTypes, UnderLock
<1>2. ASSUME ~mishap' PROVE LockNames' /\ Checkouts'
  <2>1. ~mishap /\ LockNames /\ Checkouts
    BY <1>2 DEF WorktreeInv, LockNames, Checkouts
  <2>2. LockNames'
    BY <1>1, <1>2, <2>1 DEF WorktreeInv, WorktreeTypes, LockNames, UnderLock
  <2>3. Checkouts'
    BY <1>1, <1>2, <2>1, <2>2 DEF WorktreeInv, WorktreeTypes, LockNames, Checkouts, UnderLock
  <2> QED
    BY <2>2, <2>3
<1> QED
  BY <1>1, <1>2 DEF WorktreeInv

\* The holder removes its own lock file.
LEMMA ReleaseWorktree ==
  ASSUME WorktreeInv, NEW p \in Processes, W!Release(p)
  PROVE  WorktreeInv'
<1> USE LockFileFacts, WorktreeAssumption DEF W!Release, W!To, W!git
<1>1. WorktreeTypes'
  BY DEF WorktreeInv, WorktreeTypes, UnderLock
<1>2. ASSUME ~mishap' PROVE LockNames' /\ Checkouts'
  <2>1. ~mishap /\ LockNames /\ Checkouts
    BY <1>2 DEF WorktreeInv, LockNames, Checkouts
  <2>2. LockNames'
    BY <1>1, <1>2, <2>1 DEF WorktreeInv, WorktreeTypes, LockNames, UnderLock
  <2>3. Checkouts'
    BY <1>1, <1>2, <2>1, <2>2 DEF WorktreeInv, WorktreeTypes, LockNames, Checkouts, UnderLock
  <2> QED
    BY <2>2, <2>3
<1> QED
  BY <1>1, <1>2 DEF WorktreeInv

\* The list is taken under the lock.
LEMMA ListWorktreesWorktree ==
  ASSUME WorktreeInv, NEW p \in Processes, W!ListWorktrees(p)
  PROVE  WorktreeInv'
<1> USE DEF W!ListWorktrees, W!To, W!git, W!Answers, W!Ends
<1>1. WorktreeTypes'
  BY DEF WorktreeInv, WorktreeTypes, UnderLock
<1>2. ASSUME ~mishap' PROVE LockNames' /\ Checkouts'
  <2>1. ~mishap /\ LockNames /\ Checkouts
    BY <1>2 DEF WorktreeInv, LockNames, Checkouts
  <2>2. LockNames'
    <3>1. \A q \in Processes : /\ wpc'[q] \in UnderLock <=> wpc[q] \in UnderLock
                               /\ wpc'[q] \notin {"killed", "prune"}
      BY <1>2, <2>1 DEF WorktreeInv, WorktreeTypes, LockNames, UnderLock
    <3> QED
      BY <2>1, <3>1, LockNamesKept DEF WorktreeInv
  <2>3. Checkouts'
    BY <1>1, <1>2, <2>1, <2>2 DEF WorktreeInv, WorktreeTypes, LockNames, Checkouts, UnderLock
  <2> QED
    BY <2>2, <2>3
<1> QED
  BY <1>1, <1>2 DEF WorktreeInv

\* A worktree that is answered as reused is nobody's unfinished checkout.
LEMMA StatPathWorktree ==
  ASSUME WorktreeInv, NEW p \in Processes, W!StatPath(p)
  PROVE  WorktreeInv'
<1> USE DEF W!StatPath, W!To, W!git, W!Exists, W!Managed, W!Answers, W!Ends
<1>1. WorktreeTypes'
  BY DEF WorktreeInv, WorktreeTypes, UnderLock
<1>2. ASSUME ~mishap' PROVE LockNames' /\ Checkouts'
  <2>1. ~mishap /\ LockNames /\ Checkouts
    BY <1>2 DEF WorktreeInv, LockNames, Checkouts
  <2>2. LockNames'
    <3>1. \A q \in Processes : /\ wpc'[q] \in UnderLock <=> wpc[q] \in UnderLock
                               /\ wpc'[q] \notin {"killed", "prune"}
      BY <1>2, <2>1 DEF WorktreeInv, WorktreeTypes, LockNames, UnderLock
    <3> QED
      BY <2>1, <3>1, LockNamesKept DEF WorktreeInv
  <2>3. Checkouts'
    <3>1. wpc[p] = "stat" /\ branch[p] \in Branches /\ path[p] \in Paths
      BY DEF WorktreeInv, WorktreeTypes
    <3>2. wpc'[p] \in {"add", "release"} /\ \A q \in Processes \ {p} : wpc'[q] = wpc[q]
      BY DEF WorktreeInv, WorktreeTypes
    <3>3. \A q \in Processes \ {p} : result'[q] = result[q]
      BY DEF WorktreeInv, WorktreeTypes
    <3>4. \A q \in Processes \ {p} : wpc[q] = "checkout" => branch[q] # branch[p]
      BY <2>1, <3>1 DEF LockNames, UnderLock
    <3>5. wpc'[p] = "release" /\ result'[p] = "reused" =>
            branch[p] \in whole /\ tree[branch[p]] = path[p]
      <4>1. SUFFICES ASSUME wpc'[p] = "release", result'[p] = "reused"
                     PROVE  branch[p] \in whole /\ tree[branch[p]] = path[p]
        OBVIOUS
      <4>2. listed[p][branch[p]] = path[p]
        BY <4>1 DEF WorktreeInv, WorktreeTypes
      <4>3. tree[branch[p]] = path[p] /\ path[p] # None
        BY <2>1, <3>1, <4>2, WorktreeAssumption DEF Checkouts
      <4> QED
        BY <2>1, <3>1, <3>4, <4>3 DEF Checkouts
    <3> QED
      BY <2>1, <3>1, <3>2, <3>3, <3>5 DEF Checkouts
  <2> QED
    BY <2>2, <2>3
<1> QED
  BY <1>1, <1>2 DEF WorktreeInv

\* A new worktree is the holder's to check out.
LEMMA AddWorktreeWorktree ==
  ASSUME WorktreeInv, NEW p \in Processes, W!AddWorktree(p)
  PROVE  WorktreeInv'
<1> USE DEF W!AddWorktree, W!To, W!git, W!Exists, W!Answers, W!Ends
<1>1. WorktreeTypes'
  BY DEF WorktreeInv, WorktreeTypes, UnderLock
<1>2. ASSUME ~mishap' PROVE LockNames' /\ Checkouts'
  <2>1. ~mishap /\ LockNames /\ Checkouts
    BY <1>2 DEF WorktreeInv, LockNames, Checkouts
  <2>2. LockNames'
    <3>1. \A q \in Processes : /\ wpc'[q] \in UnderLock <=> wpc[q] \in UnderLock
                               /\ wpc'[q] \notin {"killed", "prune"}
      BY <1>2, <2>1 DEF WorktreeInv, WorktreeTypes, LockNames, UnderLock
    <3> QED
      BY <2>1, <3>1, LockNamesKept DEF WorktreeInv
  <2>3. Checkouts'
    <3>1. wpc[p] = "add" /\ branch[p] \in Branches /\ path[p] \in Paths
      BY DEF WorktreeInv, WorktreeTypes
    <3>2. wpc'[p] \in {"checkout", "release"} /\ \A q \in Processes \ {p} : wpc'[q] = wpc[q]
      BY DEF WorktreeInv, WorktreeTypes
    <3>3. \A q \in Processes \ {p} : wpc[q] \in UnderLock => branch[q] \in Branches \ {branch[p]}
      BY <2>1, <3>1 DEF LockNames, UnderLock, WorktreeInv, WorktreeTypes
    <3>4. \A b \in Branches \ {branch[p]} : tree'[b] = tree[b]
      BY DEF WorktreeInv, WorktreeTypes
    <3>5. CASE wpc'[p] = "checkout" /\ UNCHANGED result
      BY <2>1, <3>1, <3>2, <3>3, <3>4, <3>5 DEF Checkouts, UnderLock
    <3>6. CASE wpc'[p] = "release" /\ UNCHANGED tree /\ result' = [result EXCEPT ![p] = "error"]
      <4>1. result'[p] = "error" /\ \A q \in Processes \ {p} : result'[q] = result[q]
        BY <3>6 DEF WorktreeInv, WorktreeTypes
      <4> QED
        BY <2>1, <3>1, <3>2, <3>6, <4>1 DEF Checkouts
    <3> QED
      BY <3>5, <3>6 DEF WorktreeInv, WorktreeTypes
  <2> QED
    BY <2>2, <2>3
<1> QED
  BY <1>1, <1>2 DEF WorktreeInv

\* A checkout completes; one that fails is a mishap.
LEMMA CheckOutWorktree ==
  ASSUME WorktreeInv, NEW p \in Processes, W!CheckOut(p)
  PROVE  WorktreeInv'
<1> USE DEF W!CheckOut, W!To, W!git, W!Answers, W!Ends
<1>1. WorktreeTypes'
  BY DEF WorktreeInv, WorktreeTypes, UnderLock
<1>2. ASSUME ~mishap' PROVE LockNames' /\ Checkouts'
  <2>1. ~mishap /\ LockNames /\ Checkouts
    BY <1>2 DEF WorktreeInv, LockNames, Checkouts
  <2>2. LockNames'
    <3>1. \A q \in Processes : /\ wpc'[q] \in UnderLock <=> wpc[q] \in UnderLock
                               /\ wpc'[q] \notin {"killed", "prune"}
      BY <1>2, <2>1 DEF WorktreeInv, WorktreeTypes, LockNames, UnderLock
    <3> QED
      BY <2>1, <3>1, LockNamesKept DEF WorktreeInv
  <2>3. Checkouts'
    BY <1>1, <1>2, <2>1, <2>2 DEF WorktreeInv, WorktreeTypes, LockNames, Checkouts, UnderLock
  <2> QED
    BY <2>2, <2>3
<1> QED
  BY <1>1, <1>2 DEF WorktreeInv

\* A kill is a mishap.
LEMMA KillWorktree ==
  ASSUME WorktreeInv, NEW p \in Processes, W!Kill(p)
  PROVE  WorktreeInv'
<1> USE LockFileFacts, WorktreeAssumption DEF W!Kill, W!To, W!git, W!processAlive
<1>1. WorktreeTypes'
  BY DEF WorktreeInv, WorktreeTypes, UnderLock
<1>2. ASSUME ~mishap' PROVE LockNames' /\ Checkouts'
  <2>1. ~mishap /\ LockNames /\ Checkouts
    BY <1>2 DEF WorktreeInv, LockNames, Checkouts
  <2>2. LockNames'
    BY <1>1, <1>2, <2>1 DEF WorktreeInv, WorktreeTypes, LockNames, UnderLock
  <2>3. Checkouts'
    BY <1>1, <1>2, <2>1, <2>2 DEF WorktreeInv, WorktreeTypes, LockNames, Checkouts, UnderLock
  <2> QED
    BY <2>2, <2>3
<1> QED
  BY <1>1, <1>2 DEF WorktreeInv

\* A worktree is removed only while nobody is at work on its branch.
LEMMA RemoveWorktree ==
  ASSUME WorktreeInv, NEW b \in Branches, W!Remove(b)
  PROVE  WorktreeInv'
<1> USE LockFileFacts, WorktreeAssumption DEF W!Remove, W!call
<1>1. WorktreeTypes'
  BY DEF WorktreeInv, WorktreeTypes, UnderLock
<1>2. ASSUME ~mishap' PROVE LockNames' /\ Checkouts'
  <2>1. ~mishap /\ LockNames /\ Checkouts
    BY <1>2 DEF WorktreeInv, LockNames, Checkouts
  <2>2. LockNames'
    BY <1>1, <1>2, <2>1 DEF WorktreeInv, WorktreeTypes, LockNames, UnderLock
  <2>3. Checkouts'
    BY <1>1, <1>2, <2>1, <2>2 DEF WorktreeInv, WorktreeTypes, LockNames, Checkouts, UnderLock
  <2> QED
    BY <2>2, <2>3
<1> QED
  BY <1>1, <1>2 DEF WorktreeInv

\* Before any process runs there is no lock file and no worktree.
LEMMA WorktreeInit == W!Init => WorktreeInv
<1> SUFFICES ASSUME W!Init PROVE WorktreeInv
  OBVIOUS
<1>1. WorktreeTypes
  BY DEF W!Init, WorktreeTypes
<1>2. LockNames /\ Checkouts
  BY DEF W!Init, LockNames, Checkouts, UnderLock
<1> QED
  BY <1>1, <1>2 DEF WorktreeInv

\* A step of any process, or none, keeps the invariant.
LEMMA WorktreeStep == WorktreeInv /\ [W!Next]_W!vars => WorktreeInv'
<1> SUFFICES ASSUME WorktreeInv, [W!Next]_W!vars PROVE WorktreeInv'
  OBVIOUS
<1>1. CASE UNCHANGED W!vars
  BY <1>1 DEF W!vars, W!call, W!git, WorktreeInv, WorktreeTypes, LockNames, Checkouts
<1>2. CASE \E b \in Branches : W!Remove(b)
  BY <1>2, RemoveWorktree
<1>3. ASSUME NEW p \in Processes, NEW b \in Branches, NEW w \in Paths, W!Start(p, b, w)
      PROVE  WorktreeInv'
  BY <1>3, StartWorktree
<1>4. ASSUME NEW p \in Processes,
             \/ W!OpenLock(p) \/ W!WriteLock(p) \/ W!ReadLock(p) \/ W!LookForHolder(p) \/ W!Prune(p)
             \/ W!Release(p) \/ W!ListWorktrees(p) \/ W!StatPath(p) \/ W!AddWorktree(p)
             \/ W!CheckOut(p) \/ W!Kill(p)
      PROVE  WorktreeInv'
  BY <1>4, OpenLockWorktree, WriteLockWorktree, ReadLockWorktree, LookForHolderWorktree, PruneWorktree,
     ReleaseWorktree, ListWorktreesWorktree, StatPathWorktree, AddWorktreeWorktree, CheckOutWorktree,
     KillWorktree
<1> QED
  BY <1>1, <1>2, <1>3, <1>4 DEF W!Next

\* Until the first mishap a worktree that Git.Create hands out for reuse is completely
\* checked out and has the branch that was asked for, however many processes create
\* worktrees, wait for each other's locks and give up.
THEOREM ReuseIsWholeHolds == W!Spec => []ReuseIsWhole
<1>1. WorktreeInv => ReuseIsWhole
  BY DEF WorktreeInv, Checkouts, ReuseIsWhole, W!ReuseIsWhole
<1> QED
  BY <1>1, WorktreeInit, WorktreeStep, PTL DEF W!Spec
=============================================================================
