# Verification of codex-swarm

TLA+ models of codex-swarm: the `cs` command line, the `csd` daemon, the SQLite
ledger they share, and the Cloudflare relay between hosts.  Every module is
translated from the code; `PROJECT.json` maps each definition to its lines.

## The system

| part | state it keeps | operations | what is hard |
|---|---|---|---|
| relay coordinator (`coordinator/src/index.js`) | D1 tables tasks, messages, attempts, receipts, claims | one HTTP handler per route, each one transactional batch; a daily compaction | replays, requests that arrive after their client gave up, quotas, a retention that deletes what makes replays safe |
| relay receiver (`internal/relay`, `csd relay`) | a journal (`relay.db`) with one open row at most, a file lock | `Runner.Once`: claim, inspect, decide, submit, report, recover | crashes around the external `codex queue` process, lost answers, one stuck row blocks the host |
| relay enrollment (`AutoEnroll`, `cs relay register`) | the journal's allowlist, the coordinator's tasks table | register, disable, the SessionStart hook | two stores updated in sequence, late requests |
| message ledger (`internal/store/coordination.go`, `internal/coordination`) | messages, deliveries, replay records, timeline | create, update delivery, prune, steer | request replay against pruning, quotas, the CLI and the daemon delivering the same message |
| worker ledger (`internal/store/json.go`, `native_task.go`, `closeout.go`, `internal/lifecycle`) | workers, their status, lifecycle, events | save, update, reserve, bind, close | read-modify-write of one state by several processes |
| app-server spawn and client (`internal/daemon`, `internal/appserver`) | launches, sessions, pending calls, a bounded notification queue | spawn, turn, steer, detach, read loop | callbacks, a full queue, closing while calls are pending |
| dispatch (`internal/dispatch`) | workers created per request | execute | check then act over two transactions |
| task index and collections (`store/codex_tasks.go`, `codex_task_collections.go`) | indexed Codex tasks with watermarks, records of ingestions, staged collections | ingest, add page, finish, list by pages | snapshots out of order, interrupted paging, several caps, a list that moves under its reader |
| decisions and operations (`cmd/cs/decision.go`, `store/decisions.go`, `internal/operation`) | decisions, their supersession and provenance; operations are derived, not stored | record, supersede, resolve | four transactions per command, lineages that are cyclic or move, the order of a Go map |
| native task dispatch (`store/native_task.go`, `cmd/cs/dispatch.go`) | reservations and bindings in worker rows, a cache of completed mutations | prepare, bind, attach, close by the task | two coordinators and the tasks they made, a cache that forgets |
| worker status (`internal/lifecycle`, `store/store.go`) | each row says its status twice | apply, normalise at every save and read | the two disagree after a legacy write |
| `cs spawn` (`cmd/cs/main.go`, `appserver_runtime.go`) | a worktree, a pending row, a runtime that was asked | create, post, wait, read back | a daemon that loses requests or answers, a deadline beside a turn that starts |
| Bifrost (`internal/bifrost`, `cmd/cs/bifrost*.go`) | local records of remote changesets; bundles | begin, write, commit, abort; prepare, register, activate, rollback | lost answers, saves that fail, a workspace that is edited while it is packed |
| claim exchange (`cmd/cs/issue.go`, `legacy.go`) | claims of several machines, marker comments on an issue | sync, pull, legacy import | what is published replaces what others published |
| worktrees (`internal/worktree`) | git worktrees, a lock file per branch | create or reuse | stale locks, killed processes |
| claims (`internal/claims`, `cmd/cs/claims.go`, `janitor.go`) | advisory claims with scope, owner, status, expiry | create, release, block, janitor release, closeout | read-modify-write over two transactions, overlap by path components |
| file touches (`RecordFileTouch`, `Service.Touch`) | recent touches, conflict messages | touch | a touch and its warnings are several transactions, and a retry repeats them |
| state file and its lock (`store/json.go`) | the legacy JSON file, its backup, the database, a lock | open, import, replace | a kill between two steps, a power loss before a sync, a check made without the lock |

`PROJECT.json` lists every part, also the ones not modelled, and the hazards at
their lines.

### How the parts interact

`cs` processes, the `csd` daemon and caller-owned `csd` runtimes share one SQLite
file.  Every store method takes the state lock and runs one transaction, so a
store method is one step and everything between two of them is open to others.
Most commands are two or three such steps: a read, a decision in memory and a
write.  That is where the properties aim.  The daemon adds goroutines and in-memory
maps (launches, sessions) that die with it; the app-server client adds a child
process and channels; the relay adds HTTP requests that may be processed after
their client gave up.

### What makes each part correct

- relay: a message is handed to Codex at most once; a lease is never stranded; a
  revoked task receives nothing; what is queued is eventually settled.
- messages: one message per request as long as the ledger promises to remember it;
  nothing pending is pruned; a delivery recorded as received was received.
- app-server: one first turn per worker; an identity that was answered is durable;
  an operation that does not end has a named reason; a completion is genuine.
- closeout: applied once per request, and success means closed and forwarded.
- claims and touches: of two overlapping holders or writers someone has been told,
  nobody is told of an overlap that is not there, and closeout leaves no open claim.
- dispatch: one pair per request, and no validator without its implementer.
- workers: a bind that succeeded is true, a task closes only its own worker, and the
  status a command asked for is the one that is read.
- spawn command: a second runtime is asked only when the first has not got the request,
  and a deadline never calls a running turn failed.
- decisions: a resolution does not depend on the order of a map, gaps are recorded, and
  a retry is answered.
- state file: no record that was acknowledged is lost, and a new database never stands
  without the legacy copy.
- Bifrost: an orphaned changeset is explained, records are repaired by the next command,
  packed files are whole, and a registration that is reported has these contents.
- claim exchange and worktrees: a pull never puts an older claim over a newer one, and
  a worktree that is reused is complete.
- task index: a row says what the newest snapshot said; a task is called missing only
  by a listing that was read to its end; a snapshot is published once.

## Modules

| module | models | run | proofs |
|---|---|---|---|
| `Mailbox` | what the relay promises: posted, leased, handed over at most once, status only forward | `relay` | |
| `Relay` | coordinator tables, host journals, `Runner.Once`, the network and the `codex queue` processes; implements `Mailbox` | `relay` | `RelayProofs` |
| `RelayEnrollment` | the two enrollment commands, their lock and their late requests | `remote` | `RemoteProofs` |
| `MessageLedger` | message rows, deliveries, replay records, their pruning | `message_ledger` | `RequestProofs` |
| `MessageDelivery` | turns that poll and steer, the commands of the native host and the `codex queue` child, over the deliveries of one worker | `message_delivery` | `MessageDeliveryProofs` |
| `AppserverClient` | the JSON-RPC client: caller and reader goroutines, the notification channel, the child process | `spawn`, `appserver` | `AppserverSpawnProofs` |
| `AppserverSpawn` | spawn requests at several `csd` processes for one worker row | `spawn` | `AppserverSpawnProofs` |
| `SpawnCommand` | one `cs spawn`, from its workspace to what it prints | `spawn` | `AppserverSpawnProofs` |
| `WorkerStatus`, `NativeTask` | status and lifecycle of a row; reservations, bindings and the tasks themselves | `workers` | `WorkersProofs` |
| `Closeout` | `cs close` with its retries, the cache of completed mutations, the commands that reopen a worker | `closeout` | `WorkersProofs` |
| `ClaimLedger` | claims, their overlap, updates, janitor and closeout | `closeout` | `WorkersProofs` |
| `FileTouch` | touches of one file, conflicts and warnings | `workers` | `WorkersProofs` |
| `ClaimImport` | claims of machines that sync and pull through an issue, and the legacy import | `remote` | `RemoteProofs` |
| `TaskIndex` | snapshots, their records, collections by pages | `tasks` | `TaskIndexProofs` |
| `TaskListing` | a reader that walks the index while it changes | `tasks` | `TaskIndexProofs` |
| `Dispatch` | dispatch calls, validate start, the bounded event logs | `tasks` | `TaskIndexProofs` |
| `Operation`, `Decisions` | how records belong to operations; the decision commands | `evidence` | `RequestProofs` (not `Operation`) |
| `BifrostChangeset` | records of remote changesets | `remote` | `RemoteProofs` |
| `BifrostDeployment` | packing, registering and activating a deployment | `remote` | `RemoteProofs` |
| `StateFile` | how a process opens the ledger, down to files and directory entries | `state_file` | `StateFileProofs` |
| `Worktree` | `Git.Create` under its lock file | `state_file` | `StateFileProofs` |

An `MC` module only names instances for TLC.  `MCRemote`, `MCSpawn`, `MCWorkers`,
`MCTasks`, `MCRequests` and `MCStateFile` hold two to four components
that share no state.  They are checked *by turns*: the initial state chooses one of them
(`turn` or `side`), only that one takes steps, and what the others would choose
initially is pinned.  The reachable states are the disjoint union of those of the
components, so a property of one is checked exactly as if it were alone.  `Sides` of
`MCWorkers`, and that of `MCRequests`, says which components a run checks.

Definitions marked "Mutant" in a comment are plausible bugs of a definition:
`PROJECT.json` pairs each property with one that breaks it.

## The relay

The variables of `Relay` are the columns of the coordinator's tables and of the
newest journal row; older rows are `done` and never read again, and no row is
added while one is open.  `Runner.Once` is one action per step that a crash or a
lost answer can separate from the next: `Open`, `Claim`, `Inspect`, `Decide`,
`StartSubmit`, `SubmitReturns`, `Recover`, `Report`.  `pc` says where Once is in
its window without a journal write; between two windows a crash changes
nothing, because the next poll re-reads the journal.  A call that its client gave
up stays in `lateClaims` or `lateReceipts` and may be processed any number of
times.  The `codex queue` process is outside the program: it may queue its prompt
at any time after it was started, also after the receiver died.

Abstractions: a message is a model value with its task, target and sender;
request IDs are the numbers of the host's claim requests; quotas are constants;
timestamps are a counter that orders messages; compaction takes one record at a
time, 30 days after it completed, when no request about it still travels.

## Messages

`MessageLedger` has one action per store method: `Stamp` (the caller reads the
clock; `at` is the place of that stamp in the order of the stored texts, which is what the
store compares), `CreateMessage` (known, refused, or inserted with the pruning it ends with) and
`UpdateDelivery`.  Stamps and commits may come in different orders.  A payload stands
for everything the fingerprint hashes.  Delivery events, an audit copy, are left out.

`MessageDelivery` starts where the ledger ends: for the deliveries of one worker,
each turn loads what is queued, puts it into its prompt or steers it, and records
the outcome later; the native host injects and confirms.  What the task really
received is a history variable, and the properties compare it with what the ledger
says.  A submission to `codex queue` is taken, fails, or ends unknown
(`QueueAccepts`, `QueueFails`, `QueueUncertain`): the child may have queued the text
and still exit with an error.  The two modules share no action.

## App-server

`AppserverClient`: the caller's program counter walks the sequence of calls of
`Check`, `Resume`, `SteerTurn` or `runTurn`; the reader takes the server's output,
fills the one pending call or the channel of capacity `QueueCap`, and blocks when it
is full; only the wait for the turn empties it.  Go's `select` is a choice among the ready cases.

`AppserverSpawn`: handlers read the worker, join or create a launch, record the
request; a run starts the turn, observes it, writes the end, forwards the completion.
`row` is the worker's durable record, `launches` the map of each process.  A crash
empties the map and leaves the row; a shutdown lets runs end.

`SpawnCommand`: `CreateWorkspace`, `BuildIssue`, `SavePending`, `Status`, `Post`,
`CallerRuntime`, `Wait`, `Confirm`, `ReadBack`, `Show` and `MarkUncertain` are the
command in the order of the code; `Accept`, `StartTurn` and `EndTurn` are the three
transactions of a runtime on the row.  `Post` separates whether the request arrived from
what the command heard.  The thread of a runtime has its name, so that "which runtime's
identity was printed" can be asked.

## Workers

`WorkerStatus` has operators only: `ApplyStatusAt` and the two derivations between
status and lifecycle, with the normalisation that every save and every read ends with.
`NativeTask` uses them in every write.  A coordinator walks prepare, create, read,
bind; the host's task looks its worker up and closes it; after a death another
coordinator comes with the same request ID.  The cache of completed mutations is a
sequence of length `CacheCap` that the commands of others (`Mutate`) also fill; `attached`,
`reserves` and `since` are history.

## Closeout, claims, touches, dispatch

`Closeout`: an invocation reads, closes, composes, stores the message and records its
timeline, each a step after which it may die; a retry is another invocation with the same request ID.  The cache of completed
mutations is a bounded sequence that other commands push on.

`ClaimLedger`: create is one transaction and reports the conflicts of its snapshot;
release and block read in one and save in another; the janitor lists workers, lists
claims and saves candidates one by one.  A path is a sequence of components, and the
overlap the code computes is compared with sharing a path of the tree.

`FileTouch`: a call reads the clock, records the touch (prune, search, insert in one
transaction) and stores its warnings one by one under request IDs numbered by place.
A request may be sent again, also while the first call is at work.  How long a call
waits for the lock after reading the clock is bounded by `MaxLag`; two touches count
as made together when they are `MaxLag` closer than the retention, because a third
touch with a later clock may prune in between.  The first version of `BothWarned`
without that margin fails, at the very edge of the 30 minutes.  The query returns the
newest `ConflictCap` rows and the loop keeps the newest of each peer; both are stated by
what they contain, rows of the same time being in any order.  A file that more others
write than the query returns (`Crowded`) is an exception that `BothWarned` names; with a
cap of two the run reaches it, while every warning stays true.

`ClaimImport`: each machine has its own table.  A sync finds the marker comment, reads
its own claims and replaces what is published; a pull fetches, plans claim by claim and
imports.  Updates of the machine's workers come between any two of these steps.  Times
are a clock of `MaxClock` ticks, so that equal and older stamps both occur.

`Dispatch`: list and save are two steps; the dispatch event is found as long as
fewer than `EventCap` events follow it.

## Codex task index

`TaskIndex` has one action per store method: `IngestCodexTasks`, `OpenCollection` and
`AddPage` (the two halves of `AddCodexTaskCollectionPage`), and
`FinishCodexTaskCollection`, which ingests and finalizes in one transaction.  A row
keeps what decides a merge: time and request ID of the snapshot that last wrote it,
whether the task is missing or tombstoned, its source, and the watermark of its
classification; titles and other metadata move with the row and are left out.  The pages
a collector sends come from a constant set per observation, so that a collector which
starts again may meet another listing.  `heard`, `classified` and `applied` are history.
A refused request rolls back and is no step; neither is a replay that only answers.

`TaskListing` is the reader: `Ingest` changes rows, `ListCodexTasks` returns the rows after
the cursor in the order of `last_seen_at` and key.  `wanted` is the history variable of
the tasks that kept their place since the walk began, which is what a cursor can
promise.

## Decisions and operations

`Operation` has `ResolveWorkers`, the memoised search with the cycle check of the code,
parameterised by the order in which a Go map gives its keys, and `ResolutionOf`, what it
is meant to find; `ResolutionsAgree` compares them on every ledger the commands reach.
`Decisions` has one action per transaction of record and supersede.  What a supersede
leaves out is taken from the decision it replaces (`Completed`), its evidence too unless
the line has `--clear-evidence`; a record has no prior (`NoPrior`) and is refused without
an author.  `Attach` stands for `cs attach`, which replaces parent, thread and host.  Texts are part of
the command line, which is a model value; a citation is a reference to a record, to a
decision, or mistyped.

## State file and worktrees

`StateFile` keeps the directory twice: as processes see it and as it is on the disk.
A sync of a file or of a directory makes the two agree; a power loss chooses for
every entry that was not synced the old or the new one, and tears a file whose content
was not synced.  `Outcomes(name)` is the set of what a power loss could leave, so
`NothingLost` and `BackupKept` are stated about every possible loss at every moment.
`Worktree` has one action per file or git operation of `Git.Create`; `mishap` is the
history of kills, of pauses of 30 s and of the end of a process between two looks.

## Bifrost

`BifrostChangeset`: a command reads its record, makes one remote call and saves the
whole record; answers may be lost and saves may fail.  `BifrostDeployment`: prepare
walks the files, opens each and reads it block by block while editors write in place or
replace; register sends the closure and on a conflict or a lost answer reads it back;
activate and rollback compare and swap the platform's pointer.  Bifrost itself is
external: it keeps what it was given and compares.  The workspace maps each name to the
files that have had it, the last one being its current file: a replacement appends a
file, a write in place changes the last one, and a prepare that holds an older one open
keeps reading it.  (An earlier form of the model let an open file fall back to older
contents when a write in place was followed by a replacement; the proof of `FilesWhole`
found it.)  The run makes two edits, the theorem covers any number.

## Runs

| run (`.cfg`) | what it shows | bounds |
|---|---|---|
| `relay` (`MCRelay`) | at most once, no stranded lease, revocation, implements `Mailbox`; queued messages are claimed, leases resolve, receipts drain: a receipt stays open only if an acknowledgement overtook it or its host was away past the retention, and a message stays queued only behind a host blocked so or by its full attempts table | two messages; three claims over a quota of two, so quotas, replays and a second lease happen; observers that attest at any time, hosts away for any time |
| `remote` (`MCRemote`) | the allowlist grows only with a central row and only the operator reverses a local revocation; packed files are whole; a reported registration has this session's contents; orphans are explained, records heal; a pull keeps what is newer | two tasks, quota one; two sessions, two files of two blocks, two edits, two moves of the pointer by others; three commands on one changeset; two machines, two commands |
| `message_ledger` (`MCRequests` with `MCMessageLedger.cfg`) | a request is one message while it is remembered; nothing pending is pruned | three requests, four calls, caps of two and three: every cap is reached |
| `message_delivery` (`MCMessageDelivery`) | no false receipt | two turns and a native command over two deliveries |
| `appserver` (`MCAppserverClient`) | what hangs is jammed or deserted, at whichever call | a channel of two; three notifications before or during the turn, so that it is full at any call; steering, cancellation, broken output |
| `appserver_full` (`MCAppserverClientFull`) | violated: operations end | a channel of two, three notifications and steering |
| `spawn` (`MCSpawn`) | one turn, durable answers, identities stay; one runtime is asked, and a missed deadline is not a failure; completions are genuine | three requests, two processes, two fingerprints, crashes, store errors, a close; one command with both runtimes; the client with the bounds of `appserver` |
| `workers` (`MCWorkers`) | binds are true, a task closes its own worker, statuses land; warnings of touches are exact | two coordinators of one request, two threads, a cache of two; four touches, one sent twice |
| `closeout` (`MCWorkers` with `MCCloseout.cfg`) | a close is applied once while remembered, success is complete; warnings of claims are exact | three closes of two requests, a cache of two; two claims and one update over four scopes |
| `tasks` (`MCTasks`) | the newest snapshot wins; collections are whole; a walk is complete; a second pair needs a race or a full log | two tasks, a two-page and a one-page observation, two direct snapshots, four ingestions; three rows in pages of up to two; three calls, logs of two events |
| `evidence` (`MCRequests` with `MCEvidence.cfg`) | resolutions agree, retries are answered | three workers, three decision commands, one attach that moves a worker's parent or thread |
| `state_file` (`MCStateFile`) | nothing lost, backup kept; a reused worktree is whole | three processes, two kills, two power losses, from every initial kind of file; two branches and paths |

The caps of the code (64, 100, 500 and more) are constants; the runs set them to
two to four so that reaching them takes few steps.  Two of each actor suffice for the
races listed as hazards, which all are between two; a third is there where a step of
an outsider (pruning, a second peer, a second lease) matters.

Further configurations, for TLC by hand (`tlc -config <cfg> <module>`):

| configuration | what it shows |
|---|---|
| `MCRelaySafety.cfg` | the inductive `IInv` on the instance of `relay` |
| `MCRelayReceiptStuck.cfg`, `MCMessageLedgerWindow.cfg`, `MCMessageDeliveryRace.cfg` | violated, see below |

TLC also confirms, when the configuration of the run states them instead of its own
properties: the inductive invariants of the proofs, `LInv` and `QuotasHold`
(`MCMessageLedger.cfg`, with `ReplayTellsFinalState`) and `DInv` (`MCMessageDelivery.cfg`);
`ReaderEnds` (`MCAppserverClient.cfg`); `MovesFromBase` (`MCRemote.cfg`); and each
module's `TypeOK`.  The same holds of properties that are proved as well:
`SpawnedIsDurable` (`MCSpawn.cfg`), `SignalledTurnSucceeds` (`MCAppserverClient.cfg`),
`ReservedOncePerWindow` (`MCWorkers.cfg`), `CloseoutSettles` (`MCCloseout.cfg`),
`ValidatorBacked`, `AnswerFits` and `OneSnapshotPerRequest` (`MCTasks.cfg`),
`OneSuccessor` and `NoSilentGap` (`MCEvidence.cfg`) and `RefusalExplained`
(`MCStateFile.cfg`).

### Fairness

- Relay: the receiver polls for ever, so each of its steps that stays possible is
  taken (WF); a crash between `Inspect` and `Decide` disables `Decide`, possibly again
  and again, so it is SF: a host does not crash at the same point for ever.
- Message turns: a ticker of 500 ms drives `Poll`, and a steer that was sent returns.
- App-server client: goroutines run and the server answers and ends its turn (WF);
  `select` chooses at random among ready cases, so a case that is ready again and
  again is taken (SF on `Consume`, `Cancelled` and `CompletionTimeout`).
- Spawn: handlers and runs are goroutines (WF).  Crashes, cancellations and commands
  are never fair.

### Where the code and its documents disagree

Each row is a counterexample of TLC to something a document, comment or test of the
repository says, or that a reader would expect of it; the comment above the property
says which.  `appserver_full` is a listed run.  To see one of the others, state the property in
the configuration named, in the place of its own properties.

| property | configuration | what TLC finds |
|---|---|---|
| `OperationEnds` | `MCAppserverClientFull.cfg` | a full channel and a steer in flight wait for each other |
| `CancellationReported` | `MCAppserverClient.cfg` | a cancelled wait may report a stream error |
| `ReceiptAlwaysDrains` | `MCRelayReceiptStuck.cfg` (as it is) | an acknowledgement of a message that is still dispatching makes the receiver's receipt unacceptable for ever, and later deliveries to its host wait behind it |
| `CentralRevocationSticks` | `MCRemote.cfg` | a late POST of the hook re-enables a task the operator revoked |
| `WindowStartsAtRemoval` | `MCMessageLedgerWindow.cfg` (as it is) | an old message delivered late is forgotten by the insert that prunes it |
| `SettledStays` | `MCMessageDeliveryRace.cfg` (as it is) | a recorded delivery is turned back by a failure read earlier |
| `FailureDefinite` | `MCMessageDelivery.cfg` | `codex queue` took the text and exited with an error: the delivery is recorded as failed and is tried again |
| `ReplayIsAnswered` | `MCSpawn.cfg` | a failed launch stays in the map and answers later replays |
| `ClosedStays` | `MCSpawn.cfg` | a closed worker is reopened by its own run |
| `WorkspaceRecorded` | `MCSpawn.cfg` | a launch bundle that fails leaves a worktree that no worker names |
| `RebindAccepted` | `MCWorkers.cfg` | a local reservation never stores its checkout, so an identity the worker already has is refused once the cache has forgotten the bind or attach had set it |
| `RetryAccepted` | `MCCloseout.cfg` | a retry is refused because the pull request moved |
| `CompletionIsTerminal` | `MCCloseout.cfg` | the parent is told a completion with a status that is not terminal |
| `ReleaseSticks` | `MCCloseout.cfg` | a released claim is open again |
| `JanitorSpares` | `MCCloseout.cfg` | a live worker's claim is released |
| `RetryWarns` | `MCWorkers.cfg` with `Touches <- Overlapping` and `ConflictCap` 3 | a retry fails on its first warning and later peers are never warned |
| `StaysPublished` | `MCRemote.cfg` | a sync replaces the comment and drops the claims of the other machine |
| `ReleasedStays` | `MCRemote.cfg` | the legacy import, made from an older state, makes a released claim active |
| `OwnStaysOwn` | `MCRemote.cfg` with four `Exchanges` and `MaxClock` 1 (longer than a run; four minutes on `ClaimImport` alone) | a claim that went through another machine comes back as external to its own |
| `OnePairPerRequest` | `MCTasks.cfg` | two overlapping calls make two pairs |
| `ArrivalOrderIrrelevant` | `MCTasks.cfg` | an older snapshot that arrives late inserts a task as live although a newer complete one, applied before the task was known, does not list it |
| `WalkShowsInventory` | `MCTasks.cfg` | a task seen again moves in front of the cursor and is not shown |
| `RecordForward` | `MCRemote.cfg` | a slower command saves what it read before a faster one activated |
| `BundleIsSnapshot` | `MCRemote.cfg` | a bundle mixes files of two moments |
| `LockExclusive` | `MCStateFile.cfg` | a process that was held up for 30 s before it wrote its lock works beside the one that pruned it |
| `ReuseIsAlwaysWhole` | `MCStateFile.cfg` | a process killed during its checkout leaves a worktree that the next one reuses |

## Proofs

TLAPS checks the theorems for every value of the constants that satisfies the named
assumptions of the modules (functions have the domains they should, caps are
naturals, marker values are not members of the sets they mark).  TLC evaluates those
assumptions in the runs, and checks `IInv`, `LInv` and `DInv` on small instances as well
(see the further configurations above).  Each proof has one lemma or step per action.
Where an `MC` module makes an instance of a component, the theorem is about that instance, with
every constant and variable of it left open.

### Relay and messages

- `RelayProofs`: `IInv` joins the types, the agreement of lease and journal row
  (what `NoStranding` needs), the uniqueness of an attempt's message and the count of
  deliveries allowed by where the journal is (what `AtMostOnce` needs: by itself it is
  not inductive, because a crash between submission and journal write looks like
  no submission).  The two actions that may happen late share
  `LeaseKeepsInv` and `ReceiptKeepsTables`.  `Revocation` needs a second invariant,
  `Permitted`.  `Refinement` maps each step to a `Mailbox` step or a stutter through
  `StatusMoves`.
- `RequestProofs`, messages: `LInv` is types, one row per request, faithful replays and
  `Remembered` (a request that is gone has enough younger ones), from which
  `NoEarlyDuplicate` follows.  The quotas rest on `KeptIsBounded`: keeping the n
  newest of a finite set keeps at most n.
- `MessageDeliveryProofs`: `DInv` is types, `NoFalseReceipt` and `WritersKnow` (a
  process about to record a receipt has seen it).
- `RemoteProofs`, enrollment: `EnrollmentInv` says that one command works under the lock
  (`OneOwner`), that the task of a command about to allow it locally has a central row
  (`Posted`), and that the hook, once past its look at the journal, works on a task that is
  not revoked there (`HookLooked`).  `LocalNeedsCentral` is a conjunct; `LocalRevocationSticks` follows from
  `HookLooked` and `OneOwner`.

### Runtimes

- `AppserverSpawnProofs`, the daemon: `SInv` is types, one owner of every run, what
  handlers know, and durable answers.  `OwnerStep` handles every action of the owning run.
- The command: `CommandInv` says that no runtime runs before the row is saved and one was
  asked (`Asked`), that an accepted run finds no identity and a running one its own unless
  an operator stepped in (`RunsKnow`), and that what the command goes by when it confirms
  and prints is there (`Shows`).
- The client: `ClientInv`.  `CompletionGenuine` is about all file changes of a turn, so the
  invariant counts them (`NothingMissed`): those the server has reported are those
  already collected, those in the channel and those still in the child's output.
  `EndIsLast` (no change follows the end of the turn) makes the count complete when the
  end is read; `OneRequest` keeps a second turn from beginning.  `SignalInv` is what
  `SignalledTurnSucceeds` needs: after the signal the idle timer is stopped and every
  call is a steer of the wait, whose failure is acknowledged.

### Workers, claims and tasks

- `WorkersProofs`, native tasks: `NativeInv` says that both forms of a row tell the
  status that was asked for (`RowsTell`), that what coordinators, tasks and the cache know of
  a binding is still so (`Bindings`: an identity changes only by attach), and that a
  request's last reservation is as far from the end of the cache as mutations were
  remembered since (`Window`).
- Closeout: `CloseInv` has the place of each invocation (`Progress`: what was applied
  and composed before it) and `CloseWindow`, the same argument about its cache.
- Claims: `ClaimsInv` says that what a command is about to write exists (`Known`), that who
  was shown a claim has one of the same resource (`Shown`), and that of two open claims that
  overlap one was shown to the other's creator, both came from one command, or an
  update revived one of them (`Noticed`).  `OverlapIsMeeting` proves that `scopesOverlap`, a comparison of
  prefixes, holds exactly of scopes that cover a common path.
- Touches: `TouchInv` follows the clocks.  A row has the clock of one of its calls
  (`RowsRead`), and it is gone only if some call of its request is older than the retention
  (`RowsPruned`), so that of two calls made together the second to commit finds the row
  of the first, whichever clock was read first (`SecondSaw`), unless the file was too
  crowded for the query.  What a call has sent is stored in its place (`SentStored`), which
  carries this from the list of a call to the warnings of its request, also when another
  call of the request sent some of them.  `RangesOverlap` proves that
  `lineRangesOverlap` holds exactly of ranges that share a line.
- `RequestProofs`, decisions: `DecisionInv` says that the input of a command can be completed
  again from its line and gives the same (`InputFits`: what it took over from the superseded
  decision never changes), that a decision, composed or recorded, is of that input and
  has no gap only if everything was found (`RowFits`), and that a request is on record
  once.  `RetryAnswered` is then that the fingerprint of a retry is the recorded one;
  `NoSilentGap` needs that rows are never removed; `OneSuccessor` is a conjunct.
- `TaskIndexProofs`, the index: `IndexInv` says of each row that it fits what was heard of its
  task (`StateFits`, `ClassFits`: some snapshot said what the row says, and none is newer),
  that a task nobody spoke of has an empty row, and that staged pages are typed, so that
  what finish publishes is a snapshot.  `LatestWinsHolds` follows.  The argument is that
  `snapshotWins` is a strict order on time and request ID (`Winners`, `Losers`).
  `CollectionInv` adds that the staged pages of a collection are a chain of cursors
  (`Whole`), from which `StagedWhole` follows when the last one is there.  `ReplayInv` says
  that the remembered ingestions are the newest part of all that were applied (`Recent`), as
  long as the cap or complete; a request that is applied is not among them.
- Dispatch: `PairInv` says that a call stores its two workers together (`Pairs`) and that a
  pair which was there before a call that found none has left a log (`ListedBefore`).
  `AnswerInv` adds that an answer names stored workers of the call's own request and prompt,
  and that `validate start` has its implementer before its validator.
- Listing: `WalkInv` splits the tasks that kept their place at the cursor: what was shown
  is `Behind` it and was shown once, what must still be shown is `Ahead` and listed.

### Files and remote services

- `StateFileProofs`, the ledger: `StateFileInv` is types, one process under the lock
  (`Locked`), `Ledger` and `WholeBackup`.  `NothingLost` speaks of every possible power
  loss and is not inductive; `Ledger` says that what is under the ledger's name, for
  processes and on the disk, is synced and has every committed record (`Sound`), and what
  a process may count on at each step (`CountsOn`: what it is about to rename over the
  legacy state holds all of it).
- Worktrees: until the first mishap, the lock file names its holder (`LockNames`) and a worktree
  is whole or being checked out by that holder (`Checkouts`).  After a mishap the property is false,
  see `ReuseIsAlwaysWhole` above.
- `RemoteProofs`, deployments: `ReadInv` says that as long as the open file's time is the
  one that was read first, the blocks read are those of the file (`ReadAt`), and what was
  packed was one of its contents (`FilesWhole`); `RegisterInv` that an output directory is of
  one session and keeps what that session packed.
- Changesets: `ChangesetInv` has what a command at work knows (`AtWork`), that a record has
  its changeset and a changeset one begin (`Recorded`), and that a command which has its
  changeset to itself has understood what Bifrost answered (`Solitary`, `Truthful`).
- Exchange of claims: `PullInv` types the machines' ledgers and the published comments and says that
  what a pull will look at or import it has fetched; that it keeps what is newer then follows
  from the comparison each import makes.

### Only model-checked

- Liveness (`QueuedIsClaimed`, `LeaseResolves`, `ReceiptDrains`, `HangsOnlyJammed`, and
  those in the comments of the `MC` modules): outside this prover.  Where the code does
  not promise an end, the property names the exceptions (`Overtaken`, `Forgotten`,
  `Blocked`; `Jammed`, `Deserted`) and the runs reach each of them.
- `ResolutionsAgree`: `Operation` follows a lineage with recursive functions, and that the
  memoised search finds what it is meant to needs induction over the length of the
  lineage.
- `ReaderEnds`, a liveness property, and `MovesFromBase` of `BifrostDeployment`, which no run lists and which
  is close to the guard of the platform's compare and swap, which is outside the program.
- The violated properties above: TLC's counterexamples are the result.

`ReplayTellsFinalState` has no theorem of its own; it is a conjunct of `LInv`.

## Not modelled

`PROJECT.json` gives the reason for each part that is left out.  The HTTP server of
the daemon is routing, authentication and encoding around services that are modelled;
the installation under service managers, GitHub and git act outside the program; snapshot,
status, attention, trace and the listings read; work packets and transcripts format;
configuration and protocol types hold no state.  Of modelled parts, these
operations are missing: the coordinator's advisory claims between hosts, the eviction of spawn
events from a full log, the optional steerer inside the message service (both programs
leave it nil), readiness and gates before a dispatch.
