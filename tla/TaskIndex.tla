------------------------------ MODULE TaskIndex ------------------------------
(***************************************************************************)
(* The index of the Codex tasks of one host (store/codex_tasks.go) and the *)
(* collections that fill it page by page (store/codex_task_collections.go).*)
(*                                                                         *)
(* A snapshot says of some tasks that they are live or tombstoned; one of  *)
(* complete coverage also says that the tasks it does not list are gone.   *)
(* Snapshots arrive late, twice and in any order, directly (cs tasks       *)
(* ingest) or staged as a collection of pages linked by opaque cursors and *)
(* published by finish.  Every store method is one transaction; a refused  *)
(* one rolls back, so refusals leave no step.                              *)
(***************************************************************************)
EXTENDS Integers, Sequences, FiniteSets

CONSTANTS
  Tasks,        \* thread IDs
  Observations, \* observation IDs of collections
  Directs,      \* snapshots that are ingested directly
  Pages,        \* the page requests collectors send, for each observation
  Rank,         \* how request IDs compare as strings
  Source,       \* CodexTaskCollectionSource
  StaleAge,     \* staleCodexTaskCollectionAge
  MaxOpen,      \* maxOpenCodexTaskCollections
  MaxTasks,     \* maxCodexTasksPerSnapshot
  CollectionCap,\* maxCodexTaskCollectionReplays
  IngestCap,    \* maxCodexTaskIngestReplays
  MaxTime,      \* bound on the clock
  MaxIngests    \* bound on the number of ingestions

RequestIDs == Observations \cup {d.req : d \in Directs}
Listings == UNION {[T -> {"live", "tombstoned"}] : T \in SUBSET Tasks}
Coverages == {"window", "complete"}

ASSUME IndexAssumption ==
  /\ Rank \in [RequestIDs -> Nat] /\ "" \notin RequestIDs
  /\ \A p, q \in RequestIDs : Rank[p] = Rank[q] => p = q
  /\ \A d \in Directs : /\ d.at \in Nat \ {0} /\ d.coverage \in Coverages /\ d.tasks \in Listings
                        /\ d.classifies \subseteq DOMAIN d.tasks /\ d.classifiedAt \in Nat \ {0}
  /\ \A o \in Observations : \A p \in Pages[o] : p.n \in Nat \ {0} /\ p.tasks \in Listings
  /\ {StaleAge, MaxOpen, MaxTasks, CollectionCap, IngestCap, MaxTime, MaxIngests} \subseteq Nat

VARIABLES
  clock,
  index,       \* codex_tasks: what is known of each task
  ingests,     \* codex_task_ingests: the snapshots remembered, oldest first
  collection,  \* codex_task_collections and their pages, for each observation
  finalized,   \* finalized collections, oldest first
  \* history
  heard,       \* for each task, the snapshots that said something of it when
               \* they were ingested, and what they said
  classified,  \* the same for classifications
  applied      \* every snapshot that was ingested, in order

vars == <<clock, index, ingests, collection, finalized, heard, classified, applied>>

Unknown == [known |-> FALSE, at |-> 0, by |-> "", missing |-> FALSE, tombstoned |-> FALSE,
            source |-> "", classAt |-> 0, classBy |-> ""]
NoCollection == [stage |-> "none", at |-> 0, received |-> 0, pages |-> <<>>]

Init ==
  /\ clock = 1
  /\ index = [t \in Tasks |-> Unknown]
  /\ ingests = <<>>
  /\ collection = [o \in Observations |-> NoCollection] /\ finalized = <<>>
  /\ heard = [t \in Tasks |-> {}] /\ classified = [t \in Tasks |-> {}]
  /\ applied = <<>>

-----------------------------------------------------------------------------
(* ingestCodexTasksLocked.                                                 *)

\* Mutant: of two snapshots with the same time, the last to arrive wins.
snapshotWinsTies(at, req, stateAt, stateReq) == at >= stateAt

snapshotWins(at, req, stateAt, stateReq) ==
  \/ at > stateAt
  \/ at = stateAt /\ (stateReq = "" \/ Rank[req] > Rank[stateReq])

\* The tasks of which a complete snapshot says that they are gone: known from the
\* same source, not tombstoned, not listed.
Absent(s) == {t \in Tasks \ DOMAIN s.tasks :
                /\ s.coverage = "complete" /\ index[t].known
                /\ index[t].source = s.source /\ ~index[t].tombstoned}

Supersedes(s, t) == snapshotWins(s.at, s.req, index[t].at, index[t].by)

\* A listed task is inserted, or merged unless its row is newer.
mergeCodexTask(s, t) ==
  [index[t] EXCEPT !.known = TRUE, !.at = s.at, !.by = s.req, !.source = s.source,
                   !.missing = FALSE, !.tombstoned = (s.tasks[t] = "tombstoned")]

\* Mutant: marking a task missing leaves its watermark alone.
MarkMissingOnly(s, t) == [index[t] EXCEPT !.missing = TRUE]

MarkMissing(s, t) == [index[t] EXCEPT !.missing = TRUE, !.at = s.at, !.by = s.req]

\* The classification of a listed task has a watermark of its own and is merged
\* whether or not the rest of the observation is stale.
mergeCodexTaskClassification(s, t, row) ==
  IF t \in s.classifies
     /\ snapshotWins(s.classifiedAt, s.req, row.classAt, row.classBy)
  THEN [row EXCEPT !.classAt = s.classifiedAt, !.classBy = s.req]
  ELSE row

Row(s, t) ==
  CASE t \in DOMAIN s.tasks /\ (~index[t].known \/ Supersedes(s, t)) ->
         mergeCodexTaskClassification(s, t, mergeCodexTask(s, t))
    [] t \in DOMAIN s.tasks /\ index[t].known /\ ~Supersedes(s, t) ->
         mergeCodexTaskClassification(s, t, index[t])
    [] t \in Absent(s) /\ Supersedes(s, t) -> MarkMissing(s, t)
    [] OTHER -> index[t]

Remembered(req) == {i \in DOMAIN ingests : ingests[i].req = req}

Newest(seq, n) == SubSeq(seq, IF Len(seq) > n THEN Len(seq) - n + 1 ELSE 1, Len(seq))

\* Mutant: the oldest records are kept.
OldestIngests(seq) == SubSeq(seq, 1, IF Len(seq) > IngestCap THEN IngestCap ELSE Len(seq))

pruneCodexTaskIngestReplays(seq) == Newest(seq, IngestCap)

Says(s, t) == IF t \in DOMAIN s.tasks THEN s.tasks[t] ELSE "absent"

\* A snapshot under a request ID that is not remembered is applied.
IngestNew(s) ==
  /\ Remembered(s.req) = {} /\ Len(applied) < MaxIngests
  /\ index' = [t \in Tasks |-> Row(s, t)]
  /\ ingests' = pruneCodexTaskIngestReplays(Append(ingests, s))
  /\ applied' = Append(applied, s)
  /\ heard' = [t \in Tasks |-> heard[t] \cup
                 IF t \in DOMAIN s.tasks \cup Absent(s)
                 THEN {[at |-> s.at, by |-> s.req, says |-> Says(s, t)]} ELSE {}]
  /\ classified' = [t \in Tasks |-> classified[t] \cup
                 IF t \in s.classifies THEN {[at |-> s.classifiedAt, by |-> s.req]} ELSE {}]

\* The same snapshot again is answered from its record; another one under the
\* same request ID is refused.
IngestReplay(s) ==
  /\ \E i \in Remembered(s.req) : ingests[i] = s
  /\ UNCHANGED <<index, ingests, applied, heard, classified>>

\* IngestCodexTasks.
IngestCodexTasks(d) == /\ IngestNew(d) /\ UNCHANGED <<clock, collection, finalized>>

-----------------------------------------------------------------------------
(* Collections.                                                            *)

Staged(o) == {collection[o].pages[i] : i \in DOMAIN collection[o].pages}
StagedTasks(o) == UNION {DOMAIN p.tasks : p \in Staged(o)}
Last(seq) == seq[Len(seq)]

pruneStaleCodexTaskCollections ==
  [o \in Observations |-> IF collection[o].stage = "open" /\ collection[o].received < clock - StaleAge
                          THEN NoCollection ELSE collection[o]]

\* AddCodexTaskCollectionPage, page one of a new collection: it fixes the time of
\* the observation, which the caller read at some earlier moment.
OpenCollection(o, p, at) ==
  LET kept == pruneStaleCodexTaskCollections
  IN /\ collection[o].stage = "none" /\ p.n = 1 /\ p.cursor = ""
     /\ Cardinality({q \in Observations : kept[q].stage = "open"}) < MaxOpen
     /\ Cardinality(DOMAIN p.tasks) <= MaxTasks
     /\ collection' = [kept EXCEPT ![o] =
                         [stage |-> "open", at |-> at, received |-> clock, pages |-> <<p>>]]
     /\ UNCHANGED <<clock, index, ingests, finalized, heard, classified, applied>>

\* Mutant: a thread may be on two pages.
FreshTasksUnchecked(o, p) == TRUE

\* ensureNoCodexTaskCollectionDuplicates
FreshTasks(o, p) == DOMAIN p.tasks \cap StagedTasks(o) = {}

FreshCursor(o, p) ==
  p.next # "" => /\ p.next # p.cursor
                 /\ \A q \in Staged(o) : p.next # q.cursor /\ p.next # q.next

\* A further page continues the chain.  A page that is staged already is a replay or
\* refused, also after the collection was finalized.
AddPage(o, p) ==
  /\ collection[o].stage = "open"
  /\ p.n = Len(collection[o].pages) + 1
  /\ Last(collection[o].pages).next # "" /\ p.cursor = Last(collection[o].pages).next
  /\ FreshCursor(o, p) /\ FreshTasks(o, p)
  /\ Cardinality(StagedTasks(o)) + Cardinality(DOMAIN p.tasks) <= MaxTasks
  /\ collection' = [collection EXCEPT ![o].pages = Append(@, p)]
  /\ UNCHANGED <<clock, index, ingests, finalized, heard, classified, applied>>

\* readCodexTaskCollectionPages: what the staged pages say together.
Published(o, coverage) ==
  [req |-> o, at |-> collection[o].at, coverage |-> coverage, source |-> Source,
   tasks |-> [t \in StagedTasks(o) |-> (CHOOSE p \in Staged(o) : t \in DOMAIN p.tasks).tasks[t]],
   classifies |-> {}, classifiedAt |-> collection[o].at]

\* Mutant: a collection that stopped early may be called complete.
ExhaustedUnchecked(o, coverage) == TRUE

Exhausted(o, coverage) == coverage = "complete" => Last(collection[o].pages).next = ""

\* pruneCodexTaskCollectionReplays keeps the collections that were finalized last.
Retained(seq) == Newest(seq, CollectionCap)

\* FinishCodexTaskCollection: ingestion and finalization are one transaction.
\* Payloads are emptied; fingerprints stay for replays.
FinishCodexTaskCollection(o, coverage) ==
  LET done == Append(finalized, o)
      kept == Retained(done)
  IN /\ collection[o].stage = "open" /\ Exhausted(o, coverage)
     /\ (IngestNew(Published(o, coverage)) \/ IngestReplay(Published(o, coverage)))
     /\ finalized' = kept
     /\ collection' = [q \in Observations |->
          IF q \in {done[i] : i \in 1 .. Len(done) - Len(kept)} THEN NoCollection
          ELSE IF q = o THEN [collection[q] EXCEPT !.stage = coverage]
          ELSE collection[q]]
     /\ UNCHANGED clock

Tick == /\ clock < MaxTime /\ clock' = clock + 1
        /\ UNCHANGED <<index, ingests, collection, finalized, heard, classified, applied>>

Next ==
  \/ Tick
  \/ \E d \in Directs : IngestCodexTasks(d)
  \/ \E o \in Observations :
       \/ \E p \in Pages[o] : AddPage(o, p) \/ \E at \in 1 .. clock : OpenCollection(o, p, at)
       \/ \E coverage \in Coverages : FinishCodexTaskCollection(o, coverage)

Spec == Init /\ [][Next]_vars

-----------------------------------------------------------------------------
(* Properties.                                                             *)

\* Every variable has its type.
TypeOK ==
  /\ clock \in 1 .. MaxTime
  /\ \A t \in Tasks : /\ index[t].at \in Nat /\ index[t].by \in RequestIDs \cup {""}
                      /\ index[t].classAt \in Nat /\ index[t].classBy \in RequestIDs \cup {""}
                      /\ index[t].known <=> index[t].by # ""
                      /\ index[t].missing => ~index[t].tombstoned
  /\ Len(ingests) <= IngestCap /\ Len(finalized) <= CollectionCap
  /\ \A o \in Observations :
       /\ collection[o].stage \in {"none", "open"} \cup Coverages
       /\ collection[o].stage \in Coverages <=> \E i \in DOMAIN finalized : finalized[i] = o

\* What the row of a task says is what the newest snapshot says that ever spoke of it,
\* in whatever order they arrived, and likewise for its classification.
\* (docs/design.md:179-182, "late snapshots cannot regress either state machine")
LatestWins ==
  \A t \in Tasks :
    /\ index[t].known =>
         \E h \in heard[t] :
            /\ h.at = index[t].at /\ h.by = index[t].by
            /\ index[t].missing = (h.says = "absent")
            /\ index[t].tombstoned = (h.says = "tombstoned")
    /\ \A h \in heard[t] :
         \/ h.at < index[t].at
         \/ h.at = index[t].at /\ Rank[h.by] <= Rank[index[t].by]
    /\ \A c \in classified[t] :
         \/ c.at < index[t].classAt
         \/ c.at = index[t].classAt /\ Rank[c.by] <= Rank[index[t].classBy]

\* A collection is an unbroken chain of pages from the start of the listing, no
\* thread is on two of them, and one that was published as complete reached the
\* end: nothing was marked missing because a page was lost.
\* (docs/design.md:78-80, "Only an exhausted collection explicitly finalized with
\* complete coverage can mark unseen records missing.")
StagedWhole ==
  \A o \in Observations : LET pages == collection[o].pages IN
    collection[o].stage # "none" =>
      /\ pages # <<>> /\ pages[1].cursor = ""
      /\ \A i \in DOMAIN pages : pages[i].n = i
      /\ \A i \in 2 .. Len(pages) : pages[i].cursor = pages[i - 1].next
      /\ \A i, j \in DOMAIN pages : i # j => /\ pages[i].cursor # pages[j].cursor
                                             /\ DOMAIN pages[i].tasks \cap DOMAIN pages[j].tasks = {}
      /\ collection[o].stage = "complete" => Last(pages).next = ""

\* A request ID is used for a second snapshot only after IngestCap others: also an
\* observation that was finalized, forgotten and collected again is not published
\* twice while its first publication is remembered.
OneSnapshotPerRequest ==
  \A i, j \in DOMAIN applied :
     i < j /\ applied[i].req = applied[j].req => j - i > IngestCap

\* The index does not depend on the order in which snapshots arrive: a task that the
\* newest complete snapshot of its source does not list is not live in the index.
\* (docs/design.md:179-182, "Seen, missing, and tombstoned transitions share a durable
\* observation-time/request-ID watermark ... late snapshots cannot regress")
ArrivalOrderIrrelevant ==
  \A t \in Tasks : \A i \in DOMAIN applied :
     ( /\ index[t].known /\ ~index[t].missing /\ ~index[t].tombstoned
       /\ applied[i].coverage = "complete" /\ applied[i].source = index[t].source
       /\ t \notin DOMAIN applied[i].tasks )
     => ~Supersedes(applied[i], t)
=============================================================================
