----------------------------- MODULE TaskListing -----------------------------
(***************************************************************************)
(* A reader walks the index of Codex tasks page by page (cs tasks list,    *)
(* ListCodexTasks) while snapshots go on changing it.  The list is ordered *)
(* by when a task was last seen, the newest first, and tasks of one        *)
(* snapshot are seen at the same time.  A page is one transaction; between *)
(* two pages the only state is the cursor, which the reader keeps.         *)
(*                                                                         *)
(* Of the filters, the one on age depends on the time of the call; all     *)
(* others compare columns and are one Boolean of the row.                  *)
(***************************************************************************)
EXTENDS Naturals, FiniteSets

CONSTANTS
  Keys,     \* host and thread of a task, positive numbers in the order they compare
  MaxLimit, \* bound on --limit
  StaleFor, \* --stale-for, 0 when it is not given
  MaxTime   \* bound on the clock

TaskListingAssumption ==
  IsFiniteSet(Keys) /\ Keys \subseteq Nat \ {0} /\ MaxLimit \in Nat /\ StaleFor \in Nat /\ MaxTime \in Nat \ {0}

VARIABLES
  now,
  row,     \* codex_tasks: last_seen_at (0: no row), state_observed_at, whether the filters match
  walk,    \* whether the reader is walking
  cursor,  \* the cursor of the next page
  \* history
  shown,   \* how often the walk has shown a task: 0, 1, or 2 for more
  wanted   \* the tasks listed when the walk began that kept their place since

vars == <<now, row, walk, cursor, shown, wanted>>

\* No cursor: every row comes after it.
Start == [at |-> MaxTime + 1, key |-> 0]

Init ==
  /\ now = 1 /\ row = [k \in Keys |-> [seen |-> 0, at |-> 0, matches |-> FALSE]]
  /\ walk = "on" /\ cursor = Start
  /\ shown = [k \in Keys |-> 0] /\ wanted = {}

-----------------------------------------------------------------------------
(* What snapshots do to the columns of the list (ingestCodexTasksLocked).  *)

\* snapshotWins; of two snapshots of one time the greater request ID wins.
Wins(at, greater, k) == at > row[k].at \/ (at = row[k].at /\ greater)

\* A listed task is seen at the time of the snapshot; one whose row is newer can still
\* be classified.  A task found missing is observed and not seen.
Ingested(at, greater, listed, missing, matching, k) ==
  CASE k \in listed /\ Wins(at, greater, k) -> [seen |-> at, at |-> at, matches |-> k \in matching]
    [] k \in listed /\ ~Wins(at, greater, k) -> [row[k] EXCEPT !.matches = k \in matching]
    [] k \in missing /\ Wins(at, greater, k) -> [row[k] EXCEPT !.at = at]
    [] OTHER -> row[k]

Ingest ==
  /\ \E at \in 1 .. now, greater \in BOOLEAN, listed \in SUBSET Keys :
     \E missing \in SUBSET {k \in Keys \ listed : row[k].seen > 0}, matching \in SUBSET listed :
        row' = [k \in Keys |-> Ingested(at, greater, listed, missing, matching, k)]
  /\ wanted' = {k \in wanted : row'[k].seen = row[k].seen /\ row'[k].matches}
  /\ UNCHANGED <<now, walk, cursor, shown>>

-----------------------------------------------------------------------------
(* ListCodexTasks.                                                         *)

\* The clauses of the filter.
Listed ==
  {k \in Keys : row[k].seen > 0 /\ row[k].matches /\ (StaleFor > 0 => row[k].seen + StaleFor < now)}

\* ORDER BY last_seen_at DESC, host_id, thread_id
Before(j, k) == row[j].seen > row[k].seen \/ (row[j].seen = row[k].seen /\ j < k)

\* Mutant: the cursor is compared by time only.
AfterTime(c, k) == row[k].seen < c.at

\* The clause of the cursor, which must cut the list where the last page ended.
After(c, k) == row[k].seen < c.at \/ (row[k].seen = c.at /\ k > c.key)

Shown(page) == [k \in Keys |-> IF k \in page /\ shown[k] < 2 THEN shown[k] + 1 ELSE shown[k]]

\* A page: the first rows of what is left, and a cursor when there are more.
ListCodexTasks(limit) ==
  LET rest == {k \in Listed : After(cursor, k)}
      page == {k \in rest : Cardinality({j \in rest : Before(j, k)}) < limit}
      more == Cardinality(rest) > limit
  IN /\ walk = "on"
     /\ shown' = Shown(page)
     /\ wanted' = IF cursor = Start THEN Listed ELSE wanted
     /\ IF more
        THEN /\ \E last \in page :
                  /\ \A k \in page : k = last \/ Before(k, last)
                  /\ cursor' = [at |-> row[last].seen, key |-> last]
             /\ UNCHANGED walk
        ELSE walk' = "ended" /\ UNCHANGED cursor
     /\ UNCHANGED <<now, row>>

Tick == now < MaxTime /\ now' = now + 1 /\ UNCHANGED <<row, walk, cursor, shown, wanted>>

Next == Tick \/ Ingest \/ \E limit \in 1 .. MaxLimit : ListCodexTasks(limit)

Spec == Init /\ [][Next]_vars

-----------------------------------------------------------------------------
(* Properties.                                                             *)

\* Every variable has its type, and a row is seen no later than it is observed.
TypeOK ==
  /\ now \in 1 .. MaxTime /\ walk \in {"on", "ended"} /\ wanted \subseteq Keys
  /\ \A k \in Keys : /\ row[k].seen \in 0 .. row[k].at /\ row[k].at \in 0 .. now
                     /\ row[k].matches \in BOOLEAN /\ shown[k] \in 0 .. 2
  /\ cursor = Start \/ (cursor.at \in 1 .. now /\ cursor.key \in Keys)

\* A walk shows no task twice, and when it has ended it has shown every task that
\* was listed when it began and that no snapshot has moved since, also among tasks that
\* were seen at the same time and when pages are of different sizes.
\* (README.md:463, "Walk every result page with next_cursor")
WalkComplete ==
  /\ \A k \in Keys : shown[k] < 2
  /\ walk = "ended" => \A k \in wanted : shown[k] = 1

\* The walk shows every task that is listed when it ends.  (README.md:463, "Walk every
\* result page with `next_cursor`; ... the retained inventory is not limited to 50")
WalkShowsInventory ==
  [][walk = "on" /\ walk' = "ended" => \A k \in Listed : shown'[k] > 0]_vars
=============================================================================
