------------------------------- MODULE MCTasks -------------------------------
(***************************************************************************)
(* Instances of TaskIndex, TaskListing and Dispatch for TLC: the tasks the *)
(* index knows, a walk through them, and the worker pairs made for an      *)
(* issue.  They are checked by turns: a behaviour of one while the others  *)
(* do not begin.                                                           *)
(***************************************************************************)
EXTENDS TaskIndex, TLC

CONSTANTS Calls, Starts, Requests, Prompts, EventCap, MaxClock, Keys, MaxLimit, StaleFor, LastTime

VARIABLES turn, now, worker, pc, request, prompt, began, ended, answer,
          time, rows, walk, cursor, shown, wanted

pairs == <<now, worker, pc, request, prompt, began, ended, answer>>

listing == <<time, rows, walk, cursor, shown, wanted>>

D == INSTANCE Dispatch WITH clock <- now
L == INSTANCE TaskListing WITH now <- time, row <- rows, MaxTime <- LastTime

ASSUME PairsAssumption == D!DispatchAssumption
ASSUME ListingAssumption == L!TaskListingAssumption

Page(n, from, next, tasks) == [n |-> n, cursor |-> from, next |-> next, tasks |-> tasks]

\* "o1" is collected in two pages.  The listing may have changed when a collector
\* starts again: t1 has moved to the second page, the first page is all there is, or
\* the second page goes back to the first.  "o2" lists t2 alone.
TwoObservations == {"o1", "o2"}
Listed ==
  [o1 |-> {Page(1, "", "c1", [t1 |-> "live"]), Page(1, "", "", [t2 |-> "live"]),
           Page(2, "c1", "", [t2 |-> "live"]), Page(2, "c1", "", [t1 |-> "live"]),
           Page(2, "c1", "c1", [t2 |-> "live"]), Page(2, "c0", "", [t2 |-> "live"])},
   o2 |-> {Page(1, "", "", [t2 |-> "live"])}]

\* One direct snapshot deletes t2 and classifies, one of another source sees t1.
Snapshots ==
  {[req |-> "d1", at |-> 2, coverage |-> "window", source |-> "list", tasks |-> [t2 |-> "tombstoned"],
    classifies |-> {"t2"}, classifiedAt |-> 2],
   [req |-> "d2", at |-> 2, coverage |-> "complete", source |-> "other",
    tasks |-> [t1 |-> "live", t2 |-> "live"], classifies |-> {"t2"}, classifiedAt |-> 1]}

Order == [o1 |-> 2, o2 |-> 3, d1 |-> 1, d2 |-> 4]

MCInit ==
  /\ Init /\ D!Init /\ L!Init /\ turn \in {"index", "listing", "dispatch"}
  /\ turn # "dispatch" => \A c, d \in Calls : request[c] = request[d] /\ prompt[c] = prompt[d]
MCNext ==
  \/ turn = "index" /\ Next /\ UNCHANGED <<pairs, listing, turn>>
  \/ turn = "dispatch" /\ D!Next /\ UNCHANGED <<vars, listing, turn>>
  \/ turn = "listing" /\ L!Next /\ UNCHANGED <<vars, pairs, turn>>
MCSpec == MCInit /\ [][MCNext]_<<vars, pairs, listing, turn>>

\* Dispatch's: calls that follow one another make one pair.
SerialReplay == D!SerialReplay

\* TaskListing's: a walk shows every task that kept its place, and none twice.
WalkComplete == L!WalkComplete

\* TaskListing's, violated: a walk shows every task that is listed when it ends.
WalkShowsInventory == L!WalkShowsInventory

\* Dispatch's: a validator is recorded only beside the worker it validates.
ValidatorBacked == D!ValidatorBacked

\* Dispatch's, violated: a request makes one pair.
OnePairPerRequest == D!OnePairPerRequest

\* Dispatch's: the workers a call names were made for its request and its prompt.
AnswerFits == D!AnswerFits

Symmetry == Permutations(Calls) \cup Permutations(Requests) \cup Permutations(Prompts)
=============================================================================
