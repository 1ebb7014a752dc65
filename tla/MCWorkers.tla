------------------------------ MODULE MCWorkers ------------------------------
(***************************************************************************)
(* Instances of NativeTask, Closeout, ClaimLedger and FileTouch for TLC:   *)
(* how workers are reserved and bound to tasks, how they are closed, what  *)
(* they claim and what they touch.  Each has its own ledger, so they are   *)
(* checked by turns: a behaviour of one of them while the others do not    *)
(* begin.                                                                  *)
(***************************************************************************)
EXTENDS NativeTask, TLC

CONSTANTS
  Sides,  \* the components a run checks
  CloseRequests, Commands, PRStates, MaxOtherCommands, PRMoves, Reopens,
  Holders, Claims, Updates, Scopes, Paths,
  Retention, ConflictCap, MaxLag, MaxTime, Touches

VARIABLES
  side,
  status, report, remembered, message, cpc, creq, pulls, told, body, github, outcome, cothers, closes, csince,
  holder, claims, warned, upc, updates, target, read, jpc, listed, candidates, batch, revived, settled,
  time, createdAt, warning, tpc, now, conflicts, sent

closing == <<status, report, remembered, message, cpc, creq, pulls, told, body, github, outcome,
             cothers, closes, csince>>
ledger == <<holder, claims, warned, upc, updates, target, read, jpc, listed, candidates,
            batch, revived, settled>>
touches == <<time, createdAt, warning, tpc, now, conflicts, sent>>

C == INSTANCE Closeout WITH Requests <- CloseRequests, completed <- remembered, pc <- cpc, req <- creq,
                            others <- cothers, since <- csince, MaxOthers <- MaxOtherCommands

K == INSTANCE ClaimLedger WITH Workers <- Holders, NoClaim <- None, worker <- holder, seen <- read

\* A directory with two files, a path next to it whose name extends the directory's, and
\* a task.
TreePaths == {<<"src">>, <<"src", "a">>, <<"src", "b">>, <<"src2">>}
PathScope(v) == [kind |-> "path", value |-> v]
FewScopes == {PathScope(<<"src">>), PathScope(<<"src", "a">>), PathScope(<<"src2">>),
              [kind |-> "task", value |-> <<"src">>]}

\* "r" is sent twice; "x" shares its last line, "y" its first, "x" and "y" are
\* adjacent, and "z" reads.
Write(w, lo, hi) ==
  [worker |-> w, file |-> "f", operation |-> "write", lo |-> lo, hi |-> hi, intent |-> "i"]
Neighbours ==
  [r |-> Write("wr", 2, 3), x |-> Write("wx", 3, 4), y |-> Write("wy", 1, 2),
   z |-> [Write("wz", 0, 0) EXCEPT !.operation = "read"]]

\* Writes that all overlap, "x" and "z" of one worker.
Overlapping ==
  [r |-> Write("wr", 2, 3), x |-> Write("wx", 3, 4), y |-> Write("wy", 3, 3),
   z |-> [Write("wx", 0, 0) EXCEPT !.intent = "j"]]

Twice == [p \in DOMAIN Touches |-> IF p = "r" THEN 2 ELSE 1]

T == INSTANCE FileTouch WITH Requests <- DOMAIN Touches, Touch <- Touches, Tries <- Twice,
                             clock <- time, pc <- tpc

ASSUME CloseAssumption == C!CloseoutAssumption /\ None \notin C!Bodies
ASSUME ClaimsAssumption == K!ClaimAssumption
ASSUME TouchesAssumption == T!TouchAssumption

MCInit ==
  /\ Init /\ C!Init /\ K!Init /\ T!Init /\ side \in Sides
  /\ side # "close" => \A k, l \in Commands, r \in CloseRequests : creq[k] = creq[l] /\ outcome[r] = "done"
  /\ side # "native" => \A p \in Coordinators : env[p] = "local"
  /\ side # "claims" => \A u \in Updates : updates[u] = "blocked"
MCNext ==
  \/ side = "native" /\ Next /\ UNCHANGED <<closing, ledger, touches, side>>
  \/ side = "close" /\ C!Next /\ UNCHANGED <<vars, ledger, touches, side>>
  \/ side = "claims" /\ K!Next /\ UNCHANGED <<vars, closing, touches, side>>
  \/ side = "touches" /\ T!Next /\ UNCHANGED <<vars, closing, ledger, side>>
MCSpec == MCInit /\ [][MCNext]_<<vars, closing, ledger, touches, side>>

\* Closeout's: a close that reported success was applied and has told the parent.
SuccessIsComplete == C!SuccessIsComplete

\* Closeout's: a close is applied again only after CacheCap later mutations.
AppliedOncePerWindow == C!AppliedOncePerWindow

\* Closeout's, violated: a retry of a close is not refused.
RetryAccepted == C!RetryAccepted

\* Closeout's, violated: a completion that is forwarded has a terminal status.
CompletionIsTerminal == C!CompletionIsTerminal

\* ClaimLedger's: claims overlap exactly when somebody was warned of it.
ClaimWarningsExact == K!ClaimWarningsExact

\* ClaimLedger's: a claim of a closed worker stays released until somebody updates it.
CloseoutSettles == K!CloseoutSettles

\* ClaimLedger's, violated: a released claim is opened only by a command that knew it was released.
ReleaseSticks == K!ReleaseSticks

\* ClaimLedger's, violated: the janitor releases claims only while they are releasable.
JanitorSpares == K!JanitorSpares

\* FileTouch's: writes overlap exactly when their workers were warned of it.
TouchWarningsExact == T!WarningsExact

\* FileTouch's, violated: a retry warns every peer that overlaps.
RetryWarns == T!RetryWarns

Symmetry ==
  Permutations(Workers \ {Parent}) \cup Permutations(Coordinators) \cup Permutations(Threads)
    \cup Permutations(CloseRequests) \cup Permutations(PRStates) \cup Permutations(Commands)
    \cup Permutations(Claims)
=============================================================================
