----------------------------- MODULE MCRequests -----------------------------
(***************************************************************************)
(* Instances of MessageLedger and Decisions for TLC: the tables whose rows *)
(* are made at most once for a request ID.  Each has its own callers, so   *)
(* they are checked by turns: a behaviour of one of them while the other   *)
(* does not begin.                                                         *)
(***************************************************************************)
EXTENDS MessageLedger, TLC

CONSTANTS
  Sides,  \* the components a run checks
  w1, w2, w3, i1, direct, subtree,
  Authors, Issues, BadIssue, None, MaxCommands, DecisionRequests, Lines, Records, Mistyped,
  Host, ThreadOf, AttachHosts, MaxMoves, MaxChanges

VARIABLES side, ledger, records, decisions, pc, req, line, input, draft, answer, moves

D == INSTANCE Decisions WITH Workers <- Authors, Requests <- DecisionRequests

ASSUME EvidenceAssumption == D!OperationAssumption /\ D!DecisionsAssumption

\* A direct message to w1 and a subtree message to both workers.
Fanout == direct :> {w1} @@ subtree :> {w1, w2}
DirectOnly == direct :> {w1}

Line(target, operation, issue, author, evidence) ==
  [target |-> target, operation |-> operation, issue |-> issue, author |-> author,
   evidence |-> evidence, clear |-> FALSE]

\* DecisionRef, WorkerKey and IssueKey are written out: Lines is a parameter of D.
MCLines == { Line(None, None, None, w1, {w1}),
             Line(None, None, i1, None, {}),
             Line(None, None, None, w1, {<<"decision", 1>>, Mistyped}),
             Line(1, <<"worker", w1>>, None, None, {}),
             Line(1, None, i1, Mistyped, {<<"issue", i1>>}),
             [Line(1, None, None, None, {}) EXCEPT !.clear = TRUE],
             Line(Mistyped, None, None, w1, {}) }
NoLines == {}

MCRecords == { [kind |-> "claim", issue |-> i1, workers |-> {}],
               [kind |-> "codex_task", thread |-> "t", host |-> "h"] }

MCThreadOf == [w \in Authors |-> "t"]

deciding == <<ledger, records, decisions, pc, req, line, input, draft, answer, moves>>

MCInit == Init /\ D!Init /\ side \in Sides
MCNext ==
  \/ side = "messages" /\ Next /\ UNCHANGED <<deciding, side>>
  \/ side = "decisions" /\ D!Next /\ UNCHANGED <<vars, side>>
MCSpec == MCInit /\ [][MCNext]_<<vars, deciding, side>>

\* Decisions': every worker gets the resolution its lineage means, in whatever order
\* the workers are walked.
ResolutionsAgree == D!ResolutionsAgree

\* Decisions': a command whose request is on record with the same line is not refused.
RetryAnswered == D!RetryAnswered

\* Decisions': supersession makes chains.
OneSuccessor == D!OneSuccessor

\* Decisions': a decision without gaps has its author and all it cites in the ledger.
NoSilentGap == D!NoSilentGap

Renaming == Permutations(Requests) \cup Permutations(DecisionRequests)
=============================================================================
