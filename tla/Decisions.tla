------------------------------ MODULE Decisions ------------------------------
(***************************************************************************)
(* cs decision record and supersede.  A command reads the decision it      *)
(* supersedes, then the ledger, then the decisions it cites, each in a     *)
(* transaction of its own, composes the new decision with the gaps in its  *)
(* provenance, and records it in a last transaction.  It may die before    *)
(* any of its steps, in that it takes none any more, and be given again    *)
(* with the same request ID.  Meanwhile workers are created, and attach    *)
(* moves them to other threads and under other parents.                    *)
(***************************************************************************)
EXTENDS Operation

CONSTANTS
  MaxCommands, \* bound: invocations
  Requests,  \* request IDs
  Lines,     \* command lines
  Records,   \* claims, messages, gates and tasks that may be written
  Mistyped,  \* an ID that nothing in the ledger has or will have
  Host,      \* the host all threads are on
  ThreadOf,  \* the thread a worker is created with
  AttachHosts, \* the hosts attach names, None where it is given without one
  MaxMoves,  \* bound: how often attach moves a worker
  MaxChanges \* bound: rows in behaviours with commands

\* Invocations, numbered as they begin; the decision one makes has its number for an ID.
Commands == 1 .. MaxCommands

\* What a line may cite: workers, operations, decisions, and what is mistyped.
DecisionRef(d) == <<"decision", d>>
Citable == Workers \cup Keys \cup {DecisionRef(d) : d \in Commands} \cup {Mistyped}
CommandLines ==
  [target : Commands \cup {None, Mistyped}, operation : Keys \cup {None}, issue : Issues \cup {None},
   author : Workers \cup {Mistyped, None}, evidence : SUBSET Citable, clear : BOOLEAN]

DecisionsAssumption ==
  /\ MaxCommands \in Nat /\ None \notin Commands /\ Lines \subseteq CommandLines
  /\ Mistyped \notin Workers \cup Commands \cup {None} /\ Mistyped \notin Keys /\ Workers \cap Keys = {}
  /\ (Workers \cup {Mistyped}) \cap {DecisionRef(d) : d \in Commands} = {}
  /\ MaxMoves \in Nat /\ MaxChanges \in Nat /\ ThreadOf \in [Workers -> STRING]

VARIABLES
  ledger,     \* worker rows
  records,    \* other rows
  decisions,  \* the table
  pc, req, line,  \* per command: where it is, its request ID and command line
  input,      \* its line completed from the decision it supersedes
  draft,      \* the decision it composed
  answer,     \* the decision it printed
  moves

command == <<pc, req, line, input, draft, answer>>
vars == <<ledger, records, decisions, command, moves>>

Exists(d) == decisions[d] # Absent

Init ==
  /\ ledger = [w \in Workers |-> Absent] /\ records = {}
  /\ decisions = [d \in Commands |-> Absent]
  /\ pc = [k \in Commands |-> "off"] /\ req = [k \in Commands |-> None]
  /\ line = [k \in Commands |-> Absent] /\ input = [k \in Commands |-> Absent]
  /\ draft = [k \in Commands |-> Absent] /\ answer = [k \in Commands |-> None]
  /\ moves = 0

Goes(k, s) == pc' = [pc EXCEPT ![k] = s]

First(a, b) == IF a # None THEN a ELSE b

-----------------------------------------------------------------------------
(* The ledger.                                                             *)

Changes == Cardinality(Rows(ledger)) + Cardinality(records)
Bounded == Changes < MaxChanges \/ \A k \in Commands : pc[k] = "off"

\* A worker with a new ID.  Neither its parent nor its issue is checked.
NewWorker(w, parent, issue) ==
  /\ ledger[w] = Absent /\ Bounded
  /\ ledger' = [ledger EXCEPT ![w] = [status |-> "idle", parent |-> parent, issue |-> issue,
                                      thread |-> ThreadOf[w], host |-> Host]]
  /\ UNCHANGED <<records, decisions, command, moves>>

Threads == {ThreadOf[w] : w \in Workers}

\* cs attach --worker: the thread and the host are those of the command, where the
\* host may be left out; the parent stays without --parent.  What the row then says
\* of its runtime is left out: no operation depends on it.
Attach(w, parent, thread, host) ==
  /\ ledger[w] # Absent /\ moves < MaxMoves /\ moves' = moves + 1
  /\ ledger' = [ledger EXCEPT ![w] = [ledger[w] EXCEPT !.parent = First(parent, ledger[w].parent),
                                                       !.thread = thread, !.host = host]]
  /\ UNCHANGED <<records, decisions, command>>

WriteRecord(r) ==
  /\ r \in Records \ records /\ Bounded /\ records' = records \cup {r}
  /\ UNCHANGED <<ledger, decisions, command, moves>>

-----------------------------------------------------------------------------
(* cs decision.                                                            *)

\* IDs are generated when their row is written: a line can name one only after that.
Nameable == Rows(ledger) \cup {DecisionRef(d) : d \in {c \in Commands : Exists(c)}} \cup {Mistyped}
Names(l) == (({l.author} \ {None}) \cup l.evidence \cup
             (IF l.target \in Commands THEN {DecisionRef(l.target)} ELSE {})) \ Keys

\* What the line leaves out is inherited from the prior decision, the evidence only
\* without --clear-evidence.  A line that supersedes nothing inherits nothing.
NoPrior == [operation |-> None, issue |-> None, author |-> None, evidence |-> {}]
Completed(l, prior) ==
  [target |-> l.target, operation |-> First(l.operation, prior.operation),
   issue |-> First(l.issue, prior.issue), author |-> First(l.author, prior.author),
   evidence |-> IF l.evidence = {} /\ ~l.clear THEN prior.evidence ELSE l.evidence]

\* The command line; supersede reads the prior decision.  The fingerprint of the
\* request is the input this makes.
Begin(k, r, l) ==
  /\ pc[k] = "off" /\ (\A j \in 1 .. (k - 1) : pc[j] # "off")
  /\ Changes <= MaxChanges /\ Names(l) \subseteq Nameable
  /\ req' = [req EXCEPT ![k] = r] /\ line' = [line EXCEPT ![k] = l]
  /\ \/ /\ l.target = None
        /\ input' = [input EXCEPT ![k] = Completed(l, NoPrior)] /\ Goes(k, "begun")
     \/ /\ l.target \in Commands
        /\ input' = [input EXCEPT ![k] = Completed(l, decisions[l.target])] /\ Goes(k, "begun")
     \/ /\ l.target = Mistyped
        /\ Goes(k, "refused") /\ UNCHANGED input
  /\ UNCHANGED <<ledger, records, decisions, draft, answer, moves>>

\* Mutant: what is not found is dropped.
NoGaps(refs, view) == {}

\* classifyDecisionEvidence, as far as the snapshot goes: workers and operations.
SnapshotGaps(refs, view) ==
  {<<"evidence", e>> :
     e \in {x \in refs : x = Mistyped \/ (x \in Keys /\ ~operationViewHasKey(view, x))}}

\* ReadCoordinationSnapshot and Derive: all rows in one transaction.  The order in
\* which workers are resolved is any: ResolutionsAgree says that it does not matter.
Resolution == ResolveWorkers(ledger, CHOOSE order \in Orders : TRUE)
View == Derive(ledger, records, Resolution)

\* A hash of the completed input; it is taken to have no collisions.
decisionCommandFingerprint(in) == in

\* normalizeDecision: evidence and gaps are sorted and without repetition.
Draft(k, operation, issue, gaps) ==
  [status |-> "current", req |-> req[k], fp |-> decisionCommandFingerprint(input[k]),
   operation |-> operation, issue |-> issue, author |-> input[k].author,
   evidence |-> input[k].evidence, gaps |-> gaps,
   supersedes |-> input[k].target, supersededBy |-> None]

\* buildDecision: an author is required.  The issue is the line's or the author's and
\* decides the operation; without one it is the line's or that of the author.
Build(k) ==
  /\ pc[k] = "begun"
  /\ LET in == input[k]
         resolution == Resolution
         view == View
         known == in.author \in Rows(ledger)
         authorIssue == IF known /\ ledger[in.author].issue \in Issues THEN ledger[in.author].issue ELSE None
         issue == First(in.issue, authorIssue)
         operation == IF issue # None THEN IssueKey(issue)
                      ELSE IF in.operation # None THEN in.operation
                      ELSE IF known /\ resolution[in.author].state = "resolved" THEN resolution[in.author].key
                      ELSE None
         gaps == (IF known THEN {} ELSE {<<"author", in.author>>})
                   \cup (IF known /\ in.issue = None /\ ledger[in.author].issue = BadIssue
                         THEN {<<"issue", in.author>>} ELSE {})
                   \cup (IF known /\ operation = None THEN {<<"unresolved", in.author>>} ELSE {})
                   \cup (IF operation # None /\ ~operationViewHasKey(view, operation)
                         THEN {<<"operation", operation>>} ELSE {})
                   \cup SnapshotGaps(in.evidence, view)
     IN
     \/ /\ \/ in.author = None
           \/ in.operation # None /\ issue # None /\ in.operation # IssueKey(issue)
        /\ Goes(k, "refused") /\ UNCHANGED draft
     \/ /\ in.author # None
        /\ in.operation = None \/ issue = None \/ in.operation = IssueKey(issue)
        /\ draft' = [draft EXCEPT ![k] = Draft(k, operation, issue, gaps)]
        /\ Goes(k, "built")
  /\ UNCHANGED <<ledger, records, decisions, req, line, input, answer, moves>>

\* classifyDecisionEvidence for the cited decisions, in transactions of their own.
Classify(k) ==
  /\ pc[k] = "built"
  /\ draft' = [draft EXCEPT ![k].gaps = @ \cup
       {<<"evidence", e>> : e \in {DecisionRef(d) : d \in {c \in Commands : ~Exists(c)}} \cap draft[k].evidence}]
  /\ Goes(k, "classified")
  /\ UNCHANGED <<ledger, records, decisions, req, line, input, answer, moves>>

\* Mutant: any decision can be superseded.
CurrentOrNot(d) == TRUE

Current(d) == decisions[d].supersededBy = None

Recorded(r) == {d \in Commands : Exists(d) /\ decisions[d].req = r}

\* The new row, and the mark on the one it supersedes.
Insert(k) ==
  decisions' = [d \in Commands |->
     IF d = k THEN draft[k]
     ELSE IF d = draft[k].supersedes THEN [decisions[d] EXCEPT !.supersededBy = k]
     ELSE decisions[d]]

\* Mutant: the prior decision is looked at before the request.
RecordCurrentFirst(k) ==
  /\ pc[k] = "classified"
  /\ LET target == draft[k].supersedes
         stale == target # None /\ ~Current(target)
         same == {d \in Recorded(req[k]) : decisions[d].fp = draft[k].fp}
     IN
     \/ /\ stale \/ Recorded(req[k]) # same
        /\ Goes(k, "refused") /\ UNCHANGED <<decisions, answer>>
     \/ /\ ~stale
        /\ \E d \in same : answer' = [answer EXCEPT ![k] = d]
        /\ Goes(k, "answered") /\ UNCHANGED decisions
     \/ /\ ~stale /\ Recorded(req[k]) = {}
        /\ Insert(k) /\ answer' = [answer EXCEPT ![k] = k] /\ Goes(k, "answered")
  /\ UNCHANGED <<ledger, records, req, line, input, draft, moves>>

\* RecordDecision: a request that was seen is answered or, with another input,
\* refused; a superseded decision is not superseded again.
RecordDecision(k) ==
  /\ pc[k] = "classified"
  /\ LET target == draft[k].supersedes
         stale == target # None /\ ~Current(target)
         same == {d \in Recorded(req[k]) : decisions[d].fp = draft[k].fp}
     IN
     \/ /\ Recorded(req[k]) # same \/ (Recorded(req[k]) = {} /\ stale)
        /\ Goes(k, "refused") /\ UNCHANGED <<decisions, answer>>
     \/ /\ \E d \in same : answer' = [answer EXCEPT ![k] = d]
        /\ Goes(k, "answered") /\ UNCHANGED decisions
     \/ /\ Recorded(req[k]) = {} /\ ~stale
        /\ Insert(k) /\ answer' = [answer EXCEPT ![k] = k] /\ Goes(k, "answered")
  /\ UNCHANGED <<ledger, records, req, line, input, draft, moves>>

Next ==
  \/ \E w \in Workers, p \in Workers \cup {None}, i \in Issues \cup {BadIssue, None} : NewWorker(w, p, i)
  \/ \E w \in Workers, p \in Workers \cup {None}, t \in Threads, h \in AttachHosts :
       Attach(w, p, t, h)
  \/ \E r \in Records : WriteRecord(r)
  \/ \E k \in Commands, r \in Requests, l \in Lines : Begin(k, r, l)
  \/ \E k \in Commands : Build(k) \/ Classify(k) \/ RecordDecision(k)

Spec == Init /\ [][Next]_vars

-----------------------------------------------------------------------------
(* Properties.                                                             *)

\* Every variable has its type.
TypeOK ==
  /\ pc \in [Commands -> {"off", "begun", "built", "classified", "answered", "refused"}]
  /\ req \in [Commands -> Requests \cup {None}] /\ answer \in [Commands -> Commands \cup {None}]
  /\ \A w \in Rows(ledger) : ledger[w].parent \in Workers \cup {None}
  /\ \A d \in Commands : Exists(d) =>
       decisions[d].supersedes \in Commands \cup {None} /\ decisions[d].supersededBy \in Commands \cup {None}

\* All a resolution may read.
Lineages == [w \in Rows(ledger) |-> <<ledger[w].parent, ledger[w].issue>>]

\* In whatever order the map of workers is walked, and with lineages that are
\* broken, closed into a cycle or moved by attach, every worker gets the resolution
\* its lineage means.  (docs/design.md:158, "deterministic projections")
ResolutionsAgree ==
  [][Lineages' # Lineages =>
        LET meant == [w \in Rows(ledger') |-> ResolutionOf(ledger', w)]
        IN  \A order \in Orders : ResolveWorkers(ledger', order) = meant]_vars

\* Supersession makes chains: each decision has at most one successor, knows it,
\* and is what the successor says it replaces, however the commands that read it
\* as current overlap.  (docs/design.md:169, "leaving one current successor")
OneSuccessor ==
  \A d, e \in Commands : Exists(d) /\ Exists(e) =>
     /\ (decisions[d].supersededBy = e) <=> (decisions[e].supersedes = d)
     /\ d # e /\ decisions[d].supersedes = decisions[e].supersedes => decisions[d].supersedes = None

\* A command whose request is on record with the same command line is never refused,
\* also when what it supersedes is superseded now, by its own first attempt or by
\* somebody after it.  (README.md:535, "request-ID-idempotent SQLite writes")
RetryAnswered ==
  [][\A k \in Commands : pc[k] # pc'[k] /\ pc'[k] = "refused" =>
        ~\E d \in Recorded(req'[k]) : line[d] = line'[k]]_vars

\* A decision with no recorded gap has its author and all it cites in the ledger,
\* although each was looked up in a transaction before the one that recorded it.
\* (README.md:540, "Missing authors or evidence stay visible as provenance gaps")
NoSilentGap ==
  \A d \in Commands : Exists(d) /\ decisions[d].gaps = {} =>
     /\ decisions[d].author \in Rows(ledger)
     /\ decisions[d].evidence \ Keys \subseteq Nameable \ {Mistyped}
=============================================================================
