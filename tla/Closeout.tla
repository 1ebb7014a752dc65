------------------------------ MODULE Closeout ------------------------------
(***************************************************************************)
(* `cs close` of one worker that has a parent (cmd/cs/close.go): it reads  *)
(* the worker and refreshes its pull request, closes the worker in one     *)
(* ledger transaction, and forwards the completion to the parent in later  *)
(* transactions.  A command may die between any two of these, and is then  *)
(* given again with the same request ID.                                   *)
(*                                                                         *)
(* The ledger remembers the last CacheCap mutations of all commands        *)
(* (completed_mutations); a request found there is replayed.               *)
(***************************************************************************)
EXTENDS Naturals, Sequences

CONSTANTS
  Requests,   \* request IDs of close, each with one command line
  Commands,   \* invocations of close; a retry is another invocation
  PRStates,   \* states of the attached pull request
  None,
  CacheCap,   \* CompletedMutationCacheCap
  MaxOthers,  \* bound: commands other than close
  PRMoves,    \* TRUE: the pull request changes on GitHub
  Reopens     \* TRUE: the worker is reported on, resumed, handed over, attached

CloseoutAssumption ==
  /\ CacheCap \in Nat \ {0} /\ MaxOthers \in Nat
  /\ PRMoves \in BOOLEAN /\ Reopens \in BOOLEAN
  /\ None \notin Requests

VARIABLES
  status,     \* the worker's status
  report,     \* what its report says: that of a close request, or another
  completed,  \* completed_mutations, oldest first
  message,    \* per request, the completion message to the parent
  pc, req,    \* per invocation: where it is, its request ID
  pulls,      \* the pull request as it was refreshed
  told,       \* the report the transaction returned
  body,       \* the completion it composed
  \* outside the program and history
  github,     \* the pull request
  outcome,    \* the --status of each request's command line
  others,     \* commands other than close so far
  closes,     \* how often a request was applied
  since       \* mutations recorded since it was applied last

command == <<pc, req, pulls, told, body>>
ledger == <<status, report, completed, message>>
world == <<github, outcome, others>>
vars == <<ledger, command, world, closes, since>>

Terminal == {"done", "failed"}
Statuses == {"pending", "running", "idle"} \cup Terminal
Reports == Requests \cup {"other"}
Bodies == [status : Statuses, report : Reports]

\* A mutation of this command, or of any other.
Entry(r, fp) == [req |-> r, fp |-> fp]
Other == Entry(None, None)

Init ==
  /\ status = "running" /\ report = "other" /\ completed = << >>
  /\ message = [r \in Requests |-> None]
  /\ pc = [k \in Commands |-> "off"] /\ req \in [Commands -> Requests]
  /\ pulls = [k \in Commands |-> None] /\ told = [k \in Commands |-> None]
  /\ body = [k \in Commands |-> None]
  /\ github \in PRStates /\ outcome \in [Requests -> Terminal] /\ others = 0
  /\ closes = [r \in Requests |-> 0] /\ since = [r \in Requests |-> 0]

-----------------------------------------------------------------------------
(* The replay cache.                                                       *)

\* Mutant: one entry less is kept than the cap allows.
LatestButOne(s) == IF Len(s) < CacheCap THEN s ELSE SubSeq(s, Len(s) - CacheCap + 2, Len(s))

\* Mutant: the cache is never trimmed.
LatestAndAll(s) == s

\* appendBoundedCompletedMutations keeps the latest CacheCap entries.
Latest(s) == IF Len(s) <= CacheCap THEN s ELSE SubSeq(s, Len(s) - CacheCap + 1, Len(s))

Remember(e) ==
  /\ completed' = Latest(Append(completed, e))
  /\ since' = [r \in Requests |-> IF r = e.req THEN 0 ELSE since[r] + 1]

Remembered(r) == {i \in DOMAIN completed : completed[i].req = r}

-----------------------------------------------------------------------------
(* cs close.                                                               *)

\* The process of a command ends, and with it what it has read and composed.
Ends(k, s) ==
  /\ pc' = [pc EXCEPT ![k] = s] /\ pulls' = [pulls EXCEPT ![k] = None]
  /\ told' = [told EXCEPT ![k] = None] /\ body' = [body EXCEPT ![k] = None]

\* GetWorker and the refresh of the pull request.
Refresh(k) ==
  /\ pc[k] = "off"
  /\ pc' = [pc EXCEPT ![k] = "refreshed"] /\ pulls' = [pulls EXCEPT ![k] = github]
  /\ UNCHANGED <<ledger, req, told, body, world, closes, since>>

\* Mutant: a replayed close counts as finished and forwards nothing.
CloseWorkerAndStop(k) ==
  /\ pc[k] = "refreshed"
  /\ LET r == req[k] IN
     \/ /\ Remembered(r) # {} /\ \A i \in Remembered(r) : completed[i].fp = pulls[k]
        /\ pc' = [pc EXCEPT ![k] = "done"] /\ told' = [told EXCEPT ![k] = report]
        /\ UNCHANGED <<status, report, completed, closes, since>>
     \/ /\ Remembered(r) = {}
        /\ status' = outcome[r] /\ report' = r /\ Remember(Entry(r, pulls[k]))
        /\ closes' = [closes EXCEPT ![r] = @ + 1]
        /\ told' = [told EXCEPT ![k] = r] /\ pc' = [pc EXCEPT ![k] = "closed"]
  /\ UNCHANGED <<message, req, pulls, body, world>>

\* JSONStore.CloseWorker.  The fingerprint of a command line is that of the
\* pull request it saw, its worker, status and note being those of the request.
CloseWorker(k) ==
  /\ pc[k] = "refreshed"
  /\ LET r == req[k] IN
     \/ /\ \E i \in Remembered(r) : completed[i].fp # pulls[k]
        /\ pc' = [pc EXCEPT ![k] = "refused"]
        /\ UNCHANGED <<status, report, completed, told, closes, since>>
     \/ /\ Remembered(r) # {} /\ \A i \in Remembered(r) : completed[i].fp = pulls[k]
        /\ pc' = [pc EXCEPT ![k] = "closed"] /\ told' = [told EXCEPT ![k] = report]
        /\ UNCHANGED <<status, report, completed, closes, since>>
     \/ /\ Remembered(r) = {}
        /\ status' = outcome[r] /\ report' = r /\ Remember(Entry(r, pulls[k]))
        /\ closes' = [closes EXCEPT ![r] = @ + 1]
        /\ told' = [told EXCEPT ![k] = r] /\ pc' = [pc EXCEPT ![k] = "closed"]
  /\ UNCHANGED <<message, req, pulls, body, world>>

\* ForwardCompletion reads the worker again and composes the message.
Compose(k) ==
  /\ pc[k] = "closed"
  /\ pc' = [pc EXCEPT ![k] = "composed"]
  /\ body' = [body EXCEPT ![k] = [status |-> status, report |-> told[k]]]
  /\ UNCHANGED <<ledger, req, pulls, told, world, closes, since>>

\* CreateMessage: a message that is there is replayed or refused.
Forward(k) ==
  /\ pc[k] = "composed"
  /\ LET r == req[k] IN
     \/ /\ message[r] = None
        /\ message' = [message EXCEPT ![r] = body[k]]
        /\ pc' = [pc EXCEPT ![k] = "sent"] /\ UNCHANGED <<pulls, told, body>>
     \/ /\ message[r] # None /\ UNCHANGED message
        /\ Ends(k, IF message[r] = body[k] THEN "done" ELSE "refused")
  /\ UNCHANGED <<status, report, completed, req, world, closes, since>>

\* The timeline mutation of a new message, in a transaction of its own.
RecordTimeline(k) ==
  /\ pc[k] = "sent"
  /\ Remember(Other) /\ Ends(k, "done")
  /\ UNCHANGED <<status, report, message, req, world, closes>>

\* The command is interrupted, or its daemon, GitHub or the store fails.
Die(k) ==
  /\ pc[k] \in {"refreshed", "closed", "composed", "sent"}
  /\ Ends(k, "dead")
  /\ UNCHANGED <<ledger, req, world, closes, since>>

-----------------------------------------------------------------------------
(* Other commands, none of which looks at the status it replaces.          *)

Counted == others < MaxOthers /\ others' = others + 1

Report(s) ==
  /\ Reopens /\ s \in {"done", "failed", "idle"} /\ Counted
  /\ status' = s /\ report' = "other"
  /\ UNCHANGED <<completed, message, command, github, outcome, closes, since>>

\* cs resume, attach and send, the latter with its turn's status.
Resume(s) ==
  /\ Reopens /\ s \in {"idle", "running", "done", "failed"} /\ Counted
  /\ status' = s
  /\ UNCHANGED <<report, completed, message, command, github, outcome, closes, since>>

Handoff ==
  /\ Reopens /\ Counted
  /\ status' = "idle" /\ report' = "other" /\ Remember(Other)
  /\ UNCHANGED <<message, command, github, outcome, closes>>

\* A mutation with a request ID of another worker, or a message's timeline.
Mutate ==
  /\ Counted /\ Remember(Other)
  /\ UNCHANGED <<status, report, message, command, github, outcome, closes>>

MovePullRequest ==
  /\ PRMoves /\ \E s \in PRStates \ {github} : github' = s
  /\ UNCHANGED <<ledger, command, outcome, others, closes, since>>

Close(k) == Refresh(k) \/ CloseWorker(k) \/ Compose(k) \/ Forward(k) \/ RecordTimeline(k)

Next ==
  \/ \E k \in Commands : Close(k) \/ Die(k)
  \/ \E s \in Statuses : Report(s) \/ Resume(s)
  \/ Handoff \/ Mutate \/ MovePullRequest

Spec == Init /\ [][Next]_vars

-----------------------------------------------------------------------------
(* Properties.                                                             *)

\* Every variable has its type, and the cache its bound.
TypeOK ==
  /\ status \in Statuses /\ report \in Reports
  /\ Len(completed) <= CacheCap
  /\ \A i \in DOMAIN completed :
        completed[i] \in [req : Requests \cup {None}, fp : PRStates \cup {None}]
  /\ message \in [Requests -> Bodies \cup {None}]
  /\ pc \in [Commands -> {"off", "refreshed", "closed", "composed", "sent", "done", "refused", "dead"}]
  /\ req \in [Commands -> Requests] /\ pulls \in [Commands -> PRStates \cup {None}]
  /\ told \in [Commands -> Reports \cup {None}] /\ body \in [Commands -> Bodies \cup {None}]

\* However often a close is retried and whatever runs in between, it is applied
\* again only after CacheCap later mutations have pushed it out of the cache.
\* (docs/design.md:234, "Request IDs make retries idempotent.")
AppliedOncePerWindow ==
  [][\A r \in Requests :
       closes'[r] > closes[r] /\ closes[r] > 0 => since[r] >= CacheCap]_vars

\* A close that reported success was applied and has told the parent, also when
\* it is the retry of one that died between the two.
SuccessIsComplete ==
  \A k \in Commands : pc[k] = "done" =>
     closes[req[k]] > 0 /\ message[req[k]] # None

\* A retry of a close is not refused.
\* (docs/design.md:234, "Request IDs make retries idempotent.")
RetryAccepted == \A k \in Commands : pc[k] # "refused"

\* The parent is told a terminal status.  (coordination/service.go:95,
\* "automatically reports a child terminal result to its parent")
CompletionIsTerminal ==
  \A r \in Requests : message[r] # None => message[r].status \in Terminal
=============================================================================
