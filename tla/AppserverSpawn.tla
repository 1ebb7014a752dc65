--------------------------- MODULE AppserverSpawn ---------------------------
(***************************************************************************)
(* Launching the first app-server turn of one persisted worker             *)
(* (internal/daemon/appserver_spawn.go).  Requests for it may reach        *)
(* several csd processes: the daemon, and caller-owned runtimes with their *)
(* own in-memory launches map.  They share only the worker's row in the    *)
(* SQLite ledger, where every UpdateWorker is one transaction.             *)
(*                                                                         *)
(* A request that launches owns the run it starts, so runs are named by    *)
(* their requests, and so are the thread and turn they create.             *)
(***************************************************************************)
EXTENDS Naturals, FiniteSets

CONSTANTS
  Requests,     \* spawn requests; all carry the request ID of the worker
  Servers,      \* csd processes
  Prompts,      \* what tells fingerprints apart
  NoRequest,
  StoreErrors,  \* TRUE: a transaction may fail (busy, full or unreadable disk)
  Crashes,      \* TRUE: a csd process may die
  Closes        \* TRUE: the operator may close the worker

ASSUME SpawnAssumption ==
  /\ NoRequest \notin Requests /\ {"none", "error"} \cap Requests = {}
  /\ StoreErrors \in BOOLEAN /\ Crashes \in BOOLEAN /\ Closes \in BOOLEAN

VARIABLES
  row,      \* the worker: status, thread (the run that created it) and the
            \* appserver.spawn.requested event: the request and its prompt
  up,       \* per server: "up", "closing" (Close was called), "down"
  launches, \* per server: the request whose launch the map holds
  qpc,      \* where a request's handler is
  at,       \* the server it reached
  prompt,   \* its prompt
  seen,     \* what it read of the row first: the thread and the request
  joins,    \* the launch it waits for
  answer,   \* what it was told: "none", "error" or a thread
  rpc,      \* where the run it started is
  ready,    \* startResult of its launch, "none" until finishStart
  \* outside the program and history
  turns,    \* runs that really started a turn
  forwarded,\* the completion was sent to the parent
  closed    \* the operator closed the worker

handler == <<qpc, at, prompt, seen, joins, answer>>
vars == <<row, up, launches, handler, rpc, ready, turns, forwarded, closed>>

Statuses == {"pending", "running", "idle", "done", "failed"}
NewRow == [status |-> "pending", thread |-> NoRequest, by |-> NoRequest]
Launch(r) == [thread |-> r.thread, by |-> r.by]

Init ==
  /\ row = NewRow /\ up = [s \in Servers |-> "up"]
  /\ launches = [s \in Servers |-> NoRequest]
  /\ qpc = [q \in Requests |-> "off"]
  /\ at \in [Requests -> Servers] /\ prompt \in [Requests -> Prompts]
  /\ seen = [q \in Requests |-> Launch(NewRow)]
  /\ joins = [q \in Requests |-> NoRequest] /\ answer = [q \in Requests |-> "none"]
  /\ rpc = [q \in Requests |-> "none"] /\ ready = [q \in Requests |-> "none"]
  /\ turns = {} /\ forwarded = FALSE /\ closed = FALSE

Answer(q, a) ==
  /\ qpc' = [qpc EXCEPT ![q] = "done"] /\ answer' = [answer EXCEPT ![q] = a]

-----------------------------------------------------------------------------
(* startAppserverWorker.                                                   *)

\* GetWorker.
ReadWorker(q) ==
  /\ qpc[q] = "off" /\ up[at[q]] = "up"
  /\ seen' = [seen EXCEPT ![q] = Launch(row)] /\ qpc' = [qpc EXCEPT ![q] = "read"]
  /\ UNCHANGED <<row, up, launches, at, prompt, joins, answer, rpc, ready, turns, forwarded, closed>>

\* replayAppserverSpawn, on the row that was read.
Replays(q) == /\ seen[q].by # NoRequest /\ prompt[seen[q].by] = prompt[q]
              /\ seen[q].thread # NoRequest
Refuses(q) == ~Replays(q) /\ (seen[q].by # NoRequest \/ seen[q].thread # NoRequest)

\* Under launchMu: join the launch this server has, answer from the row that
\* was read, or enter a launch of its own into the map.
Decide(q) ==
  LET s == at[q]
      l == launches[s]
  IN /\ qpc[q] = "read" /\ up[s] # "down"
     /\ \/ /\ l # NoRequest /\ prompt[l] = prompt[q]
           /\ qpc' = [qpc EXCEPT ![q] = "joined"] /\ joins' = [joins EXCEPT ![q] = l]
           /\ UNCHANGED <<launches, answer>>
        \/ /\ IF l # NoRequest THEN prompt[l] # prompt[q] ELSE Refuses(q)
           /\ Answer(q, "error") /\ UNCHANGED <<launches, joins>>
        \/ /\ l = NoRequest /\ Replays(q)
           /\ Answer(q, seen[q].thread) /\ UNCHANGED <<launches, joins>>
        \/ /\ l = NoRequest /\ ~Replays(q) /\ ~Refuses(q)
           /\ launches' = [launches EXCEPT ![s] = q]
           /\ qpc' = [qpc EXCEPT ![q] = "entered"] /\ UNCHANGED <<joins, answer>>
     /\ UNCHANGED <<row, up, at, prompt, seen, rpc, ready, turns, forwarded, closed>>

\* Mutant: the transaction trusts the row that was read before it.
UntakenWhenRead == TRUE

Untaken == row.by = NoRequest /\ row.thread = NoRequest

\* The transaction records the request, if none has been recorded, and the run
\* starts; otherwise the launch fails.  UpdateWorker returns an empty worker
\* with its error, so removeLaunch looks for the launch of worker "" and
\* leaves this one in the map.
RecordRequest(q) ==
  /\ qpc[q] = "entered" /\ up[at[q]] # "down"
  /\ \/ /\ Untaken
        /\ row' = [row EXCEPT !.by = q, !.status = "pending"]
        /\ rpc' = [rpc EXCEPT ![q] = "starting"]
        /\ qpc' = [qpc EXCEPT ![q] = "joined"] /\ joins' = [joins EXCEPT ![q] = q]
        /\ UNCHANGED <<ready, answer>>
     \/ /\ ~Untaken \/ StoreErrors
        /\ ready' = [ready EXCEPT ![q] = "error"] /\ Answer(q, "error")
        /\ UNCHANGED <<row, rpc, joins>>
  /\ UNCHANGED <<up, launches, at, prompt, seen, turns, forwarded, closed>>

Waits(q) == qpc[q] = "joined" /\ up[at[q]] # "down"

Ready(q) ==
  /\ Waits(q) /\ ready[joins[q]] # "none" /\ Answer(q, ready[joins[q]])
  /\ UNCHANGED <<row, up, launches, at, prompt, seen, joins, rpc, ready, turns, forwarded, closed>>

\* The request's context ends first; the run goes on.
Abandon(q) ==
  /\ Waits(q) /\ Answer(q, "error")
  /\ UNCHANGED <<row, up, launches, at, prompt, seen, joins, rpc, ready, turns, forwarded, closed>>

-----------------------------------------------------------------------------
(* runAppserverWorker.                                                     *)

runFrame == <<up, handler, closed>>

\* The goroutine ends: launch.done is closed and removeLaunch runs.
EndRun(q) ==
  /\ rpc' = [rpc EXCEPT ![q] = "ended"]
  /\ launches' = [s \in Servers |-> IF launches[s] = q THEN NoRequest ELSE launches[s]]

FinishStart(q, a) == ready' = [ready EXCEPT ![q] = a]

\* The failure is written to the row, or that write fails as well.
RecordFailure(thread) ==
  \/ row' = [row EXCEPT !.thread = thread, !.status = "failed"]
  \/ StoreErrors /\ UNCHANGED row

\* Mutant: the launch's waiters are not told about the failure.
FailToStartSilently(q) ==
  /\ rpc[q] = "starting"
  /\ RecordFailure(NoRequest) /\ EndRun(q)
  /\ turns' \in {turns, turns \cup {q}}
  /\ UNCHANGED <<runFrame, forwarded, ready>>

\* RunTurn fails without a turn ID, be it that turn/start had no effect or
\* that its answer was lost.  A thread without a turn counts as no identity.
FailToStart(q) ==
  /\ rpc[q] = "starting"
  /\ RecordFailure(NoRequest) /\ FinishStart(q, "error") /\ EndRun(q)
  /\ turns' \in {turns, turns \cup {q}}
  /\ UNCHANGED <<runFrame, forwarded>>

\* turn/start succeeds.
BeginTurn(q) ==
  /\ rpc[q] = "starting" /\ turns' = turns \cup {q}
  /\ rpc' = [rpc EXCEPT ![q] = "observing"]
  /\ UNCHANGED <<row, launches, ready, runFrame, forwarded>>

\* Mutant: the handler is told about the turn before the row is written.
ObserveEarly(q) ==
  /\ rpc[q] = "observing" /\ FinishStart(q, q)
  /\ \/ /\ row' = [row EXCEPT !.thread = q, !.status = "running"]
        /\ rpc' = [rpc EXCEPT ![q] = "running"]
     \/ /\ StoreErrors /\ rpc' = [rpc EXCEPT ![q] = "recovering"]
        /\ UNCHANGED row
  /\ UNCHANGED <<launches, runFrame, turns, forwarded>>

\* The TurnObserver makes the identity durable and only then answers.
Observe(q) ==
  /\ rpc[q] = "observing"
  /\ \/ /\ row' = [row EXCEPT !.thread = q, !.status = "running"]
        /\ FinishStart(q, q) /\ rpc' = [rpc EXCEPT ![q] = "running"]
     \/ /\ StoreErrors /\ rpc' = [rpc EXCEPT ![q] = "recovering"]
        /\ UNCHANGED <<row, ready>>
  /\ UNCHANGED <<launches, runFrame, turns, forwarded>>

\* After a failed observer the identity is written once more; the turn's
\* process is gone, so the worker is idle and resumable.
Recover(q) ==
  /\ rpc[q] = "recovering" /\ EndRun(q)
  /\ \/ row' = [row EXCEPT !.thread = q, !.status = "idle"] /\ FinishStart(q, q)
     \/ StoreErrors /\ RecordFailure(q) /\ FinishStart(q, "error")
  /\ UNCHANGED <<runFrame, turns, forwarded>>

\* Mutant: the turn's status is stored as the server spells it.
OutcomesVerbatim(q) == {"completed", "failed", "interrupted"}

\* The status a finished turn leaves: the turn's own, "idle" after the context
\* ended, "failed" after any other error, "running" for an unknown turn status.
Outcomes(q) == {"done", "failed", "running"}
               \cup (IF up[at[q]] = "closing" THEN {"idle"} ELSE {})

\* The turn returned and its outcome is written, or the write fails and the
\* goroutine gives up.
FinishTurn(q) ==
  /\ rpc[q] = "running"
  /\ \/ \E o \in Outcomes(q) :
          /\ row' = [row EXCEPT !.thread = q, !.status = o]
          /\ IF o \in {"done", "failed"}
             THEN rpc' = [rpc EXCEPT ![q] = "forwarding"] /\ UNCHANGED launches
             ELSE EndRun(q)
     \/ StoreErrors /\ EndRun(q) /\ UNCHANGED row
  /\ UNCHANGED <<ready, runFrame, turns, forwarded>>

\* Mutant: completions are forwarded only while csd is not shutting down.
ForwardWhileUp(q) ==
  /\ rpc[q] = "forwarding" /\ EndRun(q)
  /\ forwarded' = (forwarded \/ up[at[q]] = "up")
  /\ UNCHANGED <<row, ready, runFrame, turns>>

\* ForwardCompletion to the parent.
Forward(q) ==
  /\ rpc[q] = "forwarding" /\ EndRun(q)
  /\ \/ forwarded' = TRUE
     \/ StoreErrors /\ UNCHANGED forwarded
  /\ UNCHANGED <<row, ready, runFrame, turns>>

-----------------------------------------------------------------------------
(* csd processes and the operator.                                         *)

Live == {"starting", "observing", "recovering", "running", "forwarding"}

\* The process is gone: its map, handlers and runs with it.
Vanish(s) ==
  /\ up' = [up EXCEPT ![s] = "down"]
  /\ launches' = [launches EXCEPT ![s] = NoRequest]
  /\ LET Lost == {q \in Requests : at[q] = s /\ qpc[q] \notin {"off", "done"}}
     IN /\ qpc' = [q \in Requests |-> IF q \in Lost THEN "done" ELSE qpc[q]]
        /\ answer' = [q \in Requests |-> IF q \in Lost THEN "error" ELSE answer[q]]
  /\ rpc' = [q \in Requests |-> IF at[q] = s /\ rpc[q] \in Live THEN "lost" ELSE rpc[q]]
  /\ UNCHANGED <<row, at, prompt, seen, joins, ready, turns, forwarded, closed>>

\* Server.Close cancels the runtime context and waits for the runs.
Shutdown(s) ==
  /\ up[s] = "up" /\ up' = [up EXCEPT ![s] = "closing"]
  /\ UNCHANGED <<row, launches, handler, rpc, ready, turns, forwarded, closed>>

Stop(s) ==
  /\ up[s] = "closing" /\ \A q \in Requests : at[q] = s => rpc[q] \notin Live
  /\ Vanish(s)

Crash(s) == Crashes /\ up[s] # "down" /\ Vanish(s)

Restart(s) ==
  /\ up[s] = "down" /\ up' = [up EXCEPT ![s] = "up"]
  /\ UNCHANGED <<row, launches, handler, rpc, ready, turns, forwarded, closed>>

\* CloseWorker
Close ==
  /\ Closes /\ ~closed /\ closed' = TRUE
  /\ \E o \in {"done", "failed"} : row' = [row EXCEPT !.status = o]
  /\ UNCHANGED <<up, launches, handler, rpc, ready, turns, forwarded>>

Handle(q) == ReadWorker(q) \/ Decide(q) \/ RecordRequest(q) \/ Ready(q)
Run(q) == FailToStart(q) \/ BeginTurn(q) \/ Observe(q) \/ Recover(q)
          \/ FinishTurn(q) \/ Forward(q)
Process(s) == Shutdown(s) \/ Stop(s) \/ Crash(s) \/ Restart(s)

Next ==
  \/ \E q \in Requests : Handle(q) \/ Abandon(q) \/ Run(q)
  \/ \E s \in Servers : Process(s)
  \/ Close

Spec == Init /\ [][Next]_vars

\* Handlers and goroutines run, and turns end.
FairSpec == Spec /\ \A q \in Requests : WF_vars(Handle(q)) /\ WF_vars(Run(q))

-----------------------------------------------------------------------------
(* Properties.                                                             *)

Answers == {"none", "error"} \cup Requests

\* Every variable has its type.
TypeOK ==
  LET Named == Requests \cup {NoRequest} IN
  /\ row \in [status : Statuses, thread : Named, by : Named]
  /\ up \in [Servers -> {"up", "closing", "down"}]
  /\ launches \in [Servers -> Named]
  /\ qpc \in [Requests -> {"off", "read", "entered", "joined", "done"}]
  /\ at \in [Requests -> Servers] /\ prompt \in [Requests -> Prompts]
  /\ seen \in [Requests -> [thread : Named, by : Named]]
  /\ joins \in [Requests -> Named]
  /\ answer \in [Requests -> Answers] /\ ready \in [Requests -> Answers]
  /\ rpc \in [Requests -> Live \cup {"none", "ended", "lost"}]
  /\ turns \subseteq Requests /\ forwarded \in BOOLEAN /\ closed \in BOOLEAN

\* Why at most one turn is started: the recorded request owns every run and
\* every turn, and the identity in the row is that of its turn.
OneOwner ==
  /\ \A q \in Requests : rpc[q] # "none" \/ q \in turns => row.by = q
  /\ row.thread # NoRequest => row.thread = row.by /\ row.thread \in turns
  /\ \A q \in Requests :
        /\ rpc[q] \in {"starting", "observing", "recovering"} => row.thread = NoRequest
        /\ rpc[q] \in {"observing", "recovering", "running", "forwarding"} => q \in turns
        /\ rpc[q] \in {"running", "forwarding"} => row.thread = q

\* What handlers know of it: rows read earlier agree with the row, and launches
\* are joined, answered and replayed for the fingerprint they were made for.
HandlersKnow ==
  \A q \in Requests :
     /\ seen[q].by # NoRequest => seen[q].by = row.by
     /\ seen[q].thread # NoRequest => seen[q].thread = row.thread /\ seen[q].by = row.by
     /\ qpc[q] = "joined" => joins[q] \in Requests /\ prompt[joins[q]] = prompt[q]
     /\ ready[q] \in Requests => ready[q] = q /\ row.thread = q

\* However many requests reach however many csd processes, in whatever order
\* and around whatever crashes, the worker's first turn is started at most
\* once.  (docs/design.md:101, "idempotent replay cannot create a second task")
OneTurn == \A p, q \in turns : p = q

\* A thread a request was told about is the durable one, was really started,
\* and by a request with the same fingerprint.
AnswersDurable ==
  \A q \in Requests : answer[q] \in Requests =>
     /\ row.thread = answer[q] /\ answer[q] \in turns
     /\ prompt[answer[q]] = prompt[q]

\* The durable identity never changes once it is there.
IdentityStays == [][row.thread # NoRequest => row'.thread = row.thread]_vars

\* A request that read the durable identity of its own launch never waits on a
\* launch that failed: it is a replay, and replays are answered with that
\* identity.  (docs/maturity.md:34-35, "idempotent launch replay")
ReplayIsAnswered ==
  \A q \in Requests : qpc[q] = "joined" /\ Replays(q) => ready[joins[q]] # "error"

\* A worker the operator closed is not reopened by the turn that was running.
\* (docs/design.md:230, "`close` is the normal terminal transaction.")
ClosedStays == closed => row.status \in {"done", "failed"}

\* A handler that waits for a launch is answered.
RequestsAnswered == \A q \in Requests : qpc[q] = "joined" ~> qpc[q] = "done"

\* A completed first turn is reported to the parent, also when csd is asked to
\* stop at the same time.
CompletionForwarded == row.status = "done" ~> forwarded
=============================================================================
