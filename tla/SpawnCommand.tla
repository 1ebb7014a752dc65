---------------------------- MODULE SpawnCommand ----------------------------
(***************************************************************************)
(* One cs spawn command, from the workspace it makes to what it tells.     *)
(* For the app-server engine it saves the worker, hands the first turn to  *)
(* the daemon or to a csd runtime of its own, waits until its deadline and *)
(* reads the worker back.  The daemon may be down, serve another state, be *)
(* privileged or too old, or die while it works; a request that was sent   *)
(* may be carried out after the command has given up.                      *)
(*                                                                         *)
(* What a runtime does with a request is AppserverSpawn, here cut down to  *)
(* its transactions on the worker's row.  A runtime is named by who runs   *)
(* it, and so is the thread it creates.                                    *)
(***************************************************************************)
EXTENDS Naturals

CONSTANTS None  \* no identity, no request and no answer

SpawnCommandAssumption == None \notin {"daemon", "caller", "mock", "attached", "error"}

VARIABLES
  engine, place, issue,  \* the command line: --engine, where the workspace is, --issue
  daemon,     \* "down", "other" (another state file), "privileged", "own"
  workspace,  \* the worktree exists
  row,        \* the worker
  pc, shown,  \* where the command is, and the thread it printed
  response,   \* what a runtime answered: None, "error" or a thread
  run,        \* per runtime: "off", "asked", "accepted", "running", "over"
  closed      \* the operator gave the worker another status or identity

Runtimes == {"daemon", "caller"}
commandLine == <<engine, place, issue>>
vars == <<commandLine, daemon, workspace, row, pc, shown, response, run, closed>>

Absent == [status |-> "absent"]
Worker(status, thread) == [status |-> status, thread |-> thread, by |-> None, uncertain |-> FALSE]
Saved == row # Absent

\* A remote workspace needs the app-server engine, and the launch bundle an issue.
Init ==
  /\ engine \in {"mock", "appserver"} /\ place \in {"none", "local", "remote"} /\ issue \in BOOLEAN
  /\ place = "remote" => engine = "appserver"
  /\ daemon \in {"down", "other", "privileged", "own"} /\ workspace = FALSE
  /\ row = Absent /\ pc = "workspace" /\ shown = None /\ response = None
  /\ run = [r \in Runtimes |-> "off"] /\ closed = FALSE

To(s) == pc' = s

-----------------------------------------------------------------------------
(* Before the launch.                                                      *)

\* SSH.Prepare: the script it runs on the remote host fails, or makes the worktree; then
\* its answer may be lost or not fit.
Prepare ==
  \/ workspace' = TRUE /\ (To("bundle") \/ To("error"))
  \/ UNCHANGED workspace /\ To("error")

\* A local worktree is made by worktree.Git.Create.
CreateWorkspace ==
  /\ pc = "workspace"
  /\ \/ place = "none" /\ To("bundle") /\ UNCHANGED workspace
     \/ place = "local" /\ workspace' = TRUE /\ To("bundle")
     \/ place = "local" /\ To("error") /\ UNCHANGED workspace
     \/ place = "remote" /\ Prepare
  /\ UNCHANGED <<commandLine, daemon, row, shown, response, run, closed>>

\* The mock engine saves its worker once, with its thread.
SpawnMock ==
  /\ pc = "bundle" /\ engine = "mock"
  /\ \/ row' = Worker("idle", "mock") /\ To("show")
     \/ To("error") /\ UNCHANGED row
  /\ UNCHANGED <<commandLine, daemon, workspace, shown, response, run, closed>>

\* launchbundle.BuildIssue reads GitHub, the claims and the repository's hints; when
\* it fails the worker is saved as failed, or not at all.
BuildIssue ==
  /\ pc = "bundle" /\ engine = "appserver"
  /\ \/ To("save") /\ UNCHANGED row
     \/ issue /\ To("error") /\ (row' = Worker("failed", None) \/ UNCHANGED row)
  /\ UNCHANGED <<commandLine, daemon, workspace, shown, response, run, closed>>

SavePending ==
  /\ pc = "save"
  /\ \/ row' = Worker("pending", None) /\ To("status")
     \/ To("error") /\ UNCHANGED row
  /\ UNCHANGED <<commandLine, daemon, workspace, shown, response, run, closed>>

-----------------------------------------------------------------------------
(* spawnAppserver.                                                         *)

\* The daemon is asked which state it serves; the deadline may pass meanwhile.
Status ==
  /\ pc = "status"
  /\ \/ daemon \in {"privileged", "own"} /\ To("post")
     \/ daemon \in {"down", "other"} /\ To("caller")
     \/ To("readback")
  /\ UNCHANGED <<commandLine, daemon, workspace, row, shown, response, run, closed>>

\* Mutant: every error makes the command start its own runtime.
NeedsCallerAlways(sent, status) == TRUE

\* AppserverSpawnNeedsCallerRuntime: only an answer that proves the daemon did not
\* accept the request.
AppserverSpawnNeedsCallerRuntime(sent, status) == status = "unavailable"

\* client.SpawnAppserver.  The daemon may have been restarted since Status; a failure of
\* the transport says nothing about whether the request arrived.
Post ==
  /\ pc = "post"
  /\ \E sent \in BOOLEAN, status \in {"unavailable", "transport", "waiting"} :
       /\ status = "unavailable" => daemon # "own" /\ daemon # "down" /\ ~sent
       /\ status = "waiting" => sent
       /\ sent => daemon = "own"
       /\ run' = IF sent THEN [run EXCEPT !["daemon"] = "asked"] ELSE run
       /\ To(IF status = "waiting" THEN "wait"
             ELSE IF AppserverSpawnNeedsCallerRuntime(sent, status) THEN "caller" ELSE "readback")
  /\ UNCHANGED <<commandLine, daemon, workspace, row, shown, response, closed>>

\* csdAppserverRuntime: a detached child that is sent the request, or cannot be started.
CallerRuntime ==
  /\ pc = "caller"
  /\ \/ run' = [run EXCEPT !["caller"] = "asked"] /\ (To("wait") \/ To("readback"))
     \/ To("readback") /\ UNCHANGED run
  /\ UNCHANGED <<commandLine, daemon, workspace, row, shown, response, closed>>

\* An answer, the end of the connection or of the child's output, or the deadline.
Wait ==
  /\ pc = "wait"
  /\ \/ response \notin {None, "error"} /\ To("confirm")
     \/ To("readback")
  /\ UNCHANGED <<commandLine, daemon, workspace, row, shown, response, run, closed>>

-----------------------------------------------------------------------------
(* After the launch.                                                       *)

\* The answer is compared with the row.
Confirm ==
  /\ pc = "confirm"
  /\ \/ row.thread = response /\ To("show")
     \/ row.thread # response /\ To("error")
  /\ UNCHANGED <<commandLine, daemon, workspace, row, shown, response, run, closed>>

\* Mutant: a worker that can be read was spawned.
Readable == TRUE

\* The row has the identity of a task.
Identified == row.thread # None

ReadBack ==
  /\ pc = "readback"
  /\ \/ Identified /\ To("show")
     \/ ~Identified /\ To(IF row.status = "failed" THEN "error" ELSE "uncertain")
     \/ To("uncertain")
  /\ UNCHANGED <<commandLine, daemon, workspace, row, shown, response, run, closed>>

\* The worker is read once more and printed, or cannot be read.
Show ==
  /\ pc = "show"
  /\ \/ shown' = row.thread /\ To("spawned")
     \/ To("error") /\ UNCHANGED shown
  /\ UNCHANGED <<commandLine, daemon, workspace, row, response, run, closed>>

\* Mutant: what did not come in time has failed.
TimedOut(w) == [w EXCEPT !.uncertain = TRUE, !.status = "failed"]

\* The event appserver.spawn.request.uncertain; the status stays.
Uncertain(w) == [w EXCEPT !.uncertain = TRUE]

MarkUncertain ==
  /\ pc = "uncertain" /\ To("error")
  /\ row' = Uncertain(row) \/ UNCHANGED row
  /\ UNCHANGED <<commandLine, daemon, workspace, shown, response, run, closed>>

-----------------------------------------------------------------------------
(* The runtimes, the daemon and the operator.                              *)

Tell(r, a) ==
  response' = IF pc = "wait" /\ (r = "caller") = (run["caller"] # "off") THEN a ELSE response

\* The request is recorded unless one was, or an identity is there.
Accept(r) ==
  /\ run[r] = "asked"
  /\ \/ /\ row.by = None /\ row.thread = None
        /\ row' = [row EXCEPT !.by = r, !.status = "pending"]
        /\ run' = [run EXCEPT ![r] = "accepted"] /\ UNCHANGED response
     \/ /\ row.by # None \/ row.thread # None
        /\ run' = [run EXCEPT ![r] = "over"] /\ Tell(r, "error") /\ UNCHANGED row
  /\ UNCHANGED <<commandLine, daemon, workspace, pc, shown, closed>>

\* The turn starts and its identity is stored; or that store failed, the turn is given up
\* and its identity is stored after all; or it fails, with the identity it has, if this
\* can be stored.
StartTurn(r) ==
  /\ run[r] = "accepted"
  /\ \/ /\ row' = [row EXCEPT !.thread = r, !.status = "running"]
        /\ run' = [run EXCEPT ![r] = "running"] /\ Tell(r, r)
     \/ /\ row' = [row EXCEPT !.thread = r, !.status = "idle"]
        /\ run' = [run EXCEPT ![r] = "over"] /\ Tell(r, r)
     \/ /\ \/ \E t \in {None, r} : row' = [row EXCEPT !.thread = t, !.status = "failed"]
           \/ UNCHANGED row
        /\ run' = [run EXCEPT ![r] = "over"] /\ Tell(r, "error")
  /\ UNCHANGED <<commandLine, daemon, workspace, pc, shown, closed>>

EndTurn(r) ==
  /\ run[r] = "running" /\ run' = [run EXCEPT ![r] = "over"]
  /\ \/ \E s \in {"idle", "done", "failed"} : row' = [row EXCEPT !.thread = r, !.status = s]
     \/ UNCHANGED row
  /\ UNCHANGED <<commandLine, daemon, workspace, pc, shown, response, closed>>

\* A runtime dies with what it was doing.
Die(r) ==
  /\ run[r] \in {"asked", "accepted", "running"} /\ run' = [run EXCEPT ![r] = "over"]
  /\ UNCHANGED <<commandLine, daemon, workspace, row, pc, shown, response, closed>>

\* The daemon goes down or is started again, as another user or with another state.
Restart ==
  /\ daemon' \in {"down", "other", "privileged", "own"} \ {daemon}
  /\ run["daemon"] \in {"off", "over"}
  /\ UNCHANGED <<commandLine, workspace, row, pc, shown, response, run, closed>>

\* cs close, report or attach.
Operate ==
  /\ Saved /\ ~closed /\ closed' = TRUE
  /\ \/ \E s \in {"idle", "done", "failed"} : row' = [row EXCEPT !.status = s]
     \/ row' = [row EXCEPT !.thread = "attached"]
  /\ UNCHANGED <<commandLine, daemon, workspace, pc, shown, response, run>>

Next ==
  \/ CreateWorkspace \/ SpawnMock \/ BuildIssue \/ SavePending \/ Status \/ Post \/ CallerRuntime
  \/ Wait \/ Confirm \/ ReadBack \/ Show \/ MarkUncertain
  \/ \E r \in Runtimes : Accept(r) \/ StartTurn(r) \/ EndTurn(r) \/ Die(r)
  \/ Restart \/ Operate

Spec == Init /\ [][Next]_vars

-----------------------------------------------------------------------------
(* Properties.                                                             *)

\* Every variable has its type.
TypeOK ==
  /\ pc \in {"workspace", "bundle", "save", "status", "post", "caller", "wait", "confirm",
             "readback", "show", "uncertain", "spawned", "error"}
  /\ run \in [Runtimes -> {"off", "asked", "accepted", "running", "over"}]
  /\ response \in Runtimes \cup {None, "error"} /\ workspace \in BOOLEAN /\ closed \in BOOLEAN

\* A command that says spawned printed an identity that is stored, however the
\* deadline, the answer and the runtime's transactions fell, unless an operator's
\* command came between (an attach to a worker whose turn then fails is undone).  (README.md:193, "returns
\* after a csd runtime has durably recorded the host, thread, turn, and worktree
\* identity")
SpawnedIsDurable == pc = "spawned" => (shown # None /\ shown = row.thread) \/ closed

\* A second runtime is asked only when the first has certainly not got the request.
\* (internal/daemon/server.go:817, "only failures that prove the daemon did not accept
\* a spawn")
AskedOnce == \E r \in Runtimes : run[r] = "off"

\* A worker whose turn is running is never called failed by the command that gave up
\* waiting for it.  (README.md:197, "A caller timeout does not mark that resumable task
\* failed")
FailureGenuine ==
  row.status = "failed" => closed \/ \A r \in Runtimes : run[r] \notin {"accepted", "running"}

\* A workspace that was made is on record.
WorkspaceRecorded == pc = "error" /\ workspace => Saved
=============================================================================
