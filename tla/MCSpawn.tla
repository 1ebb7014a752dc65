------------------------------- MODULE MCSpawn -------------------------------
(***************************************************************************)
(* Instances of AppserverSpawn, SpawnCommand and AppserverClient for TLC:  *)
(* the daemon's side of a spawn, the command's, and the client that talks  *)
(* to the spawned server.  Each has its own, coarser, model of the others, *)
(* so they share no state and are checked by turns: a behaviour of one of  *)
(* them while the others do not begin.                                     *)
(***************************************************************************)
EXTENDS AppserverSpawn, TLC

CONSTANTS None, QueueCap, Deliveries, Signal, AwaitFinal, MayBreak, MaxEarly, MaxNotes, MaxAsks

VARIABLES
  turn,
  engine, place, issue, daemon, workspace, saved, pc, shown, response, run, operated,
  plan, step, nextID, untried, batch, signaled, idle, closing, changes, ctxDone, result,
  pending, queue, reader, requests, out, gone, broken, phase, notes, asks, declined, reported, signalSent

spawn == <<engine, place, issue, daemon, workspace, saved, pc, shown, response, run, operated>>
client ==
  <<plan, step, nextID, untried, batch, signaled, idle, closing, changes, ctxDone, result,
    pending, queue, reader, requests, out, gone, broken, phase, notes, asks, declined, reported, signalSent>>

C == INSTANCE SpawnCommand WITH row <- saved, closed <- operated
A == INSTANCE AppserverClient WITH turn <- phase

ASSUME CommandAssumption == C!SpawnCommandAssumption

MCInit ==
  /\ Init /\ C!Init /\ A!Init /\ turn \in {"daemon", "command", "client"}
  /\ turn # "daemon" => \A q, r \in Requests : at[q] = at[r] /\ prompt[q] = prompt[r]
  /\ turn # "command" => engine = "mock" /\ place = "none" /\ issue /\ daemon = "down"
  /\ turn # "client" => plan = A!Check
MCNext ==
  \/ turn = "daemon" /\ Next /\ UNCHANGED <<spawn, client, turn>>
  \/ turn = "command" /\ C!Next /\ UNCHANGED <<vars, client, turn>>
  \/ turn = "client" /\ A!Next /\ UNCHANGED <<vars, spawn, turn>>
MCSpec == MCInit /\ [][MCNext]_<<vars, spawn, client, turn>>

\* SpawnCommand's: a command that says spawned printed an identity that is stored.
SpawnedIsDurable == C!SpawnedIsDurable

\* SpawnCommand's: a second runtime is asked only when the first has not got the request.
AskedOnce == C!AskedOnce

\* SpawnCommand's: a worker whose turn runs is not called failed for a missed deadline.
FailureGenuine == C!FailureGenuine

\* SpawnCommand's, violated: a workspace that was made is on record.
WorkspaceRecorded == C!WorkspaceRecorded

\* AppserverClient's: a turn that is returned as completed was ended by the server, and
\* every file change it reported was collected.
CompletionGenuine == A!CompletionGenuine

\* AppserverClient's: once the completion signal was observed, the wait is not failed by
\* a timer, a broken stream or an event that cannot be decoded.
SignalledTurnSucceeds == A!SignalledTurnSucceeds

\* The daemon's side with its handlers and runs, which are goroutines.
MCFairSpec ==
  turn = "daemon" /\ MCSpec /\ \A q \in Requests : WF_vars(Handle(q)) /\ WF_vars(Run(q))

Symmetry == Permutations(Requests) \cup Permutations(Servers) \cup Permutations(Prompts)
=============================================================================
