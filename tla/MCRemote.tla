------------------------------ MODULE MCRemote ------------------------------
(***************************************************************************)
(* Instances of RelayEnrollment, BifrostDeployment, BifrostChangeset and   *)
(* ClaimImport for TLC: what cs agrees with a remote service, whose        *)
(* answers may be lost or late, or with another machine through one.  They *)
(* share no state and are checked by turns: a behaviour of one of them     *)
(* while the others have not begun.                                        *)
(***************************************************************************)
EXTENDS RelayEnrollment, TLC

CONSTANTS
  Files, Size, IDs, Outputs, Sessions, None, MaxEdits, MaxMoves,
  Changesets, Instances, Login, Commands, Commit,
  Machines, Claims, Legacy, Exchanges, MaxClock

VARIABLES
  turn,
  workspace, edits, moves, pc, id, scan, open, buffer, archive, out, output, expected, closure,
  active, contents,
  remote, record, bpc, act, cs, flag, copy, alone,
  hour, claim, home, comments, ipc, place, force, fetched, number, todo, intended

deployment == <<workspace, edits, moves, pc, id, scan, open, buffer, archive, out, output,
                expected, closure, active, contents>>
changeset == <<remote, record, bpc, act, cs, flag, copy, alone>>
exchange == <<hour, claim, home, comments, ipc, place, force, fetched, number, todo, intended>>

D == INSTANCE BifrostDeployment
B == INSTANCE BifrostChangeset WITH pc <- bpc
I == INSTANCE ClaimImport WITH Commands <- Exchanges, clock <- hour, pc <- ipc, at <- place,
                               seen <- fetched, plan <- intended

ASSUME DeploymentAssumption == D!BifrostDeploymentAssumption
ASSUME ChangesetAssumption == B!BifrostChangesetAssumption
ASSUME ExchangeAssumption == I!ClaimImportAssumption

MCInit ==
  /\ Init /\ D!Init /\ B!Init /\ I!Init
  /\ turn \in {"enrollment", "deployment", "changeset", "exchange"}
MCNext ==
  \/ turn = "enrollment" /\ Next /\ UNCHANGED <<deployment, changeset, exchange, turn>>
  \/ turn = "deployment" /\ D!Next /\ UNCHANGED <<vars, changeset, exchange, turn>>
  \/ turn = "changeset" /\ B!Next /\ UNCHANGED <<vars, deployment, exchange, turn>>
  \/ turn = "exchange" /\ I!Next /\ UNCHANGED <<vars, deployment, changeset, turn>>
MCSpec == MCInit /\ [][MCNext]_<<vars, deployment, changeset, exchange, turn>>

\* BifrostDeployment's: every file of a bundle is one the workspace had.
FilesWhole == D!FilesWhole

\* BifrostDeployment's: a registration that reported success is of the closure packed.
ClosureConfirmed == D!ClosureConfirmed

\* BifrostDeployment's: the pointer moves only away from the base of the moving command.
MovesFromBase == D!MovesFromBase

\* BifrostDeployment's, violated: a bundle is one moment of the workspace.
BundleIsSnapshot == D!BundleIsSnapshot

\* BifrostChangeset's: a changeset without a record has an explanation.
OrphanExplained == B!OrphanExplained

\* BifrostChangeset's: a command that had the changeset to itself leaves the truth.
RecordHeals == B!RecordHeals

\* BifrostChangeset's, violated: a record that says activated never goes back.
RecordForward == B!RecordForward

\* ClaimImport's: a pull without --force never puts an older claim over a newer one.
PullKeepsNewer == I!PullKeepsNewer

\* ClaimImport's, violated: a claim stays a claim of its machine's worker.
OwnStaysOwn == I!OwnStaysOwn

\* ClaimImport's, violated: a sync never unpublishes a claim of another machine.
StaysPublished == I!StaysPublished

\* ClaimImport's, violated: a released claim is active again only by an update or a forced pull.
ReleasedStays == I!ReleasedStays

\* The sets of the other components may have the same members: one permutation then serves
\* all of them.
Symmetry == Permutations(IDs) \cup Permutations(Sessions) \cup Permutations(Files) \cup Permutations(Outputs)
=============================================================================
