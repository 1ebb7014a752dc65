-------------------------- MODULE BifrostDeployment --------------------------
(***************************************************************************)
(* cs bifrost deployment: prepare packages a workspace while editors may   *)
(* write to it, register sends the closure under a deployment ID, activate *)
(* and rollback move the platform's pointer.  Commands keep no local state *)
(* but the output of prepare.  The platform is external: it keeps a        *)
(* closure per ID for ever and compares the pointer with what is expected. *)
(* Answers may be lost, and every command may be given again.              *)
(*                                                                         *)
(* A file is a sequence of blocks, read one after the other.  A write in   *)
(* place changes one block and the modification time; a replacement is     *)
(* another file under the same name, and the replaced one stays what it    *)
(* was for whoever has it open.                                            *)
(***************************************************************************)
EXTENDS Naturals, Sequences

CONSTANTS
  Files,      \* names in the workspace
  Size,       \* blocks of a file
  IDs,        \* deployment IDs
  Outputs,    \* directories named by --out
  Sessions,   \* one per prepare, with the commands that use its output
  None,
  MaxEdits,   \* bound: writes and replacements
  MaxMoves    \* bound: pointer commands

Blocks == 1 .. Size
Data == [Blocks -> Nat]

BifrostDeploymentAssumption ==
  MaxEdits \in Nat /\ MaxMoves \in Nat /\ Size \in Nat \ {0} /\ None \notin IDs

VARIABLES
  workspace,  \* name -> the files that had it, the last of which has it now
  edits, moves,
  pc, id,     \* per session: where it is and its deployment ID
  scan,       \* the name the walk is at and the file it saw there
  open,       \* the open file's modification time when it was opened
  buffer,     \* blocks read of the open file
  archive,    \* name -> contents
  out,        \* per session: its output directory
  output,     \* directory -> the prepared deployment in it
  expected,   \* per session: --expected-active
  closure, active,  \* the platform: closures per ID, at most one; the active deployment
  \* history
  contents    \* name -> all contents the file ever had

reading == <<scan, open, buffer>>
session == <<pc, id, reading, archive, out, output, expected>>
platform == <<closure, active>>
vars == <<workspace, edits, moves, session, platform, contents>>

\* A file is known by its place in workspace[f]; its size does not change.
File(mtime, data) == [mtime |-> mtime, data |-> data]
inode(f) == Len(workspace[f])

Init ==
  /\ workspace = [f \in Files |-> <<File(0, [b \in Blocks |-> 0])>>]
  /\ contents = [f \in Files |-> {[b \in Blocks |-> 0]}]
  /\ edits = 0 /\ moves = 0
  /\ pc = [s \in Sessions |-> "off"] /\ id = [s \in Sessions |-> None]
  /\ scan = [s \in Sessions |-> None] /\ open = [s \in Sessions |-> None]
  /\ buffer = [s \in Sessions |-> << >>] /\ archive = [s \in Sessions |-> << >>]
  /\ out = [s \in Sessions |-> None] /\ output = [o \in Outputs |-> None]
  /\ expected = [s \in Sessions |-> None]
  /\ closure = [d \in IDs |-> {}] /\ active = None

To(s, p) == pc' = [pc EXCEPT ![s] = p]

-----------------------------------------------------------------------------
(* The workspace.                                                          *)

Edited(f, files, data) ==
  /\ edits < MaxEdits /\ edits' = edits + 1
  /\ workspace' = [workspace EXCEPT ![f] = files]
  /\ contents' = [contents EXCEPT ![f] = @ \cup {data}]
  /\ UNCHANGED <<moves, session, platform>>

\* The kernel gives a write a time of its own.
WriteBlock(f, b) ==
  LET data == [workspace[f][inode(f)].data EXCEPT ![b] = edits + 1]
  IN  Edited(f, [workspace[f] EXCEPT ![inode(f)] = File(edits + 1, data)], data)

\* The new file may have any time, an old one too.
Replace(f) ==
  LET data == [b \in Blocks |-> edits + 1] IN Edited(f, Append(workspace[f], File(0, data)), data)

-----------------------------------------------------------------------------
(* prepare.                                                                *)

\* createPrivateOutputRoot: the directory must not exist.
createPrivateOutputRoot(o) == \A s \in Sessions : out[s] # o

\* The ID is given or random.
Prepare(s, d, o) ==
  /\ pc[s] = "off"
  /\ \/ /\ createPrivateOutputRoot(o) /\ To(s, "walk")
        /\ id' = [id EXCEPT ![s] = d] /\ out' = [out EXCEPT ![s] = o]
     \/ ~createPrivateOutputRoot(o) /\ To(s, "failed") /\ UNCHANGED <<id, out>>
  /\ UNCHANGED <<workspace, edits, moves, reading, archive, output, expected, platform, contents>>

Packed(s) == {archive[s][i][1] : i \in DOMAIN archive[s]}

\* The walk looks at the next file.
Scan(s, f) ==
  /\ pc[s] = "walk" /\ f \notin Packed(s) /\ To(s, "scanned")
  /\ scan' = [scan EXCEPT ![s] = <<f, inode(f)>>]
  /\ UNCHANGED <<workspace, edits, moves, id, open, buffer, archive, out, output, expected, platform, contents>>

\* The file the walk saw; a replacement leaves it as it was.
Opened(s) == workspace[scan[s][1]][scan[s][2]]

\* readStableRootFile opens the name: it must be the file the walk saw.
OpenFile(s) ==
  /\ pc[s] = "scanned"
  /\ \/ /\ inode(scan[s][1]) = scan[s][2] /\ To(s, "opened")
        /\ open' = [open EXCEPT ![s] = Opened(s).mtime] /\ buffer' = [buffer EXCEPT ![s] = << >>]
     \/ inode(scan[s][1]) # scan[s][2] /\ To(s, "failed") /\ UNCHANGED <<open, buffer>>
  /\ UNCHANGED <<workspace, edits, moves, id, scan, archive, out, output, expected, platform, contents>>

ReadBlock(s) ==
  /\ pc[s] = "opened" /\ Len(buffer[s]) < Size
  /\ buffer' = [buffer EXCEPT ![s] = Append(@, Opened(s).data[Len(@) + 1])]
  /\ UNCHANGED <<workspace, edits, moves, pc, id, scan, open, archive, out, output, expected, platform, contents>>

\* Mutant: the file is not looked at again after it was read.
StableUnchecked(s) == TRUE

\* Size and modification time are those of the opening.
Stable(s) == Opened(s).mtime = open[s]

CheckRead(s) ==
  /\ pc[s] = "opened" /\ Len(buffer[s]) = Size
  /\ \/ /\ Stable(s) /\ To(s, "walk")
        /\ archive' = [archive EXCEPT ![s] = Append(@, <<scan[s][1], buffer[s]>>)]
     \/ ~Stable(s) /\ To(s, "failed") /\ UNCHANGED archive
  /\ UNCHANGED <<workspace, edits, moves, id, reading, out, output, expected, platform, contents>>

\* The files are sorted and stamped alike, so that what was read decides the hashes.
Bundle(s) == {archive[s][i] : i \in DOMAIN archive[s]}

\* The archive and the prepared deployment, written to the directory.
Prepared(s) == [id |-> id[s], bundle |-> Bundle(s)]

Finish(s) ==
  /\ pc[s] = "walk" /\ Packed(s) = Files
  /\ \/ output' = [output EXCEPT ![out[s]] = Prepared(s)] /\ To(s, "prepared")
     \/ To(s, "failed") /\ UNCHANGED output
  /\ UNCHANGED <<workspace, edits, moves, id, reading, archive, out, expected, platform, contents>>

-----------------------------------------------------------------------------
(* register.                                                               *)

\* The platform: a new ID is registered, the same closure is accepted again.
Registers(d, c) == closure[d] \subseteq {c} /\ closure' = [closure EXCEPT ![d] = {c}]
Refuses(d, c) == ~(closure[d] \subseteq {c}) /\ UNCHANGED closure

\* Mutant: what is registered under the ID is taken for success.
ReconcileAccepts(s) == To(s, "registered")

\* CreateWithReconciliation: the conflict is looked at once and stays an error, also
\* when the look fails.
Reconcile(s) == To(s, "conflict")

\* A request that arrives is carried out; its answer may be lost, which is an error.
call(carriedOut, answered, lost) == carriedOut /\ (answered \/ lost)

\* A capability check first, which may fail or be answered no; then what prepare left in
\* the directory is sent.  The command may be given again.
Register(s) ==
  /\ pc[s] \in {"prepared", "conflict"}
  /\ LET p == output[out[s]] IN
     \/ To(s, "prepared") /\ UNCHANGED closure
     \/ call(Registers(p.id, p.bundle), To(s, "registered"), To(s, "prepared"))
     \/ call(Refuses(p.id, p.bundle), Reconcile(s), To(s, "prepared"))
  /\ UNCHANGED <<workspace, edits, moves, id, reading, archive, out, output, expected, active, contents>>

-----------------------------------------------------------------------------
(* activate and rollback.                                                  *)

\* The operator looks what is active, as the base of the session.
Look(s) ==
  /\ expected[s] = None /\ active # None
  /\ expected' = [expected EXCEPT ![s] = active]
  /\ UNCHANGED <<workspace, edits, moves, pc, id, reading, archive, out, output, platform, contents>>

\* Mutant: the command sends what is active now.
ExpectedNow(s) == active

\* movePointer sends the base the command was given; none means that nothing is active.
Expected(s) == expected[s]

\* Any deployment may be named; a rollback must be given its base.
MovePointer(s, d, action) ==
  /\ moves < MaxMoves /\ moves' = moves + 1
  /\ closure[d] # {}
  /\ action = "rollback" => expected[s] # None
  /\ \/ active = Expected(s) /\ active' = d
     \/ UNCHANGED active
  /\ UNCHANGED <<workspace, edits, session, closure, contents>>

Next ==
  \/ \E f \in Files : (\E b \in Blocks : WriteBlock(f, b)) \/ Replace(f)
  \/ \E s \in Sessions :
       \/ \E d \in IDs : (\E o \in Outputs : Prepare(s, d, o)) \/ (\E a \in {"activate", "rollback"} : MovePointer(s, d, a))
       \/ \E f \in Files : Scan(s, f)
       \/ OpenFile(s) \/ ReadBlock(s) \/ CheckRead(s) \/ Finish(s) \/ Register(s) \/ Look(s)

Spec == Init /\ [][Next]_vars

-----------------------------------------------------------------------------
(* Properties.                                                             *)

\* Every variable has its type.
TypeOK ==
  /\ pc \in [Sessions -> {"off", "walk", "scanned", "opened", "failed", "prepared", "registered", "conflict"}]
  /\ id \in [Sessions -> IDs \cup {None}] /\ expected \in [Sessions -> IDs \cup {None}]
  /\ active \in IDs \cup {None} /\ edits \in 0 .. MaxEdits /\ moves \in 0 .. MaxMoves

\* What is packed of a file is what the file was at one moment, although it is read
\* in parts while others write to it or replace it.  (deployments.go:596)
FilesWhole ==
  \A s \in Sessions : \A i \in DOMAIN archive[s] : archive[s][i][2] \in contents[archive[s][i][1]]

\* A registration that reported success is of exactly the closure this session packed,
\* for good, whoever else registered under the ID and however answers were lost.
\* (docs/bifrost.md:65, "never overwrites or silently treats a divergent closure as
\* success")
ClosureConfirmed == \A s \in Sessions : pc[s] = "registered" => closure[id[s]] = {Bundle(s)}

\* The pointer moves only away from what the moving command was given as its base,
\* also when it is given again after a lost answer and others moved it in between.
\* (docs/bifrost.md:57, "the first successful CAS wins")
MovesFromBase ==
  [][active' # active => \E s \in Sessions : expected[s] = active]_vars

\* A bundle is what the whole workspace was at one moment.
BundleIsSnapshot ==
  [][\A s \in Sessions : pc[s] = "walk" /\ pc'[s] = "prepared" =>
        \A i \in DOMAIN archive[s] : LET f == archive[s][i][1] IN archive[s][i][2] = workspace[f][inode(f)].data]_vars
=============================================================================
