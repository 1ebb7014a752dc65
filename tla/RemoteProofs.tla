---------------------------- MODULE RemoteProofs ----------------------------
(***************************************************************************)
(* Proofs about the parts of cs that ask a remote service: the enrollment  *)
(* of tasks at the relay coordinator (RelayEnrollment), the packing and    *)
(* registering of Bifrost deployments (BifrostDeployment, instance D of    *)
(* MCRemote), the changesets of Bifrost (BifrostChangeset, instance B) and *)
(* the claims that machines exchange by an issue (ClaimImport, instance    *)
(* I).                                                                     *)
(***************************************************************************)
EXTENDS MCRemote, SequenceTheorems, TLAPS

-----------------------------------------------------------------------------
(* Enrollment.                                                             *)

\* The journal's lock has one owner.
OneOwner == \A p, q \in Procs : cmd[p] # Idle /\ cmd[q] # Idle => p = q

\* Who is about to allow a task locally has had its row written.
Posted == \A p \in Procs : Running(p, "enroll") => central[cmd[p].task] # "none"

\* Past its look at the journal the hook works on a task that is not revoked there.
HookLooked ==
  cmd["hook"].step \in {"read", "post", "enroll"} => local[cmd["hook"].task] # "off"

EnrollmentInv == TypeOK /\ OneOwner /\ Posted /\ HookLooked /\ LocalNeedsCentral

\* What the moves of a command make of its record.
LEMMA Moves ==
  ASSUME TypeOK, NEW p \in Procs, cmd[p] # Idle
  PROVE  /\ cmd[p].task \in Tasks /\ cmd[p].set \in {"on", "off"} /\ cmd[p].step # "idle"
         /\ \A x \in {"revoke", "check", "read", "post", "enroll"} :
              [cmd[p] EXCEPT !.step = x] = [step |-> x, task |-> cmd[p].task, set |-> cmd[p].set]
  BY DEF TypeOK, Command, Idle

\* A command that is at a step is not idle.
LEMMA NotIdle ==
  ASSUME NEW p \in Procs, NEW x, x # "idle", Running(p, x)
  PROVE  cmd[p] # Idle
  BY DEF Running, Idle

\* While one command holds the lock the other is idle.
LEMMA Alone ==
  ASSUME OneOwner, NEW p \in Procs, cmd[p] # Idle, NEW q \in Procs, q # p
  PROVE  cmd[q] = Idle
  BY DEF OneOwner

\* The initial state.
LEMMA EnrollmentInit == Init => EnrollmentInv
  BY DEF Init, EnrollmentInv, TypeOK, OneOwner, Posted, HookLooked, LocalNeedsCentral, Running,
         Setting, Command, Idle, Procs, Write

\* A command that begins.
LEMMA Begins ==
  ASSUME EnrollmentInv, LockFree, NEW p \in Procs, NEW t \in Tasks,
         NEW x \in {"revoke", "check", "post"}, NEW on \in {"on", "off"}, p = "hook" => x = "check",
         cmd' = [cmd EXCEPT ![p] = [step |-> x, task |-> t, set |-> on]],
         UNCHANGED <<central, local, late, writer>>
  PROVE  EnrollmentInv'
<1>1. cmd'[p] = [step |-> x, task |-> t, set |-> on] /\ \A q \in Procs : q # p => cmd'[q] = Idle
  BY DEF EnrollmentInv, TypeOK, LockFree
<1>2. TypeOK'
  BY DEF EnrollmentInv, TypeOK, Command
<1>3. OneOwner' BY <1>1 DEF OneOwner
<1>4. Posted' BY <1>1 DEF Posted, Running, Idle
<1>5. HookLooked' BY <1>1 DEF HookLooked, Idle, Procs
<1>6. LocalNeedsCentral' BY DEF EnrollmentInv, LocalNeedsCentral
<1>. QED BY <1>2, <1>3, <1>4, <1>5, <1>6 DEF EnrollmentInv

\* A command that ends without having changed anything it shares.
LEMMA Ends ==
  ASSUME EnrollmentInv, NEW p \in Procs, cmd[p] # Idle, Exit(p),
         local' \in [Tasks -> Setting], \A t \in Tasks : local'[t] = "on" => central[t] # "none",
         UNCHANGED <<central, writer>>, late' \subseteq Write
  PROVE  EnrollmentInv'
<1>1. \A q \in Procs : cmd'[q] = Idle
  BY Alone DEF EnrollmentInv, TypeOK, Exit
<1>2. TypeOK'
  BY DEF EnrollmentInv, TypeOK, Exit, Command
<1>3. OneOwner' /\ Posted' /\ HookLooked'
  BY <1>1 DEF OneOwner, Posted, HookLooked, Running, Idle, Procs
<1>4. LocalNeedsCentral' BY DEF LocalNeedsCentral
<1>. QED BY <1>2, <1>3, <1>4 DEF EnrollmentInv

\* A command that goes on.
LEMMA GoesOn ==
  ASSUME EnrollmentInv, NEW p \in Procs, cmd[p] # Idle, NEW x \in {"read", "post", "enroll"}, Goto(p, x),
         central' \in [Tasks -> Setting], local' \in [Tasks -> Setting],
         writer' \in [Tasks -> Procs \cup {"none"}], UNCHANGED late,
         \A t \in Tasks : central[t] # "none" => central'[t] # "none",
         x = "enroll" => central'[cmd[p].task] # "none",
         p = "hook" => local'[cmd[p].task] # "off",
         \A t \in Tasks : local'[t] = "on" => central'[t] # "none"
  PROVE  EnrollmentInv'
<1>1. cmd'[p] = [step |-> x, task |-> cmd[p].task, set |-> cmd[p].set]
  BY Moves DEF EnrollmentInv, TypeOK, Goto
<1>2. \A q \in Procs : q # p => cmd'[q] = Idle
  BY Alone DEF EnrollmentInv, TypeOK, Goto
<1>3. cmd[p].task \in Tasks /\ cmd[p].set \in {"on", "off"} BY Moves DEF EnrollmentInv
<1>4. cmd'[p] \in Command
  BY <1>1, <1>3 DEF Command
<1>5. cmd' \in [Procs -> Command]
  BY <1>4 DEF EnrollmentInv, TypeOK, Goto
<1>6. TypeOK'
  BY <1>5 DEF EnrollmentInv, TypeOK
<1>7. OneOwner' BY <1>2 DEF OneOwner
<1>8. Posted' BY <1>1, <1>2 DEF Posted, Running, Idle
<1>9. HookLooked' BY <1>1, <1>2 DEF HookLooked, Idle, Procs
<1>10. LocalNeedsCentral' BY DEF LocalNeedsCentral
<1>. QED BY <1>6, <1>7, <1>8, <1>9, <1>10 DEF EnrollmentInv

\* A write of the coordinator's table makes no row vanish.
LEMMA Upserted ==
  ASSUME TypeOK, NEW w, w.task \in Tasks, w.set \in {"on", "off"}, w.by \in Procs, Upsert(w)
  PROVE  /\ central' \in [Tasks -> Setting] /\ writer' \in [Tasks -> Procs \cup {"none"}]
         /\ central'[w.task] # "none"
         /\ \A t \in Tasks : central[t] # "none" => central'[t] # "none"
  BY DEF TypeOK, Upsert, Setting

\* Every step keeps the invariant.
LEMMA EnrollmentNext == EnrollmentInv /\ [Next]_vars => EnrollmentInv'
<1>. SUFFICES ASSUME EnrollmentInv, [Next]_vars PROVE EnrollmentInv' OBVIOUS
<1>. USE DEF Procs
<1>0. TypeOK /\ HookLooked /\ LocalNeedsCentral /\ Posted /\ OneOwner BY DEF EnrollmentInv
<1>1. ASSUME NEW t \in Tasks, NEW on \in {"on", "off"}, Register(t, on) PROVE EnrollmentInv'
  BY <1>1, Begins DEF Register
<1>2. ASSUME NEW t \in Tasks, SessionStart(t) PROVE EnrollmentInv'
  BY <1>2, Begins DEF SessionStart
<1>3. CASE RevokeLocally
  <2>1. cmd["operator"] # Idle BY <1>3, NotIdle DEF RevokeLocally
  <2>2. cmd["operator"].task \in Tasks BY <1>0, <2>1, Moves
  <2>3. local' \in [Tasks -> Setting] /\ \A t \in Tasks : local'[t] = "on" => central'[t] # "none"
    BY <1>0, <1>3, <2>2 DEF RevokeLocally, Enroll, TypeOK, LocalNeedsCentral, Setting
  <2>. QED BY <1>0, <1>3, <2>1, <2>3, GoesOn DEF RevokeLocally, TypeOK
<1>4. CASE CheckLocal
  <2>1. cmd["hook"] # Idle BY <1>4, NotIdle DEF CheckLocal
  <2>2. CASE local[cmd["hook"].task] = "off"
    BY <1>0, <1>4, <2>1, <2>2, Ends DEF CheckLocal, TypeOK, LocalNeedsCentral
  <2>3. CASE local[cmd["hook"].task] # "off"
    BY <1>0, <1>4, <2>1, <2>3, GoesOn DEF CheckLocal, TypeOK, LocalNeedsCentral
  <2>. QED BY <2>2, <2>3
<1>5. CASE ReadCentral
  <2>1. cmd["hook"] # Idle /\ local[cmd["hook"].task] # "off"
    BY <1>0, <1>5, NotIdle DEF ReadCentral, HookLooked, Running
  <2>2. cmd["hook"].task \in Tasks BY <1>0, <2>1, Moves
  <2>3. CASE central[cmd["hook"].task] = "none"
    BY <1>0, <1>5, <2>1, <2>3, GoesOn DEF ReadCentral, TypeOK, LocalNeedsCentral
  <2>4. CASE central[cmd["hook"].task] # "none"
    <3>1. local' \in [Tasks -> Setting] /\ \A t \in Tasks : local'[t] = "on" => central[t] # "none"
      BY <1>0, <1>5, <2>2, <2>4 DEF ReadCentral, Enroll, TypeOK, LocalNeedsCentral
    <3>. QED BY <1>0, <1>5, <2>1, <2>4, <3>1, Ends DEF ReadCentral, TypeOK
  <2>. QED BY <2>3, <2>4
<1>6. ASSUME NEW p \in Procs, Post(p) PROVE EnrollmentInv'
  <2>1. cmd[p] # Idle BY <1>6, NotIdle DEF Post
  <2>2. cmd[p].task \in Tasks /\ cmd[p].set \in {"on", "off"} BY <1>0, <2>1, Moves
  <2>3. /\ central' \in [Tasks -> Setting] /\ writer' \in [Tasks -> Procs \cup {"none"}]
        /\ central'[cmd[p].task] # "none"
        /\ \A t \in Tasks : central[t] # "none" => central'[t] # "none"
    BY <1>0, <1>6, <2>2, Upserted DEF Post, WriteOf
  <2>4. p = "hook" => local'[cmd[p].task] # "off"
    BY <1>0, <1>6 DEF Post, HookLooked, Running
  <2>. QED BY <1>0, <1>6, <2>1, <2>3, <2>4, GoesOn DEF Post, TypeOK, LocalNeedsCentral
<1>7. ASSUME NEW p \in Procs, PostGivenUp(p) PROVE EnrollmentInv'
  <2>1. cmd[p] # Idle BY <1>7, NotIdle DEF PostGivenUp
  <2>2. cmd[p].task \in Tasks /\ cmd[p].set \in {"on", "off"} BY <1>0, <2>1, Moves
  <2>3. late' \subseteq Write BY <1>0, <1>7, <2>2 DEF PostGivenUp, WriteOf, Write, TypeOK
  <2>. QED BY <1>0, <1>7, <2>1, <2>3, Ends DEF PostGivenUp, TypeOK, LocalNeedsCentral
<1>8. ASSUME NEW p \in Procs, EnrollLocally(p) PROVE EnrollmentInv'
  <2>1. cmd[p] # Idle BY <1>8, NotIdle DEF EnrollLocally
  <2>2. cmd[p].task \in Tasks /\ cmd[p].set \in {"on", "off"} BY <1>0, <2>1, Moves
  <2>3. central[cmd[p].task] # "none" BY <1>0, <1>8 DEF EnrollLocally, Posted
  <2>4. local' \in [Tasks -> Setting] /\ \A t \in Tasks : local'[t] = "on" => central[t] # "none"
    BY <1>0, <1>8, <2>2, <2>3 DEF EnrollLocally, Enroll, TypeOK, Setting, LocalNeedsCentral
  <2>. QED BY <1>0, <1>8, <2>1, <2>4, Ends DEF EnrollLocally, TypeOK
<1>9. ASSUME NEW p \in Procs, Abort(p) PROVE EnrollmentInv'
  BY <1>0, <1>9, Ends DEF Abort, TypeOK, LocalNeedsCentral
<1>10. ASSUME NEW w \in late, LateArrives(w) PROVE EnrollmentInv'
  <2>1. w.task \in Tasks /\ w.set \in {"on", "off"} /\ w.by \in Procs BY <1>0 DEF TypeOK, Write
  <2>2. /\ central' \in [Tasks -> Setting] /\ writer' \in [Tasks -> Procs \cup {"none"}]
        /\ \A t \in Tasks : central[t] # "none" => central'[t] # "none"
    BY <1>0, <1>10, <2>1, Upserted DEF LateArrives
  <2>3. UNCHANGED <<local, cmd>> /\ late' \subseteq Write BY <1>0, <1>10 DEF LateArrives, TypeOK
  <2>4. TypeOK' BY <1>0, <2>2, <2>3 DEF TypeOK
  <2>5. OneOwner' /\ HookLooked' BY <1>0, <2>3 DEF OneOwner, HookLooked
  <2>6. LocalNeedsCentral' BY <1>0, <2>2, <2>3 DEF LocalNeedsCentral
  <2>7. Posted'
    <3>. SUFFICES ASSUME NEW p \in Procs, Running(p, "enroll") PROVE central'[cmd[p].task] # "none"
      BY <2>3 DEF Posted, Running
    <3>1. cmd[p].task \in Tasks BY <1>0, NotIdle, Moves
    <3>. QED BY <1>0, <2>2, <3>1 DEF Posted
  <2>. QED BY <2>4, <2>5, <2>6, <2>7 DEF EnrollmentInv
<1>11. CASE UNCHANGED vars
  BY <1>0, <1>11 DEF vars, EnrollmentInv, TypeOK, OneOwner, Posted, HookLooked, LocalNeedsCentral, Running
<1>. QED BY <1>1, <1>2, <1>3, <1>4, <1>5, <1>6, <1>7, <1>8, <1>9, <1>10, <1>11 DEF Next

\* The invariant of enrollment.
THEOREM EnrollmentInvariance == Spec => []EnrollmentInv
  BY EnrollmentInit, EnrollmentNext, PTL DEF Spec

\* A failed enrollment authorises nothing: the journal allows only tasks the coordinator
\* has a row for, whatever was lost, late or aborted (AutoEnroll, cs relay register).
THEOREM LocalNeedsCentralHolds == Spec => []LocalNeedsCentral
  BY EnrollmentInvariance, PTL DEF EnrollmentInv

\* The hook never reverses a local revocation, although it authorises the task several
\* steps after it looked (AutoEnroll).
THEOREM LocalRevocationSticksHolds == Spec => LocalRevocationSticks
<1>. DEFINE Sticks(t) == local[t] = "off" /\ local'[t] = "on" =>
                           cmd["operator"] = [step |-> "enroll", task |-> t, set |-> "on"]
<1>1. ASSUME EnrollmentInv, [Next]_vars PROVE [\A t \in Tasks : Sticks(t)]_vars
  <2>. SUFFICES ASSUME NEW t \in Tasks, local[t] = "off", local'[t] = "on"
                PROVE  cmd["operator"] = [step |-> "enroll", task |-> t, set |-> "on"]
    OBVIOUS
  <2>0. TypeOK /\ HookLooked BY <1>1 DEF EnrollmentInv
  <2>1. RevokeLocally \/ ReadCentral \/ \E p \in Procs : EnrollLocally(p)
    BY <1>1 DEF Next, vars, Register, SessionStart, CheckLocal, Post, PostGivenUp, Abort, LateArrives
  <2>2. ~RevokeLocally BY <2>0 DEF RevokeLocally, Enroll, TypeOK
  <2>3. ~ReadCentral
    BY <2>0 DEF ReadCentral, Enroll, TypeOK, HookLooked, Running
  <2>4. ~EnrollLocally("hook")
    BY <2>0 DEF EnrollLocally, Enroll, TypeOK, HookLooked, Running
  <2>5. EnrollLocally("operator") BY <2>1, <2>2, <2>3, <2>4 DEF Procs
  <2>6. cmd["operator"].task = t /\ cmd["operator"].set = "on" /\ cmd["operator"].step = "enroll"
    BY <2>0, <2>5 DEF EnrollLocally, Enroll, TypeOK, Running
  <2>. QED BY <2>0, <2>6, "operator" \in Procs DEF TypeOK, Command, Idle, Procs
<1>. QED BY <1>1, EnrollmentInvariance, PTL DEF Spec, LocalRevocationSticks

-----------------------------------------------------------------------------
(* Deployments.                                                            *)

States == {"off", "walk", "scanned", "opened", "failed", "prepared", "registered", "conflict"}
Inodes == [mtime : Nat, data : D!Data]

DeploymentTypes ==
  /\ workspace \in [Files -> Seq(Inodes)] /\ contents \in [Files -> SUBSET D!Data] /\ edits \in Nat
  /\ pc \in [Sessions -> States]
  /\ buffer \in [Sessions -> Seq(Nat)] /\ archive \in [Sessions -> Seq(Files \X D!Data)]
  /\ id \in [Sessions -> IDs \cup {None}] /\ out \in [Sessions -> Outputs \cup {None}]
  /\ DOMAIN scan = Sessions /\ DOMAIN open = Sessions /\ DOMAIN output = Outputs
  /\ DOMAIN closure = IDs

\* Every file that has or had a name is known with its contents, and no time is ahead.
Known ==
  \A f \in Files : /\ Len(workspace[f]) > 0
                   /\ \A k \in 1 .. Len(workspace[f]) :
                        workspace[f][k].mtime <= edits /\ workspace[f][k].data \in contents[f]

\* Between the walk and the second look at the times: as long as these agree, what was
\* read so far is of the file as it is.
ReadAt(s) ==
  /\ pc[s] \in {"scanned", "opened"} =>
       scan[s][1] \in Files /\ scan[s][2] \in 1 .. Len(workspace[scan[s][1]])
  /\ pc[s] = "opened" =>
       /\ open[s] <= edits /\ open[s] \in Nat
       /\ Len(buffer[s]) <= Size
       /\ D!Stable(s) => \A i \in 1 .. Len(buffer[s]) : buffer[s][i] = D!Opened(s).data[i]

ReadInv == Known /\ (\A s \in Sessions : ReadAt(s)) /\ FilesWhole

\* A session that has its directory, and one that has filled it.
Live(s) == pc[s] \notin {"off", "failed"}
Done(s) == pc[s] \in {"prepared", "conflict", "registered"}

\* A directory is of one session.
Directories ==
  \A s \in Sessions : Live(s) =>
    out[s] \in Outputs /\ id[s] \in IDs /\ \A r \in Sessions : r # s /\ Live(r) => out[r] # out[s]

\* What a session left in its directory stays what it packed.
Filed == \A s \in Sessions : Done(s) => output[out[s]] = D!Prepared(s)

RegisterInv == Directories /\ Filed /\ ClosureConfirmed

DeploymentInv == DeploymentTypes /\ ReadInv /\ RegisterInv

\* A file read block by block, all of it, is its contents.
LEMMA WholeBuffer ==
  ASSUME NEW data \in D!Data, NEW b \in Seq(Nat), Len(b) = Size,
         \A i \in 1 .. Len(b) : b[i] = data[i]
  PROVE  b = data
  BY DEF D!Data, D!Blocks

\* Steps that leave directories, closures and what is packed alone.
LEMMA RegisterKept ==
  ASSUME RegisterInv, UNCHANGED <<id, out, output, closure>>,
         \A r \in Sessions : /\ Live(r)' => Live(r)
                             /\ Done(r)' => Done(r) /\ archive'[r] = archive[r]
                             /\ pc'[r] = "registered" => pc[r] = "registered"
  PROVE  RegisterInv'
<1>1. Directories' BY DEF RegisterInv, Directories
<1>2. Filed' BY DEF RegisterInv, Filed, D!Prepared, D!Bundle
<1>3. ClosureConfirmed'
  <2>. SUFFICES ASSUME NEW r \in Sessions, pc'[r] = "registered" PROVE closure'[id'[r]] = {D!Bundle(r)'}
    BY DEF ClosureConfirmed, D!ClosureConfirmed
  <2>1. archive'[r] = archive[r] /\ pc[r] = "registered" BY DEF Done
  <2>. QED BY <2>1 DEF RegisterInv, ClosureConfirmed, D!ClosureConfirmed, D!Bundle
<1>. QED BY <1>1, <1>2, <1>3 DEF RegisterInv

\* Steps of one session beside an unchanged workspace.
LEMMA ReadKept ==
  ASSUME ReadInv, UNCHANGED <<workspace, edits, contents>>, NEW s \in Sessions, ReadAt(s)',
         \A r \in Sessions : r # s =>
           pc'[r] = pc[r] /\ scan'[r] = scan[r] /\ open'[r] = open[r] /\ buffer'[r] = buffer[r]
             /\ archive'[r] = archive[r],
         \A i \in DOMAIN archive'[s] : archive'[s][i][2] \in contents[archive'[s][i][1]]
  PROVE  ReadInv'
<1>1. Known' BY DEF ReadInv, Known
<1>2. ASSUME NEW r \in Sessions, r # s PROVE ReadAt(r)'
  <2>1. ReadAt(r) BY DEF ReadInv
  <2>2. pc'[r] = pc[r] /\ scan'[r] = scan[r] /\ open'[r] = open[r] /\ buffer'[r] = buffer[r]
    BY <1>2
  <2>. QED BY <2>1, <2>2 DEF ReadAt, D!Stable, D!Opened
<1>3. FilesWhole' BY DEF ReadInv, FilesWhole, D!FilesWhole
<1>. QED BY <1>1, <1>2, <1>3 DEF ReadInv

\* Steps that change no variable of the type invariant but pc.
LEMMA TypesKept ==
  ASSUME DeploymentTypes, NEW s \in Sessions, NEW x \in States, D!To(s, x),
         UNCHANGED <<workspace, contents, edits, buffer, archive, id, out, scan, open, output, closure>>
  PROVE  DeploymentTypes'
  BY DEF DeploymentTypes, D!To

\* Where a session goes, and that the others stay.
LEMMA Gone ==
  ASSUME DeploymentTypes, NEW s \in Sessions, NEW x, D!To(s, x)
  PROVE  pc'[s] = x /\ \A r \in Sessions : r # s => pc'[r] = pc[r]
  BY DEF DeploymentTypes, D!To

\* The initial state.
LEMMA DeploymentInit == D!Init => DeploymentInv
<1>. SUFFICES ASSUME D!Init PROVE DeploymentInv OBVIOUS
<1>. USE DeploymentAssumption DEF D!BifrostDeploymentAssumption, D!Init
<1>1. [b \in D!Blocks |-> 0] \in D!Data BY DEF D!Data
<1>2. DeploymentTypes
  BY <1>1 DEF DeploymentTypes, Inodes, D!File, States
<1>3. ReadInv
  <2>1. Known BY <1>1 DEF Known, D!File
  <2>2. \A s \in Sessions : ReadAt(s) BY DEF ReadAt
  <2>3. FilesWhole BY DEF FilesWhole, D!FilesWhole
  <2>. QED BY <2>1, <2>2, <2>3 DEF ReadInv
<1>4. RegisterInv
  BY DEF RegisterInv, Directories, Filed, ClosureConfirmed, D!ClosureConfirmed, Live, Done
<1>. QED BY <1>2, <1>3, <1>4 DEF DeploymentInv

\* An edit: files that have or had the name f keep what they are, but for one that gets a
\* new time.
LEMMA EditKeeps ==
  ASSUME DeploymentInv, NEW f \in Files, NEW files \in Seq(Inodes), NEW data \in D!Data,
         D!Edited(f, files, data),
         Len(files) >= Len(workspace[f]),
         \A k \in 1 .. Len(files) :
           \/ k <= Len(workspace[f]) /\ files[k] = workspace[f][k]
           \/ files[k].mtime = edits + 1 /\ files[k].data = data
           \/ k > Len(workspace[f]) /\ files[k].mtime = 0 /\ files[k].data = data
  PROVE  DeploymentInv'
<1>. USE DEF DeploymentInv
<1>1. /\ edits' = edits + 1 /\ workspace' = [workspace EXCEPT ![f] = files]
      /\ contents' = [contents EXCEPT ![f] = @ \cup {data}]
      /\ UNCHANGED <<pc, id, scan, open, buffer, archive, out, output, closure>>
  BY DEF D!Edited, D!session, D!reading, D!platform
<1>2. DeploymentTypes' BY <1>1 DEF DeploymentTypes
<1>3. Known'
  <2>. SUFFICES ASSUME NEW g \in Files
                PROVE  /\ Len(workspace'[g]) > 0
                       /\ \A k \in 1 .. Len(workspace'[g]) :
                            workspace'[g][k].mtime <= edits' /\ workspace'[g][k].data \in contents'[g]
    BY DEF Known
  <2>0. Known /\ edits \in Nat /\ workspace \in [Files -> Seq(Inodes)] /\ contents \in [Files -> SUBSET D!Data]
    BY DEF ReadInv, DeploymentTypes
  <2>3. Len(workspace[g]) > 0 /\ \A k \in 1 .. Len(workspace[g]) :
          workspace[g][k].mtime <= edits /\ workspace[g][k].mtime \in Nat /\ workspace[g][k].data \in contents[g]
    <3>1. \A k \in 1 .. Len(workspace[g]) : workspace[g][k] \in Inodes BY <2>0
    <3>. QED BY <2>0, <3>1 DEF Known, Inodes
  <2>1. CASE g # f
    <3>1. workspace'[g] = workspace[g] /\ contents'[g] = contents[g] BY <1>1, <2>0, <2>1
    <3>2. edits' = edits + 1 /\ edits \in Nat BY <1>1, <2>0
    <3>3. ASSUME NEW k \in 1 .. Len(workspace[g])
          PROVE  workspace[g][k].mtime <= edits' /\ workspace[g][k].data \in contents[g]
      BY <2>3, <3>2
    <3>. QED BY <2>3, <3>1, <3>3
  <2>2. CASE g = f
    <3>1. workspace'[g] = files /\ contents'[g] = contents[g] \cup {data} BY <1>1, <2>0, <2>2
    <3>2. Len(workspace[f]) \in Nat /\ Len(files) \in Nat BY <2>0
    <3>3. Len(files) > 0 BY <2>2, <2>3, <3>2
    <3>4. ASSUME NEW k \in 1 .. Len(files) PROVE files[k].mtime <= edits + 1 /\ files[k].data \in contents'[g]
      <4>1. CASE k <= Len(workspace[f]) /\ files[k] = workspace[f][k]
        BY <2>0, <2>2, <2>3, <3>1, <3>2, <4>1
      <4>2. CASE files[k].mtime \in {0, edits + 1} /\ files[k].data = data
        BY <2>0, <3>1, <4>2
      <4>. QED BY <4>1, <4>2
    <3>. QED BY <1>1, <3>1, <3>3, <3>4
  <2>. QED BY <2>1, <2>2
<1>4. ASSUME NEW s \in Sessions PROVE ReadAt(s)'
  <2>0. ReadAt(s) /\ edits \in Nat /\ workspace \in [Files -> Seq(Inodes)] BY DEF ReadInv, DeploymentTypes
  <2>1. CASE pc[s] \notin {"scanned", "opened"} BY <1>1, <2>1 DEF ReadAt
  <2>2. CASE pc[s] \in {"scanned", "opened"}
    <3>1. PICK g, k : g = scan[s][1] /\ k = scan[s][2] OBVIOUS
    <3>2. g \in Files /\ k \in 1 .. Len(workspace[g]) BY <2>0, <2>2, <3>1 DEF ReadAt
    <3>3. Len(workspace'[g]) \in Nat /\ Len(workspace[g]) \in Nat /\ Len(workspace[g]) <= Len(workspace'[g])
      BY <1>1, <2>0, <3>2
    <3>4. workspace'[g][k] = workspace[g][k] \/ workspace'[g][k].mtime = edits + 1
      <4>1. CASE g # f BY <1>1, <2>0, <3>2, <4>1
      <4>2. CASE g = f
        <5>1. workspace'[g] = files BY <1>1, <2>0, <4>2
        <5>. QED BY <3>2, <3>3, <4>2, <5>1
      <4>. QED BY <4>1, <4>2
    <3>5. D!Opened(s) = workspace[g][k] /\ D!Opened(s)' = workspace'[g][k] BY <1>1, <3>1 DEF D!Opened
    <3>6. ASSUME pc[s] = "opened"
          PROVE  /\ open[s] <= edits' /\ open[s] \in Nat /\ Len(buffer[s]) <= Size
                 /\ D!Stable(s)' => \A i \in 1 .. Len(buffer[s]) : buffer[s][i] = D!Opened(s)'.data[i]
      <4>1. open[s] <= edits /\ open[s] \in Nat /\ Len(buffer[s]) <= Size
            /\ (D!Stable(s) => \A i \in 1 .. Len(buffer[s]) : buffer[s][i] = D!Opened(s).data[i])
        BY <2>0, <3>6 DEF ReadAt
      <4>2. D!Stable(s)' <=> workspace'[g][k].mtime = open[s] BY <1>1, <3>5 DEF D!Stable
      <4>3. D!Stable(s) <=> workspace[g][k].mtime = open[s] BY <3>5 DEF D!Stable
      <4>4. CASE workspace'[g][k] = workspace[g][k] BY <1>1, <2>0, <4>1, <4>2, <4>3, <4>4, <3>5
      <4>5. CASE workspace'[g][k].mtime = edits + 1 BY <1>1, <2>0, <4>1, <4>2, <4>5
      <4>. QED BY <3>4, <4>4, <4>5
    <3>. QED BY <1>1, <3>1, <3>2, <3>3, <3>6 DEF ReadAt
  <2>. QED BY <2>1, <2>2
<1>5. FilesWhole'
  BY <1>1 DEF DeploymentTypes, ReadInv, FilesWhole, D!FilesWhole
<1>6. ReadInv' BY <1>3, <1>4, <1>5 DEF ReadInv
<1>7. RegisterInv' BY <1>1, RegisterKept DEF Live, Done
<1>. QED BY <1>2, <1>6, <1>7

\* A write in place.
LEMMA WriteBlockKeeps ==
  ASSUME DeploymentInv, NEW f \in Files, NEW b \in D!Blocks, D!WriteBlock(f, b)
  PROVE  DeploymentInv'
<1>. DEFINE n == Len(workspace[f])
            data == [workspace[f][n].data EXCEPT ![b] = edits + 1]
            files == [workspace[f] EXCEPT ![n] = D!File(edits + 1, data)]
<1>0. workspace[f] \in Seq(Inodes) /\ n \in Nat /\ n > 0 /\ edits \in Nat
  BY DEF DeploymentInv, DeploymentTypes, ReadInv, Known
<1>1. workspace[f][n] \in Inodes BY <1>0
<1>2. data \in D!Data BY <1>0, <1>1 DEF Inodes, D!Data
<1>3. D!File(edits + 1, data) \in Inodes
  BY <1>0, <1>2 DEF D!File, Inodes
<1>4. files \in Seq(Inodes) /\ Len(files) = n
  BY <1>0, <1>3
<1>5. \A k \in 1 .. Len(files) :
        \/ k <= Len(workspace[f]) /\ files[k] = workspace[f][k]
        \/ files[k].mtime = edits + 1 /\ files[k].data = data
  BY <1>0, <1>4 DEF D!File
<1>6. D!Edited(f, files, data) BY DEF D!WriteBlock, D!inode
<1>. HIDE DEF files, data
<1>. QED BY <1>0, <1>2, <1>4, <1>5, <1>6, EditKeeps

\* Another file under the name.
LEMMA ReplaceKeeps ==
  ASSUME DeploymentInv, NEW f \in Files, D!Replace(f)
  PROVE  DeploymentInv'
<1>. DEFINE n == Len(workspace[f])
            data == [b \in D!Blocks |-> edits + 1]
            files == Append(workspace[f], D!File(0, data))
<1>0. workspace[f] \in Seq(Inodes) /\ n \in Nat /\ edits \in Nat
  BY DEF DeploymentInv, DeploymentTypes
<1>2. data \in D!Data BY <1>0 DEF D!Data
<1>3. D!File(0, data) \in Inodes BY <1>2 DEF D!File, Inodes
<1>4. files \in Seq(Inodes) /\ Len(files) = n + 1 BY <1>0, <1>3
<1>5. \A k \in 1 .. Len(files) :
        \/ k <= Len(workspace[f]) /\ files[k] = workspace[f][k]
        \/ k > Len(workspace[f]) /\ files[k].mtime = 0 /\ files[k].data = data
  BY <1>0, <1>4 DEF D!File
<1>6. D!Edited(f, files, data) BY DEF D!Replace
<1>. HIDE DEF files, data
<1>. QED BY <1>0, <1>2, <1>4, <1>5, <1>6, EditKeeps

\* prepare makes its directory or fails.
LEMMA PrepareKeeps ==
  ASSUME DeploymentInv, NEW s \in Sessions, NEW d \in IDs, NEW o \in Outputs, D!Prepare(s, d, o)
  PROVE  DeploymentInv'
<1>. USE DEF DeploymentInv, States
<1>0. UNCHANGED <<workspace, edits, contents, scan, open, buffer, archive, output, closure>> /\ pc[s] = "off"
  BY DEF D!Prepare, D!reading, D!platform
<1>1. CASE D!To(s, "failed") /\ UNCHANGED <<id, out>>
  <2>1. DeploymentTypes' BY <1>0, <1>1, TypesKept
  <2>2. ReadAt(s)' BY <1>0, <1>1, Gone DEF ReadAt
  <2>3. ReadInv' BY <1>0, <1>1, <2>2, Gone, ReadKept DEF ReadInv, FilesWhole, D!FilesWhole
  <2>4. RegisterInv' BY <1>0, <1>1, Gone, RegisterKept DEF Live, Done
  <2>. QED BY <2>1, <2>3, <2>4
<1>2. CASE /\ D!createPrivateOutputRoot(o) /\ D!To(s, "walk")
           /\ id' = [id EXCEPT ![s] = d] /\ out' = [out EXCEPT ![s] = o]
  <2>0. pc'[s] = "walk" /\ \A r \in Sessions : r # s => pc'[r] = pc[r] BY <1>2, Gone
  <2>1. DeploymentTypes' BY <1>0, <1>2 DEF DeploymentTypes, D!To
  <2>2. ReadAt(s)' BY <2>0 DEF ReadAt
  <2>3. ReadInv' BY <1>0, <2>0, <2>2, ReadKept DEF ReadInv, FilesWhole, D!FilesWhole
  <2>4. /\ out'[s] = o /\ id'[s] = d
        /\ \A r \in Sessions : out[r] # o /\ (r # s => out'[r] = out[r] /\ id'[r] = id[r])
    BY <1>2 DEF DeploymentTypes, D!createPrivateOutputRoot
  <2>5. Directories' BY <2>0, <2>4 DEF RegisterInv, Directories, Live
  <2>6. Filed' BY <1>0, <2>0, <2>4 DEF RegisterInv, Filed, Done, D!Prepared, D!Bundle
  <2>7. ClosureConfirmed'
    BY <1>0, <2>0, <2>4 DEF RegisterInv, ClosureConfirmed, D!ClosureConfirmed, D!Bundle
  <2>. QED BY <2>1, <2>3, <2>5, <2>6, <2>7 DEF RegisterInv
<1>. QED BY <1>1, <1>2 DEF D!Prepare

\* The walk looks at a name.
LEMMA ScanKeeps ==
  ASSUME DeploymentInv, NEW s \in Sessions, NEW f \in Files, D!Scan(s, f)
  PROVE  DeploymentInv'
<1>. USE DEF DeploymentInv, States
<1>0. /\ UNCHANGED <<workspace, edits, contents, open, buffer, archive, id, out, output, closure>>
      /\ pc[s] = "walk" /\ D!To(s, "scanned") /\ scan' = [scan EXCEPT ![s] = <<f, D!inode(f)>>]
  BY DEF D!Scan, D!platform
<1>1. pc'[s] = "scanned" /\ \A r \in Sessions : r # s => pc'[r] = pc[r] BY <1>0, Gone
<1>2. scan'[s] = <<f, Len(workspace[f])>> /\ \A r \in Sessions : r # s => scan'[r] = scan[r]
  BY <1>0 DEF DeploymentTypes, D!inode
<1>3. DeploymentTypes' BY <1>0 DEF DeploymentTypes, D!To
<1>4. Len(workspace[f]) \in 1 .. Len(workspace[f]) BY DEF ReadInv, Known, DeploymentTypes
<1>5. ReadAt(s)' BY <1>0, <1>1, <1>2, <1>4 DEF ReadAt
<1>6. ReadInv' BY <1>0, <1>1, <1>2, <1>5, ReadKept DEF ReadInv, FilesWhole, D!FilesWhole
<1>7. RegisterInv' BY <1>0, <1>1, RegisterKept DEF Live, Done
<1>. QED BY <1>3, <1>6, <1>7

\* The name is opened.
LEMMA OpenFileKeeps ==
  ASSUME DeploymentInv, NEW s \in Sessions, D!OpenFile(s)
  PROVE  DeploymentInv'
<1>. USE DEF DeploymentInv, States
<1>0. /\ UNCHANGED <<workspace, edits, contents, scan, archive, id, out, output, closure>>
      /\ pc[s] = "scanned"
  BY DEF D!OpenFile, D!platform
<1>1. CASE D!To(s, "failed") /\ UNCHANGED <<open, buffer>>
  <2>1. DeploymentTypes' BY <1>0, <1>1, TypesKept
  <2>2. ReadAt(s)' BY <1>0, <1>1, Gone DEF ReadAt
  <2>3. ReadInv' BY <1>0, <1>1, <2>2, Gone, ReadKept DEF ReadInv, FilesWhole, D!FilesWhole
  <2>4. RegisterInv' BY <1>0, <1>1, Gone, RegisterKept DEF Live, Done
  <2>. QED BY <2>1, <2>3, <2>4
<1>2. CASE /\ D!To(s, "opened") /\ open' = [open EXCEPT ![s] = D!Opened(s).mtime]
           /\ buffer' = [buffer EXCEPT ![s] = << >>]
  <2>0. pc'[s] = "opened" /\ \A r \in Sessions : r # s => pc'[r] = pc[r] BY <1>2, Gone
  <2>1. DeploymentTypes' BY <1>0, <1>2 DEF DeploymentTypes, D!To
  <2>2. /\ open'[s] = D!Opened(s).mtime /\ buffer'[s] = << >>
        /\ \A r \in Sessions : r # s => open'[r] = open[r] /\ buffer'[r] = buffer[r]
    BY <1>2 DEF DeploymentTypes
  <2>3. scan[s][1] \in Files /\ scan[s][2] \in 1 .. Len(workspace[scan[s][1]])
    BY <1>0 DEF ReadInv, ReadAt
  <2>4. D!Opened(s).mtime <= edits BY <2>3 DEF ReadInv, Known, D!Opened
  <2>5. D!Opened(s).mtime \in Nat
    <3>1. workspace[scan[s][1]] \in Seq(Inodes) BY <2>3 DEF DeploymentTypes
    <3>2. D!Opened(s) \in Inodes BY <2>3, <3>1 DEF D!Opened
    <3>. QED BY <3>2 DEF Inodes
  <2>6. Size \in Nat BY DeploymentAssumption DEF D!BifrostDeploymentAssumption
  <2>7. ReadAt(s)' BY <1>0, <2>0, <2>2, <2>3, <2>4, <2>5, <2>6 DEF ReadAt
  <2>8. ReadInv' BY <1>0, <2>0, <2>2, <2>7, ReadKept DEF ReadInv, FilesWhole, D!FilesWhole
  <2>9. RegisterInv' BY <1>0, <2>0, RegisterKept DEF Live, Done
  <2>. QED BY <2>1, <2>8, <2>9
<1>. QED BY <1>1, <1>2 DEF D!OpenFile

\* One more block is read of the file as it is now.
LEMMA ReadBlockKeeps ==
  ASSUME DeploymentInv, NEW s \in Sessions, D!ReadBlock(s)
  PROVE  DeploymentInv'
<1>. USE DEF DeploymentInv, States
<1>0. /\ UNCHANGED <<workspace, edits, contents, pc, scan, open, archive, id, out, output, closure>>
      /\ pc[s] = "opened" /\ Len(buffer[s]) < Size
      /\ buffer' = [buffer EXCEPT ![s] = Append(@, D!Opened(s).data[Len(@) + 1])]
  BY DEF D!ReadBlock, D!platform
<1>1. PICK n, v : n = Len(buffer[s]) /\ v = D!Opened(s).data[n + 1] OBVIOUS
<1>2. buffer[s] \in Seq(Nat) /\ n \in Nat /\ Size \in Nat
  BY <1>1, DeploymentAssumption DEF DeploymentTypes, D!BifrostDeploymentAssumption
<1>3. scan[s][1] \in Files /\ scan[s][2] \in 1 .. Len(workspace[scan[s][1]])
  BY <1>0 DEF ReadInv, ReadAt
<1>4. v \in Nat
  <2>1. workspace[scan[s][1]] \in Seq(Inodes) BY <1>3 DEF DeploymentTypes
  <2>2. D!Opened(s) \in Inodes BY <1>3, <2>1 DEF D!Opened
  <2>. QED BY <1>0, <1>1, <1>2, <2>2 DEF Inodes, D!Data, D!Blocks
<1>5. buffer'[s] = Append(buffer[s], v) /\ \A r \in Sessions : r # s => buffer'[r] = buffer[r]
  BY <1>0, <1>1 DEF DeploymentTypes
<1>6. DeploymentTypes'
  <2>1. buffer' \in [Sessions -> Seq(Nat)] BY <1>0, <1>1, <1>2, <1>4 DEF DeploymentTypes
  <2>. QED BY <1>0, <2>1 DEF DeploymentTypes
<1>7. ReadAt(s)'
  <2>1. /\ open[s] <= edits /\ open[s] \in Nat
        /\ (D!Stable(s) => \A i \in 1 .. n : buffer[s][i] = D!Opened(s).data[i])
    BY <1>0, <1>1 DEF ReadInv, ReadAt
  <2>2. D!Opened(s)' = D!Opened(s) /\ (D!Stable(s)' <=> D!Stable(s)) BY <1>0 DEF D!Opened, D!Stable
  <2>3. /\ Len(buffer'[s]) = n + 1 /\ buffer'[s][n + 1] = v
        /\ \A i \in 1 .. n : buffer'[s][i] = buffer[s][i]
    BY <1>1, <1>2, <1>4, <1>5
  <2>4. Len(buffer'[s]) <= Size BY <1>0, <1>1, <1>2, <2>3
  <2>5. D!Stable(s)' => \A i \in 1 .. Len(buffer'[s]) : buffer'[s][i] = D!Opened(s)'.data[i]
    <3>. SUFFICES ASSUME D!Stable(s), NEW i \in 1 .. n + 1 PROVE buffer'[s][i] = D!Opened(s).data[i]
      BY <2>2, <2>3
    <3>1. CASE i \in 1 .. n BY <2>1, <2>3, <3>1
    <3>2. CASE i = n + 1 BY <1>1, <2>3, <3>2
    <3>. QED BY <1>2, <3>1, <3>2
  <2>. QED BY <1>0, <1>3, <2>1, <2>4, <2>5 DEF ReadAt
<1>8. ReadInv' BY <1>0, <1>5, <1>7, ReadKept DEF ReadInv, FilesWhole, D!FilesWhole
<1>9. RegisterInv' BY <1>0, RegisterKept DEF Live, Done
<1>. QED BY <1>6, <1>8, <1>9

\* The second look at the times: what was read is packed, or the command fails.
LEMMA CheckReadKeeps ==
  ASSUME DeploymentInv, NEW s \in Sessions, D!CheckRead(s)
  PROVE  DeploymentInv'
<1>. USE DEF DeploymentInv, States
<1>0. /\ UNCHANGED <<workspace, edits, contents, scan, open, buffer, id, out, output, closure>>
      /\ pc[s] = "opened" /\ Len(buffer[s]) = Size
  BY DEF D!CheckRead, D!platform, D!reading
<1>1. CASE D!To(s, "failed") /\ UNCHANGED archive
  <2>1. DeploymentTypes' BY <1>0, <1>1, TypesKept
  <2>2. ReadAt(s)' BY <1>0, <1>1, Gone DEF ReadAt
  <2>3. ReadInv' BY <1>0, <1>1, <2>2, Gone, ReadKept DEF ReadInv, FilesWhole, D!FilesWhole
  <2>4. RegisterInv' BY <1>0, <1>1, Gone, RegisterKept DEF Live, Done
  <2>. QED BY <2>1, <2>3, <2>4
<1>2. CASE /\ D!Stable(s) /\ D!To(s, "walk")
           /\ archive' = [archive EXCEPT ![s] = Append(@, <<scan[s][1], buffer[s]>>)]
  <2>0. pc'[s] = "walk" /\ \A r \in Sessions : r # s => pc'[r] = pc[r] BY <1>2, Gone
  <2>1. PICK f, n : f = scan[s][1] /\ n = scan[s][2] OBVIOUS
  <2>2. f \in Files /\ n \in 1 .. Len(workspace[f]) BY <1>0, <2>1 DEF ReadInv, ReadAt
  <2>3. workspace[f][n].data \in D!Data /\ workspace[f][n].data \in contents[f]
    BY <2>2 DEF DeploymentTypes, ReadInv, Known
  <2>4. buffer[s] = workspace[f][n].data
    <3>1. \A i \in 1 .. Len(buffer[s]) : buffer[s][i] = workspace[f][n].data[i]
      BY <1>0, <1>2, <2>1 DEF ReadInv, ReadAt, D!Opened
    <3>2. buffer[s] \in Seq(Nat) BY DEF DeploymentTypes
    <3>. QED BY <1>0, <2>3, <3>1, <3>2, WholeBuffer
  <2>5. <<f, buffer[s]>> \in Files \X D!Data BY <2>2, <2>3, <2>4
  <2>6. DeploymentTypes'
    <3>1. archive' \in [Sessions -> Seq(Files \X D!Data)] BY <1>2, <2>1, <2>5 DEF DeploymentTypes
    <3>. QED BY <1>0, <1>2, <3>1 DEF DeploymentTypes, D!To
  <2>7. archive'[s] = Append(archive[s], <<f, buffer[s]>>) /\ \A r \in Sessions : r # s => archive'[r] = archive[r]
    BY <1>2, <2>1 DEF DeploymentTypes
  <2>8. \A i \in DOMAIN archive'[s] : archive'[s][i][2] \in contents[archive'[s][i][1]]
    <3>1. archive[s] \in Seq(Files \X D!Data) BY DEF DeploymentTypes
    <3>2. \A i \in 1 .. Len(archive[s]) : archive[s][i][2] \in contents[archive[s][i][1]]
      BY <3>1 DEF ReadInv, FilesWhole, D!FilesWhole
    <3>. QED BY <2>3, <2>4, <2>5, <2>7, <3>1, <3>2
  <2>9. ReadAt(s)' BY <2>0 DEF ReadAt
  <2>10. ReadInv' BY <1>0, <2>0, <2>7, <2>8, <2>9, ReadKept
  <2>11. RegisterInv' BY <1>0, <2>0, <2>7, RegisterKept DEF Live, Done
  <2>. QED BY <2>6, <2>10, <2>11
<1>. QED BY <1>1, <1>2 DEF D!CheckRead

\* The bundle and its record are written to the session's own directory.
LEMMA FinishKeeps ==
  ASSUME DeploymentInv, NEW s \in Sessions, D!Finish(s)
  PROVE  DeploymentInv'
<1>. USE DEF DeploymentInv, States
<1>0. /\ UNCHANGED <<workspace, edits, contents, scan, open, buffer, archive, id, out, closure>>
      /\ pc[s] = "walk"
  BY DEF D!Finish, D!platform, D!reading
<1>1. CASE D!To(s, "failed") /\ UNCHANGED output
  <2>1. DeploymentTypes' BY <1>0, <1>1, TypesKept
  <2>2. ReadAt(s)' BY <1>0, <1>1, Gone DEF ReadAt
  <2>3. ReadInv' BY <1>0, <1>1, <2>2, Gone, ReadKept DEF ReadInv, FilesWhole, D!FilesWhole
  <2>4. RegisterInv' BY <1>0, <1>1, Gone, RegisterKept DEF Live, Done
  <2>. QED BY <2>1, <2>3, <2>4
<1>2. CASE output' = [output EXCEPT ![out[s]] = D!Prepared(s)] /\ D!To(s, "prepared")
  <2>0. pc'[s] = "prepared" /\ \A r \in Sessions : r # s => pc'[r] = pc[r] BY <1>2, Gone
  <2>1. DeploymentTypes' BY <1>0, <1>2 DEF DeploymentTypes, D!To
  <2>2. ReadAt(s)' BY <2>0 DEF ReadAt
  <2>3. ReadInv' BY <1>0, <2>0, <2>2, ReadKept DEF ReadInv, FilesWhole, D!FilesWhole
  <2>4. out[s] \in Outputs /\ \A r \in Sessions : r # s /\ Live(r) => out[r] \in Outputs /\ out[r] # out[s]
    BY <1>0 DEF RegisterInv, Directories, Live
  <2>5. output'[out[s]] = D!Prepared(s) /\ \A o \in Outputs : o # out[s] => output'[o] = output[o]
    BY <1>2, <2>4 DEF DeploymentTypes
  <2>6. Directories' BY <1>0, <2>0 DEF RegisterInv, Directories, Live
  <2>7. Filed'
    <3>. SUFFICES ASSUME NEW r \in Sessions, Done(r)' PROVE output'[out[r]] = D!Prepared(r)
      BY <1>0 DEF Filed, D!Prepared, D!Bundle
    <3>1. CASE r = s BY <2>5, <3>1
    <3>2. CASE r # s
      <4>1. Done(r) /\ Live(r) BY <2>0, <3>2 DEF Done, Live
      <4>. QED BY <2>4, <2>5, <3>2, <4>1 DEF RegisterInv, Filed
    <3>. QED BY <3>1, <3>2
  <2>8. ClosureConfirmed'
    <3>0. \A r \in Sessions : D!Bundle(r)' = D!Bundle(r) BY <1>0 DEF D!Bundle
    <3>. SUFFICES ASSUME NEW r \in Sessions, pc'[r] = "registered" PROVE closure[id[r]] = {D!Bundle(r)}
      BY <1>0, <3>0 DEF ClosureConfirmed, D!ClosureConfirmed
    <3>1. pc[r] = "registered" BY <2>0
    <3>. QED BY <3>1 DEF RegisterInv, ClosureConfirmed, D!ClosureConfirmed
  <2>. QED BY <2>1, <2>3, <2>6, <2>7, <2>8 DEF RegisterInv
<1>. QED BY <1>1, <1>2 DEF D!Finish

\* register: the closure is the platform's for good, or is refused.
LEMMA RegisterKeeps ==
  ASSUME DeploymentInv, NEW s \in Sessions, D!Register(s)
  PROVE  DeploymentInv'
<1>. USE DEF DeploymentInv, States
<1>0. /\ UNCHANGED <<workspace, edits, contents, scan, open, buffer, archive, id, out, output>>
      /\ pc[s] \in {"prepared", "conflict"}
  BY DEF D!Register, D!reading
<1>1. output[out[s]].id = id[s] /\ output[out[s]].bundle = D!Bundle(s) /\ id[s] \in IDs
  <2>1. Done(s) /\ Live(s) BY <1>0 DEF Done, Live
  <2>2. output[out[s]] = D!Prepared(s) BY <2>1 DEF RegisterInv, Filed
  <2>3. D!Prepared(s).id = id[s] /\ D!Prepared(s).bundle = D!Bundle(s) BY DEF D!Prepared
  <2>4. id[s] \in IDs BY <2>1 DEF RegisterInv, Directories
  <2>. QED BY <2>2, <2>3, <2>4
<1>2. \/ (D!To(s, "prepared") \/ D!To(s, "conflict")) /\ UNCHANGED closure
      \/ /\ D!Registers(id[s], D!Bundle(s))
         /\ D!To(s, "prepared") \/ D!To(s, "registered")
  BY <1>1 DEF D!Register, D!call, D!Refuses, D!Reconcile
<1>3. PICK x \in {"prepared", "conflict", "registered"} : D!To(s, x) BY <1>2
<1>4. pc'[s] = x /\ \A r \in Sessions : r # s => pc'[r] = pc[r] BY <1>3, Gone
<1>5. DOMAIN closure' = IDs BY <1>2 DEF D!Registers, DeploymentTypes
<1>6. DeploymentTypes' BY <1>0, <1>3, <1>5 DEF DeploymentTypes, D!To
<1>7. ReadAt(s)' BY <1>4 DEF ReadAt
<1>8. ReadInv' BY <1>0, <1>4, <1>7, ReadKept DEF ReadInv, FilesWhole, D!FilesWhole
<1>9. Directories' BY <1>0, <1>4 DEF RegisterInv, Directories, Live
<1>10. Filed' BY <1>0, <1>4 DEF RegisterInv, Filed, Done, D!Prepared, D!Bundle
<1>11. \A r \in Sessions : D!Bundle(r)' = D!Bundle(r) /\ (pc[r] = "registered" => closure[id[r]] = {D!Bundle(r)} /\ id[r] \in IDs)
  BY <1>0 DEF D!Bundle, RegisterInv, ClosureConfirmed, D!ClosureConfirmed, Directories, Live
<1>12. ClosureConfirmed'
  <2>. SUFFICES ASSUME NEW r \in Sessions, pc'[r] = "registered" PROVE closure'[id[r]] = {D!Bundle(r)}
    BY <1>0, <1>11 DEF ClosureConfirmed, D!ClosureConfirmed
  <2>1. CASE (D!To(s, "prepared") \/ D!To(s, "conflict")) /\ UNCHANGED closure
    <3>1. pc'[s] # "registered" BY <2>1, Gone
    <3>. QED BY <1>4, <1>11, <2>1, <3>1
  <2>2. CASE D!Registers(id[s], D!Bundle(s))
    <3>1. closure[id[s]] \subseteq {D!Bundle(s)} /\ closure'[id[s]] = {D!Bundle(s)}
          /\ \A d \in IDs : d # id[s] => closure'[d] = closure[d]
      BY <1>1, <2>2 DEF D!Registers, DeploymentTypes
    <3>2. CASE r = s BY <3>1, <3>2
    <3>3. CASE r # s /\ id[r] # id[s] BY <1>4, <1>11, <3>1, <3>3
    <3>4. CASE r # s /\ id[r] = id[s]
      <4>1. closure[id[s]] = {D!Bundle(r)} BY <1>4, <1>11, <3>4
      <4>2. D!Bundle(r) = D!Bundle(s) BY <3>1, <4>1
      <4>. QED BY <3>1, <3>4, <4>2
    <3>. QED BY <3>2, <3>3, <3>4
  <2>. QED BY <1>2, <2>1, <2>2
<1>. QED BY <1>6, <1>8, <1>9, <1>10, <1>12 DEF RegisterInv

\* Steps that change nothing the invariant speaks of: looking, moving the pointer, none.
LEMMA RestKeeps ==
  ASSUME DeploymentInv,
         UNCHANGED <<workspace, edits, contents, pc, scan, open, buffer, archive, id, out, output, closure>>
  PROVE  DeploymentInv'
<1>1. DeploymentTypes' BY DEF DeploymentInv, DeploymentTypes
<1>2. RegisterInv' BY RegisterKept DEF DeploymentInv, Live, Done
<1>3. Known' BY DEF DeploymentInv, ReadInv, Known
<1>4. ASSUME NEW s \in Sessions PROVE ReadAt(s)'
  <2>1. ReadAt(s) BY DEF DeploymentInv, ReadInv
  <2>. QED BY <2>1 DEF ReadAt, D!Stable, D!Opened
<1>5. FilesWhole' BY DEF DeploymentInv, ReadInv, FilesWhole, D!FilesWhole
<1>. QED BY <1>1, <1>2, <1>3, <1>4, <1>5 DEF DeploymentInv, ReadInv

\* Every step keeps the invariant.
LEMMA DeploymentNext == DeploymentInv /\ [D!Next]_D!vars => DeploymentInv'
<1>. SUFFICES ASSUME DeploymentInv, [D!Next]_D!vars PROVE DeploymentInv' OBVIOUS
<1>1. ASSUME NEW s \in Sessions, D!Look(s) PROVE DeploymentInv'
  BY <1>1, RestKeeps DEF D!Look, D!reading, D!platform
<1>2. ASSUME NEW s \in Sessions, NEW d \in IDs, NEW a, D!MovePointer(s, d, a) PROVE DeploymentInv'
  BY <1>2, RestKeeps DEF D!MovePointer, D!session, D!reading
<1>3. CASE UNCHANGED D!vars
  BY <1>3, RestKeeps DEF D!vars, D!session, D!reading, D!platform
<1>. QED
  BY <1>1, <1>2, <1>3, WriteBlockKeeps, ReplaceKeeps, PrepareKeeps, ScanKeeps, OpenFileKeeps, ReadBlockKeeps,
     CheckReadKeeps, FinishKeeps, RegisterKeeps DEF D!Next

\* The invariant of deployments.
THEOREM DeploymentInvariance == D!Spec => []DeploymentInv
  BY DeploymentInit, DeploymentNext, PTL DEF D!Spec

\* What is packed of a file is what the file was at one moment, for any number of files,
\* blocks, sessions and edits (readStableRootFile, deterministicZip).
THEOREM FilesWholeHolds == D!Spec => []FilesWhole
  BY DeploymentInvariance, PTL DEF DeploymentInv, ReadInv

\* A registration that reported success is of exactly the closure this session packed, for
\* good (CreateWithReconciliation).
THEOREM ClosureConfirmedHolds == D!Spec => []ClosureConfirmed
  BY DeploymentInvariance, PTL DEF DeploymentInv, RegisterInv
-----------------------------------------------------------------------------
(* Changesets.                                                             *)

Targets == Instances \cup {None, Login}
Rows ==
  [target : Targets, state : {"open", "staged", "validated", "activated", "aborted"},
   validation : {"valid", "invalid", None}, sha : {Commit, None}]

ChangesetTypes ==
  /\ remote \in [Changesets -> Rows \cup {B!Absent}] /\ record \in [Changesets -> Rows \cup {B!Absent}]
  /\ bpc \in [Commands -> {"off", "begun", "aborting", "read", "called", "done", "failed", "lost"}]
  /\ act \in [Commands -> B!Actions \cup {"begin", None}] /\ cs \in [Commands -> Changesets \cup {None}]
  /\ flag \in [Commands -> Targets] /\ copy \in [Commands -> Rows \cup {B!Absent}]
  /\ alone \in [Commands -> BOOLEAN]

\* A begin between its call and its save.
Beginning(k) == bpc[k] \in {"begun", "aborting"}

\* What a command at work knows: its changeset is there, and has a record unless this
\* is its begin.
AtWork(k) ==
  /\ Beginning(k) \/ B!Running(k) => cs[k] \in Changesets /\ copy[k] \in Rows /\ remote[cs[k]] \in Rows
  /\ Beginning(k) => record[cs[k]] = B!Absent /\ act[k] = "begin"
  /\ B!Running(k) => record[cs[k]] \in Rows /\ act[k] \in B!Actions

\* A record has its changeset, and a changeset one begin.
Recorded ==
  /\ \A c \in Changesets : record[c] \in Rows => remote[c] \in Rows
  /\ \A j, k \in Commands : Beginning(j) /\ Beginning(k) /\ cs[j] = cs[k] => j = k

\* A command that shares its changeset is not alone, and one that is alone has
\* understood what Bifrost answered.
Solitary ==
  \A j, k \in Commands : B!Running(j) /\ B!Running(k) /\ cs[j] = cs[k] /\ j # k => ~alone[j]
Truthful(k) ==
  bpc[k] = "called" /\ alone[k] =>
    /\ copy[k].state = remote[cs[k]].state
    /\ act[k] \in {"show", "commit", "abort"} => copy[k].sha = remote[cs[k]].sha

ChangesetInv ==
  /\ ChangesetTypes /\ (\A k \in Commands : AtWork(k)) /\ Recorded
  /\ Solitary /\ (\A k \in Commands : Truthful(k)) /\ B!OrphanExplained

\* A row is not the mark of an absent one.
LEMMA RowPresent == B!Absent \notin Rows /\ \A r \in Rows : r.state # "absent" /\ r # B!Absent
  BY DEF Rows, B!Absent

\* What an answer makes of a record is a record, with the state Bifrost has.
LEMMA AnswerTrue ==
  ASSUME NEW a \in B!Actions, NEW row \in Rows, NEW old \in Rows, NEW r \in B!Outcomes(a, old)
  PROVE  /\ r \in Rows /\ B!Answered(a, row, r) \in Rows
         /\ B!Answered(a, row, r).state = r.state
         /\ a \in {"show", "commit", "abort"} => B!Answered(a, row, r).sha = r.sha
<1>1. CASE a = "show"
  <2>1. r = old
    BY <1>1 DEF B!Outcomes
  <2>2. B!Answered(a, row, r) = [row EXCEPT !.state = r.state, !.validation = r.validation, !.sha = r.sha]
    BY <1>1 DEF B!Answered
  <2>3. QED
    BY <1>1, <2>1, <2>2 DEF Rows
<1>2. CASE a = "write"
  <2>1. r = B!Changeset(old.target, "staged", None, None)
    BY <1>2 DEF B!Outcomes
  <2>2. B!Answered(a, row, r) = [row EXCEPT !.state = r.state]
    BY <1>2 DEF B!Answered, B!Stage
  <2>3. QED
    BY <1>2, <2>1, <2>2 DEF Rows, B!Changeset
<1>3. CASE a = "validate"
  <2>1. r \in {B!Changeset(old.target, "validated", "valid", None), B!Changeset(old.target, "staged", "invalid", None)}
    BY <1>3 DEF B!Outcomes
  <2>2. B!Answered(a, row, r) = [row EXCEPT !.state = IF r.validation = "valid" THEN "validated" ELSE "staged",
                                            !.validation = r.validation]
    BY <1>3 DEF B!Answered
  <2>3. CASE r = B!Changeset(old.target, "validated", "valid", None)
    <3>1. r.validation = "valid" /\ r.state = "validated" /\ r \in Rows
      BY <2>3 DEF Rows, B!Changeset
    <3>2. B!Answered(a, row, r) = [row EXCEPT !.state = "validated", !.validation = "valid"]
      BY <2>2, <3>1
    <3>3. QED
      BY <1>3, <3>1, <3>2 DEF Rows
  <2>4. CASE r = B!Changeset(old.target, "staged", "invalid", None)
    <3>1. r.validation = "invalid" /\ r.state = "staged" /\ r \in Rows
      BY <2>4 DEF Rows, B!Changeset
    <3>2. B!Answered(a, row, r) = [row EXCEPT !.state = "staged", !.validation = "invalid"]
      BY <2>2, <3>1
    <3>3. QED
      BY <1>3, <3>1, <3>2 DEF Rows
  <2>5. QED
    BY <2>1, <2>3, <2>4
<1>4. CASE a = "commit"
  <2>1. r = B!Changeset(old.target, "activated", old.validation, Commit)
    BY <1>4 DEF B!Outcomes
  <2>2. B!Answered(a, row, r) = [row EXCEPT !.state = r.state, !.validation = r.validation, !.sha = r.sha]
    BY <1>4 DEF B!Answered
  <2>3. QED
    BY <1>4, <2>1, <2>2 DEF Rows, B!Changeset
<1>5. CASE a = "abort"
  <2>1. r = B!Changeset(old.target, "aborted", old.validation, None)
    BY <1>5 DEF B!Outcomes
  <2>2. B!Answered(a, row, r) = [row EXCEPT !.state = r.state, !.validation = r.validation, !.sha = r.sha]
    BY <1>5 DEF B!Answered
  <2>3. QED
    BY <1>5, <2>1, <2>2 DEF Rows, B!Changeset
<1>6. QED
  BY <1>1, <1>2, <1>3, <1>4, <1>5 DEF B!Actions

\* The initial state.
LEMMA ChangesetInit == B!Init => ChangesetInv
<1>1. SUFFICES ASSUME B!Init PROVE ChangesetInv
  OBVIOUS
<1>2. ChangesetTypes
  BY <1>1 DEF B!Init, ChangesetTypes, Targets
<1>3. \A k \in Commands : ~Beginning(k) /\ ~B!Running(k) /\ bpc[k] # "called"
  BY <1>1 DEF B!Init, Beginning, B!Running
<1>4. \A c \in Changesets : record[c] = B!Absent /\ remote[c] = B!Absent
  BY <1>1 DEF B!Init
<1>5. QED
  BY <1>2, <1>3, <1>4, RowPresent DEF ChangesetInv, AtWork, Recorded, Solitary, Truthful, B!OrphanExplained

\* A command that only moves to its end, or to its save or its abort, changes nothing else.
LEMMA Settles ==
  ASSUME ChangesetInv, NEW k \in Commands, NEW p \in {"aborting", "failed", "lost"},
         bpc' = [bpc EXCEPT ![k] = p], UNCHANGED <<remote, record, act, cs, flag, copy, alone>>,
         p = "aborting" => bpc[k] = "begun", p = "failed" => ~Beginning(k), bpc[k] # "lost"
  PROVE  ChangesetInv'
<1>1. bpc'[k] = p /\ \A j \in Commands : j # k => bpc'[j] = bpc[j]
  BY DEF ChangesetInv, ChangesetTypes
<1>2. \A j \in Commands : /\ Beginning(j)' => Beginning(j)
                          /\ B!Running(j)' => B!Running(j)
                          /\ bpc'[j] = "called" => bpc[j] = "called"
                          /\ bpc[j] \in {"begun", "aborting", "lost"} => bpc'[j] \in {"begun", "aborting", "lost"}
  BY <1>1 DEF Beginning, B!Running
<1>3. ChangesetTypes'
  BY DEF ChangesetInv, ChangesetTypes
<1>4. \A j \in Commands : AtWork(j)' /\ Truthful(j)'
  BY <1>2 DEF ChangesetInv, AtWork, Truthful
<1>5. Recorded' /\ Solitary'
  BY <1>2 DEF ChangesetInv, Recorded, Solitary
<1>6. (B!OrphanExplained)'
  BY <1>2 DEF ChangesetInv, B!OrphanExplained
<1>7. QED
  BY <1>3, <1>4, <1>5, <1>6 DEF ChangesetInv

\* Begin: the changeset was not there, so nobody works on it.
LEMMA BeginKeeps ==
  ASSUME ChangesetInv, NEW k \in Commands, B!Begin(k)
  PROVE  ChangesetInv'
<1>0. ChangesetTypes /\ (\A j \in Commands : AtWork(j)) /\ Recorded /\ Solitary
      /\ (\A j \in Commands : Truthful(j)) /\ B!OrphanExplained
  BY DEF ChangesetInv
<1>1. PICK c \in Changesets, t \in Instances \cup {None} :
        /\ remote[c] = B!Absent
        /\ remote' = [remote EXCEPT ![c] = B!Changeset(B!At(t), "open", None, None)]
        /\ cs' = [cs EXCEPT ![k] = c] /\ flag' = [flag EXCEPT ![k] = t]
        /\ copy' = [copy EXCEPT ![k] = B!Changeset(t, "open", None, None)]
  BY DEF B!Begin
<1>2. PICK p \in {"begun", "lost"} : bpc' = [bpc EXCEPT ![k] = p]
  BY DEF B!Begin, B!To
<1>3. /\ bpc[k] = "off" /\ act' = [act EXCEPT ![k] = "begin"] /\ UNCHANGED <<record, alone>>
  BY DEF B!Begin
<1>4. B!Changeset(B!At(t), "open", None, None) \in Rows /\ B!Changeset(t, "open", None, None) \in Rows
  BY DEF B!Changeset, B!At, Rows, Targets
<1>5. ChangesetTypes'
  BY <1>0, <1>1, <1>2, <1>3, <1>4 DEF ChangesetTypes, Targets
<1>6. /\ bpc'[k] = p /\ cs'[k] = c /\ copy'[k] \in Rows /\ act'[k] = "begin" /\ remote'[c] \in Rows
      /\ \A j \in Commands \ {k} : bpc'[j] = bpc[j] /\ cs'[j] = cs[j] /\ copy'[j] = copy[j] /\ act'[j] = act[j]
      /\ \A d \in Changesets \ {c} : remote'[d] = remote[d]
  BY <1>0, <1>1, <1>2, <1>3, <1>4 DEF ChangesetTypes
<1>7. remote[c] \notin Rows /\ record[c] = B!Absent
  BY <1>0, <1>1, RowPresent DEF Recorded, ChangesetTypes
<1>8. \A j \in Commands \ {k} : /\ (Beginning(j)' <=> Beginning(j)) /\ (B!Running(j)' <=> B!Running(j))
                                /\ Beginning(j) \/ B!Running(j) => cs[j] # c
  BY <1>0, <1>6, <1>7 DEF AtWork, Beginning, B!Running
<1>9. ~B!Running(k)' /\ bpc'[k] # "called"
  BY <1>2, <1>6 DEF B!Running
<1>10. \A j \in Commands : AtWork(j)' /\ Truthful(j)'
  <2>1. AtWork(k)' /\ Truthful(k)'
    BY <1>3, <1>6, <1>7, <1>9 DEF AtWork, Truthful
  <2>2. ASSUME NEW j \in Commands \ {k} PROVE AtWork(j)' /\ Truthful(j)'
    <3>1. AtWork(j) /\ Truthful(j) /\ bpc'[j] = bpc[j] /\ cs'[j] = cs[j] /\ copy'[j] = copy[j] /\ act'[j] = act[j]
      BY <1>0, <1>6
    <3>2. Beginning(j) \/ B!Running(j) => cs[j] \in Changesets \ {c} /\ remote'[cs[j]] = remote[cs[j]]
      BY <1>6, <1>8, <3>1 DEF AtWork, Beginning, B!Running
    <3>3. AtWork(j)'
      BY <1>3, <3>1, <3>2 DEF AtWork, Beginning, B!Running
    <3>4. Truthful(j)'
      BY <1>3, <3>1, <3>2 DEF Truthful, B!Running
    <3>5. QED
      BY <3>3, <3>4
  <2>3. QED
    BY <2>1, <2>2
<1>11. Recorded' /\ Solitary'
  <2>1. \A d \in Changesets : record'[d] \in Rows => remote'[d] \in Rows
    BY <1>0, <1>3, <1>6 DEF Recorded
  <2>2. ASSUME NEW i \in Commands, NEW j \in Commands, Beginning(i)', Beginning(j)', cs'[i] = cs'[j] PROVE i = j
    BY <1>0, <1>6, <1>8, <2>2 DEF Recorded, Beginning, B!Running
  <2>3. ASSUME NEW i \in Commands, NEW j \in Commands, B!Running(i)', B!Running(j)', cs'[i] = cs'[j], i # j
        PROVE  ~alone'[i]
    BY <1>0, <1>3, <1>6, <1>8, <1>9, <2>3 DEF Solitary, B!Running
  <2>4. QED
    BY <2>1, <2>2, <2>3 DEF Recorded, Solitary
<1>12. (B!OrphanExplained)'
  BY <1>0, <1>2, <1>3, <1>6 DEF B!OrphanExplained
<1>13. QED
  BY <1>5, <1>10, <1>11, <1>12 DEF ChangesetInv

\* SaveBegun: the record comes to be, or the changeset is to be aborted.
LEMMA SaveBegunKeeps ==
  ASSUME ChangesetInv, NEW k \in Commands, B!SaveBegun(k)
  PROVE  ChangesetInv'
<1>0. ChangesetTypes /\ (\A j \in Commands : AtWork(j)) /\ Recorded /\ Solitary
      /\ (\A j \in Commands : Truthful(j)) /\ B!OrphanExplained
  BY DEF ChangesetInv
<1>1. bpc[k] = "begun" /\ UNCHANGED <<remote, act, cs, flag, copy, alone>>
  BY DEF B!SaveBegun
<1>2. CASE B!MustAbort(k) /\ UNCHANGED record
  BY <1>1, <1>2, Settles DEF B!MustAbort, B!To, Beginning
<1>3. CASE B!SaveBifrostChangeset(k) /\ B!To(k, "done")
  <2>1. cs[k] \in Changesets /\ copy[k] \in Rows /\ remote[cs[k]] \in Rows
    BY <1>0, <1>1 DEF AtWork, Beginning
  <2>2. /\ record'[cs[k]] = copy[k] /\ \A c \in Changesets : c # cs[k] => record'[c] = record[c]
        /\ bpc'[k] = "done" /\ \A j \in Commands : j # k => bpc'[j] = bpc[j]
    BY <1>0, <1>3, <2>1 DEF ChangesetTypes, B!SaveBifrostChangeset, B!To
  <2>3. ChangesetTypes'
    BY <1>0, <1>1, <1>3, <2>1 DEF ChangesetTypes, B!SaveBifrostChangeset, B!To
  <2>4. ASSUME NEW j \in Commands PROVE AtWork(j)' /\ Truthful(j)'
    <3>1. CASE j = k
      BY <2>2, <3>1 DEF AtWork, Truthful, Beginning, B!Running
    <3>2. CASE j # k
      <4>1. Beginning(j) => cs[j] # cs[k]
        BY <1>0, <1>1, <3>2 DEF Recorded, Beginning
      <4>2. AtWork(j)'
        BY <1>0, <1>1, <2>1, <2>2, <3>2, <4>1 DEF AtWork, Beginning, B!Running
      <4>3. Truthful(j)'
        BY <1>0, <1>1, <2>2, <3>2 DEF Truthful
      <4>4. QED
        BY <4>2, <4>3
    <3>3. QED
      BY <3>1, <3>2
  <2>5. Recorded'
    BY <1>0, <1>1, <2>1, <2>2 DEF Recorded, Beginning
  <2>6. Solitary'
    BY <1>0, <1>1, <2>2 DEF Solitary, B!Running
  <2>7. (B!OrphanExplained)'
    <3>1. SUFFICES ASSUME NEW c \in Changesets, remote[c] # B!Absent, remote[c].state \notin B!Final,
                          record'[c] = B!Absent
                   PROVE  \E j \in Commands : act[j] = "begin" /\ cs[j] = c /\ bpc'[j] \in {"begun", "aborting", "lost"}
      BY <1>1 DEF B!OrphanExplained
    <3>2. c # cs[k]
      BY <2>1, <2>2, <3>1, RowPresent
    <3>3. PICK j \in Commands : act[j] = "begin" /\ cs[j] = c /\ bpc[j] \in {"begun", "aborting", "lost"}
      BY <1>0, <2>2, <3>1, <3>2 DEF B!OrphanExplained
    <3>4. QED
      BY <2>2, <3>2, <3>3
  <2>8. QED
    BY <2>3, <2>4, <2>5, <2>6, <2>7 DEF ChangesetInv
<1>4. QED
  BY <1>2, <1>3 DEF B!SaveBegun

\* CompensatingAbort: nobody works on a changeset that has no record.
LEMMA AbortKeeps ==
  ASSUME ChangesetInv, NEW k \in Commands, B!CompensatingAbort(k)
  PROVE  ChangesetInv'
<1>0. ChangesetTypes /\ (\A j \in Commands : AtWork(j)) /\ Recorded /\ Solitary
      /\ (\A j \in Commands : Truthful(j)) /\ B!OrphanExplained
  BY DEF ChangesetInv
<1>1. bpc[k] = "aborting" /\ UNCHANGED <<record, act, cs, flag, copy, alone>>
  BY DEF B!CompensatingAbort
<1>2. CASE B!To(k, "lost") /\ UNCHANGED remote
  BY <1>1, <1>2, Settles DEF B!To, Beginning
<1>3. CASE /\ remote' = [remote EXCEPT ![cs[k]].state = "aborted"]
           /\ B!To(k, "failed") \/ B!To(k, "lost")
  <2>1. cs[k] \in Changesets /\ remote[cs[k]] \in Rows /\ record[cs[k]] = B!Absent
    BY <1>0, <1>1 DEF AtWork, Beginning
  <2>2. PICK p \in {"failed", "lost"} : bpc' = [bpc EXCEPT ![k] = p]
    BY <1>3 DEF B!To
  <2>3. /\ remote'[cs[k]] = [remote[cs[k]] EXCEPT !.state = "aborted"]
        /\ \A c \in Changesets : c # cs[k] => remote'[c] = remote[c]
        /\ bpc'[k] = p /\ \A j \in Commands : j # k => bpc'[j] = bpc[j]
    BY <1>0, <1>3, <2>1, <2>2 DEF ChangesetTypes
  <2>4. remote'[cs[k]] \in Rows /\ remote'[cs[k]].state = "aborted"
    BY <2>1, <2>3 DEF Rows
  <2>5. ChangesetTypes'
    <3>1. remote' \in [Changesets -> Rows \cup {B!Absent}]
      BY <1>0, <1>3, <2>1, <2>3, <2>4 DEF ChangesetTypes
    <3>2. QED
      BY <1>0, <1>1, <2>2, <3>1 DEF ChangesetTypes
  <2>6. ASSUME NEW j \in Commands PROVE AtWork(j)' /\ Truthful(j)'
    <3>1. CASE j = k
      BY <2>2, <2>3, <3>1 DEF AtWork, Truthful, Beginning, B!Running
    <3>2. CASE j # k
      <4>1. Beginning(j) \/ B!Running(j) => cs[j] \in Changesets /\ cs[j] # cs[k]
        BY <1>0, <1>1, <2>1, <3>2, RowPresent DEF Recorded, AtWork, Beginning, B!Running
      <4>2. AtWork(j)'
        BY <1>0, <1>1, <2>3, <3>2, <4>1 DEF AtWork, Beginning, B!Running
      <4>3. Truthful(j)'
        BY <1>0, <1>1, <2>3, <3>2, <4>1 DEF Truthful, B!Running
      <4>4. QED
        BY <4>2, <4>3
    <3>3. QED
      BY <3>1, <3>2
  <2>7. Recorded'
    BY <1>0, <1>1, <2>1, <2>2, <2>3, <2>4 DEF Recorded, Beginning
  <2>8. Solitary'
    BY <1>0, <1>1, <2>2, <2>3 DEF Solitary, B!Running
  <2>9. (B!OrphanExplained)'
    <3>1. SUFFICES ASSUME NEW c \in Changesets, remote'[c] # B!Absent, remote'[c].state \notin B!Final,
                          record[c] = B!Absent
                   PROVE  \E j \in Commands : act[j] = "begin" /\ cs[j] = c /\ bpc'[j] \in {"begun", "aborting", "lost"}
      BY <1>1 DEF B!OrphanExplained
    <3>2. c # cs[k]
      BY <2>4, <3>1 DEF B!Final
    <3>3. PICK j \in Commands : act[j] = "begin" /\ cs[j] = c /\ bpc[j] \in {"begun", "aborting", "lost"}
      BY <1>0, <2>3, <3>1, <3>2 DEF B!OrphanExplained
    <3>4. QED
      BY <2>3, <3>2, <3>3
  <2>10. QED
    BY <2>5, <2>6, <2>7, <2>8, <2>9 DEF ChangesetInv
<1>4. QED
  BY <1>2, <1>3 DEF B!CompensatingAbort

\* Read: whoever comes to a changeset takes the others' solitude, and its own.
LEMMA ReadRecordKeeps ==
  ASSUME ChangesetInv, NEW k \in Commands, NEW a \in B!Actions, NEW c \in Changesets,
         NEW t \in Instances \cup {None}, B!Read(k, a, c, t)
  PROVE  ChangesetInv'
<1>0. ChangesetTypes /\ (\A j \in Commands : AtWork(j)) /\ Recorded /\ Solitary
      /\ (\A j \in Commands : Truthful(j)) /\ B!OrphanExplained
  BY DEF ChangesetInv
<1> DEFINE mismatch == B!Mismatch(record[c], t)
           others == {j \in Commands : B!Running(j) /\ cs[j] = c}
<1>1. /\ bpc[k] = "off" /\ record[c] # B!Absent /\ UNCHANGED <<remote, record>>
      /\ act' = [act EXCEPT ![k] = a] /\ cs' = [cs EXCEPT ![k] = c]
      /\ flag' = [flag EXCEPT ![k] = B!selectRecordedTarget(record[c], t)]
      /\ copy' = [copy EXCEPT ![k] = record[c]]
  BY DEF B!Read, B!GetBifrostChangeset
<1>2. bpc' = [bpc EXCEPT ![k] = IF mismatch THEN "failed" ELSE "read"]
  BY DEF B!Read, B!To, B!GetBifrostChangeset
<1>3. alone' = [j \in Commands |-> IF j = k THEN others = {} ELSE alone[j] /\ (j \notin others \/ mismatch)]
  BY DEF B!Read, B!GetBifrostChangeset
<1>4. record[c] \in Rows /\ remote[c] \in Rows
  BY <1>0, <1>1 DEF ChangesetTypes, Recorded
<1>5. ChangesetTypes'
  <2>1. B!selectRecordedTarget(record[c], t) \in Targets
    BY <1>4 DEF B!selectRecordedTarget, Rows, Targets
  <2>2. alone' \in [Commands -> BOOLEAN]
    BY <1>3, Zenon
  <2>3. QED
    BY <1>0, <1>1, <1>2, <1>4, <2>1, <2>2 DEF ChangesetTypes
<1>6. PICK p \in {"failed", "read"} : bpc'[k] = p /\ (p = "read" => ~mismatch)
  BY <1>0, <1>2 DEF ChangesetTypes
<1>7. /\ cs'[k] = c /\ copy'[k] = record[c] /\ act'[k] = a
      /\ \A j \in Commands : j # k => bpc'[j] = bpc[j] /\ cs'[j] = cs[j] /\ copy'[j] = copy[j] /\ act'[j] = act[j]
  BY <1>0, <1>1, <1>2 DEF ChangesetTypes
<1>8. ASSUME NEW j \in Commands, j # k, alone'[j]
      PROVE  alone[j] /\ (j \notin others \/ mismatch)
  BY <1>3, <1>8, Zenon
<1>9. alone'[k] => others = {}
  BY <1>3, Zenon
<1>10. ASSUME NEW j \in Commands PROVE AtWork(j)' /\ Truthful(j)'
  <2>1. CASE j = k
    BY <1>1, <1>4, <1>6, <1>7, <2>1 DEF AtWork, Truthful, Beginning, B!Running
  <2>2. CASE j # k
    <3>1. AtWork(j)'
      BY <1>0, <1>1, <1>7, <2>2 DEF AtWork, Beginning, B!Running
    <3>2. Truthful(j)'
      BY <1>0, <1>1, <1>7, <1>8, <2>2 DEF Truthful
    <3>3. QED
      BY <3>1, <3>2
  <2>3. QED
    BY <2>1, <2>2
<1>11. Recorded'
  BY <1>0, <1>1, <1>6, <1>7 DEF Recorded, Beginning
<1>12. Solitary'
  <2>1. SUFFICES ASSUME NEW i \in Commands, NEW j \in Commands, B!Running(i)', B!Running(j)', cs'[i] = cs'[j], i # j
                 PROVE  ~alone'[i]
    BY DEF Solitary
  <2>2. CASE i = k
    <3>1. j \in others
      BY <1>7, <2>1, <2>2 DEF B!Running
    <3>2. QED
      BY <1>9, <2>2, <3>1
  <2>3. CASE j = k
    <3>1. i \in others /\ ~mismatch
      BY <1>6, <1>7, <2>1, <2>3 DEF B!Running
    <3>2. QED
      BY <1>8, <2>1, <2>3, <3>1
  <2>4. CASE i # k /\ j # k
    <3>1. ~alone[i]
      BY <1>0, <1>7, <2>1, <2>4 DEF Solitary, B!Running
    <3>2. QED
      BY <1>8, <2>4, <3>1
  <2>5. QED
    BY <2>2, <2>3, <2>4
<1>13. (B!OrphanExplained)'
  BY <1>0, <1>1, <1>7 DEF B!OrphanExplained
<1>14. QED
  BY <1>5, <1>10, <1>11, <1>12, <1>13 DEF ChangesetInv

\* Call: the changeset is one that has a record; a command that hears the answer and
\* was alone knows the state Bifrost has.
LEMMA CallKeeps ==
  ASSUME ChangesetInv, NEW k \in Commands, B!Call(k)
  PROVE  ChangesetInv'
<1>0. ChangesetTypes /\ (\A j \in Commands : AtWork(j)) /\ Recorded /\ Solitary
      /\ (\A j \in Commands : Truthful(j)) /\ B!OrphanExplained
  BY DEF ChangesetInv
<1>1. bpc[k] = "read" /\ UNCHANGED <<record, act, cs, flag, alone>>
  BY DEF B!Call
<1>2. /\ cs[k] \in Changesets /\ copy[k] \in Rows /\ remote[cs[k]] \in Rows
      /\ record[cs[k]] \in Rows /\ act[k] \in B!Actions
  BY <1>0, <1>1 DEF AtWork, B!Running
<1>3. \/ B!To(k, "failed") /\ UNCHANGED <<remote, copy>>
      \/ \E r \in B!Outcomes(act[k], remote[cs[k]]) :
           /\ remote' = [remote EXCEPT ![cs[k]] = r]
           /\ \/ copy' = [copy EXCEPT ![k] = B!Answered(act[k], copy[k], r)] /\ B!To(k, "called")
              \/ UNCHANGED copy /\ B!To(k, "lost")
  BY DEF B!Call
<1>4. CASE B!To(k, "failed") /\ UNCHANGED <<remote, copy>>
  BY <1>1, <1>4, Settles DEF B!To, Beginning
<1>5. ASSUME NEW r \in B!Outcomes(act[k], remote[cs[k]]), remote' = [remote EXCEPT ![cs[k]] = r],
             NEW row \in Rows, copy' = [copy EXCEPT ![k] = row], NEW p \in {"called", "lost"}, B!To(k, p),
             p = "called" => row = B!Answered(act[k], copy[k], r)
      PROVE  ChangesetInv'
  <2>1. /\ r \in Rows
        /\ p = "called" => row.state = r.state /\ (act[k] \in {"show", "commit", "abort"} => row.sha = r.sha)
    BY <1>2, <1>5, AnswerTrue
  <2>2. ChangesetTypes'
    BY <1>0, <1>1, <1>2, <1>5, <2>1 DEF ChangesetTypes, B!To
  <2>3. /\ remote'[cs[k]] = r /\ copy'[k] = row /\ bpc'[k] = p
        /\ \A c \in Changesets : c # cs[k] => remote'[c] = remote[c]
        /\ \A j \in Commands : j # k => bpc'[j] = bpc[j] /\ copy'[j] = copy[j]
    BY <1>0, <1>2, <1>5 DEF ChangesetTypes, B!To
  <2>4. ASSUME NEW j \in Commands PROVE AtWork(j)' /\ Truthful(j)'
    <3>1. CASE j = k
      BY <1>1, <1>2, <2>1, <2>3, <3>1 DEF AtWork, Truthful, Beginning, B!Running
    <3>2. CASE j # k
      <4>1. AtWork(j)'
        BY <1>0, <1>1, <1>2, <2>1, <2>3, <3>2 DEF AtWork, Beginning, B!Running
      <4>2. Truthful(j)'
        <5>1. SUFFICES ASSUME bpc[j] = "called", alone[j]
                       PROVE  remote'[cs[j]] = remote[cs[j]]
          BY <1>0, <1>1, <2>3, <3>2 DEF Truthful
        <5>2. cs[j] \in Changesets /\ cs[j] # cs[k]
          BY <1>0, <1>1, <3>2, <5>1 DEF Solitary, AtWork, B!Running
        <5>3. QED
          BY <2>3, <5>2
      <4>3. QED
        BY <4>1, <4>2
    <3>3. QED
      BY <3>1, <3>2
  <2>5. Recorded'
    BY <1>0, <1>1, <2>1, <2>3 DEF Recorded, Beginning
  <2>6. Solitary'
    BY <1>0, <1>1, <2>3 DEF Solitary, B!Running
  <2>7. (B!OrphanExplained)'
    <3>1. SUFFICES ASSUME NEW c \in Changesets, remote'[c] # B!Absent, remote'[c].state \notin B!Final,
                          record[c] = B!Absent
                   PROVE  \E j \in Commands : act[j] = "begin" /\ cs[j] = c /\ bpc'[j] \in {"begun", "aborting", "lost"}
      BY <1>1 DEF B!OrphanExplained
    <3>2. c # cs[k]
      BY <1>2, <3>1, RowPresent
    <3>3. PICK j \in Commands : act[j] = "begin" /\ cs[j] = c /\ bpc[j] \in {"begun", "aborting", "lost"}
      BY <1>0, <2>3, <3>1, <3>2 DEF B!OrphanExplained
    <3>4. QED
      BY <1>1, <2>3, <3>2, <3>3
  <2>8. QED
    BY <2>2, <2>4, <2>5, <2>6, <2>7 DEF ChangesetInv
<1>6. ASSUME NEW r \in B!Outcomes(act[k], remote[cs[k]]), remote' = [remote EXCEPT ![cs[k]] = r],
             \/ copy' = [copy EXCEPT ![k] = B!Answered(act[k], copy[k], r)] /\ B!To(k, "called")
             \/ UNCHANGED copy /\ B!To(k, "lost")
      PROVE  ChangesetInv'
  <2>1. CASE copy' = [copy EXCEPT ![k] = B!Answered(act[k], copy[k], r)] /\ B!To(k, "called")
    <3>1. B!Answered(act[k], copy[k], r) \in Rows
      BY <1>2, AnswerTrue
    <3>2. QED
      BY <1>5, <1>6, <2>1, <3>1
  <2>2. CASE UNCHANGED copy /\ B!To(k, "lost")
    <3>1. copy' = [copy EXCEPT ![k] = copy[k]]
      BY <1>0, <2>2 DEF ChangesetTypes
    <3>2. QED
      BY <1>2, <1>5, <1>6, <2>2, <3>1
  <2>3. QED
    BY <1>6, <2>1, <2>2
<1>7. QED
  BY <1>3, <1>4, <1>6

\* Save: the record stays one.
LEMMA SaveKeeps ==
  ASSUME ChangesetInv, NEW k \in Commands, B!Save(k)
  PROVE  ChangesetInv'
<1>0. ChangesetTypes /\ (\A j \in Commands : AtWork(j)) /\ Recorded /\ Solitary
      /\ (\A j \in Commands : Truthful(j)) /\ B!OrphanExplained
  BY DEF ChangesetInv
<1>1. bpc[k] = "called" /\ UNCHANGED <<remote, act, cs, flag, copy, alone>>
  BY DEF B!Save
<1>2. CASE B!To(k, "failed") /\ UNCHANGED record
  BY <1>1, <1>2, Settles DEF B!To, Beginning
<1>3. CASE B!SaveBifrostChangeset(k) /\ B!To(k, "done")
  <2>1. cs[k] \in Changesets /\ copy[k] \in Rows /\ remote[cs[k]] \in Rows /\ record[cs[k]] \in Rows
    BY <1>0, <1>1 DEF AtWork, B!Running
  <2>2. /\ record'[cs[k]] = copy[k] /\ \A c \in Changesets : c # cs[k] => record'[c] = record[c]
        /\ bpc'[k] = "done" /\ \A j \in Commands : j # k => bpc'[j] = bpc[j]
    BY <1>0, <1>3, <2>1 DEF ChangesetTypes, B!SaveBifrostChangeset, B!To
  <2>3. ChangesetTypes'
    BY <1>0, <1>1, <1>3, <2>1 DEF ChangesetTypes, B!SaveBifrostChangeset, B!To
  <2>4. \A c \in Changesets : (record'[c] \in Rows <=> record[c] \in Rows) /\ (record'[c] = B!Absent <=> record[c] = B!Absent)
    BY <2>1, <2>2, RowPresent
  <2>5. ASSUME NEW j \in Commands PROVE AtWork(j)' /\ Truthful(j)'
    <3>1. CASE j = k
      BY <2>2, <3>1 DEF AtWork, Truthful, Beginning, B!Running
    <3>2. CASE j # k
      BY <1>0, <1>1, <2>2, <2>4, <3>2 DEF AtWork, Truthful, Beginning, B!Running
    <3>3. QED
      BY <3>1, <3>2
  <2>6. Recorded' /\ Solitary'
    BY <1>0, <1>1, <2>2, <2>4 DEF Recorded, Solitary, Beginning, B!Running
  <2>7. (B!OrphanExplained)'
    BY <1>0, <1>1, <2>2, <2>4 DEF B!OrphanExplained
  <2>8. QED
    BY <2>3, <2>5, <2>6, <2>7 DEF ChangesetInv
<1>4. QED
  BY <1>2, <1>3 DEF B!Save

\* Every step.
LEMMA ChangesetStep == ChangesetInv /\ [B!Next]_B!vars => ChangesetInv'
<1>1. SUFFICES ASSUME ChangesetInv, [B!Next]_B!vars PROVE ChangesetInv'
  OBVIOUS
<1>2. ASSUME NEW k \in Commands, B!End(k) PROVE ChangesetInv'
  BY <1>1, <1>2, Settles DEF B!End, B!To, Beginning
<1>3. CASE UNCHANGED B!vars
  BY <1>1, <1>3 DEF B!vars, B!command, ChangesetInv, ChangesetTypes, AtWork, Recorded, Solitary, Truthful,
                    Beginning, B!Running, B!OrphanExplained
<1>4. QED
  BY <1>1, <1>2, <1>3, BeginKeeps, SaveBegunKeeps, AbortKeeps, CallKeeps, SaveKeeps, ReadRecordKeeps DEF B!Next

\* The inductive invariant of the records of changesets.
THEOREM ChangesetInvariance == B!Spec => []ChangesetInv
  BY ChangesetInit, ChangesetStep, PTL DEF B!Spec

\* A changeset that is open at Bifrost and has no record is explained, for any number of
\* changesets and commands (bifrost.go, Service.Begin).
THEOREM OrphanExplainedHolds == B!Spec => []OrphanExplained
<1>1. ChangesetInv => OrphanExplained
  BY DEF ChangesetInv, OrphanExplained
<1>2. QED
  BY <1>1, ChangesetInvariance, PTL

\* A command that had its changeset to itself leaves the record in the state Bifrost has
\* (bifrost.go, Service.sync).
THEOREM RecordHealsHolds == B!Spec => RecordHeals
<1> DEFINE Heals == \A k \in Commands : bpc[k] = "called" /\ bpc'[k] = "done" /\ alone[k] =>
              /\ record'[cs[k]].state = remote[cs[k]].state
              /\ act[k] \in {"show", "commit", "abort"} => record'[cs[k]].sha = remote[cs[k]].sha
<1>1. ChangesetInv /\ [B!Next]_B!vars => [Heals]_B!vars
  <2>1. SUFFICES ASSUME ChangesetInv, B!Next, NEW k \in Commands, bpc[k] = "called", bpc'[k] = "done", alone[k]
                 PROVE  /\ record'[cs[k]].state = remote[cs[k]].state
                        /\ act[k] \in {"show", "commit", "abort"} => record'[cs[k]].sha = remote[cs[k]].sha
    OBVIOUS
  <2>2. bpc \in [Commands -> {"off", "begun", "aborting", "read", "called", "done", "failed", "lost"}]
    BY <2>1 DEF ChangesetInv, ChangesetTypes
  <2>3. B!Save(k)
    <3>1. ASSUME NEW j \in Commands, NEW p, j # k, bpc' = [bpc EXCEPT ![j] = p] PROVE FALSE
      BY <2>1, <2>2, <3>1
    <3>2. ASSUME NEW p, p # "done", bpc' = [bpc EXCEPT ![k] = p] PROVE FALSE
      BY <2>1, <2>2, <3>2
    <3>3. ASSUME NEW j \in Commands, B!Begin(j) PROVE FALSE
      BY <2>1, <3>1, <3>3 DEF B!Begin, B!To
    <3>4. ASSUME NEW j \in Commands, B!SaveBegun(j) PROVE FALSE
      BY <2>1, <3>1, <3>4 DEF B!SaveBegun, B!MustAbort, B!To
    <3>5. ASSUME NEW j \in Commands, B!CompensatingAbort(j) PROVE FALSE
      BY <2>1, <3>1, <3>5 DEF B!CompensatingAbort, B!To
    <3>6. ASSUME NEW j \in Commands, B!Call(j) PROVE FALSE
      BY <2>1, <3>1, <3>6 DEF B!Call, B!To
    <3>7. ASSUME NEW j \in Commands, B!End(j) PROVE FALSE
      BY <3>1, <3>2, <3>7 DEF B!End, B!To
    <3>8. ASSUME NEW j \in Commands, NEW a, NEW c, NEW t, B!Read(j, a, c, t) PROVE FALSE
      BY <2>1, <3>1, <3>8 DEF B!Read, B!To
    <3>9. ASSUME NEW j \in Commands, B!Save(j), j # k PROVE FALSE
      BY <3>1, <3>9 DEF B!Save, B!To
    <3>10. QED
      BY <2>1, <3>3, <3>4, <3>5, <3>6, <3>7, <3>8, <3>9 DEF B!Next
  <2>4. cs[k] \in Changesets /\ record'[cs[k]] = copy[k]
    <3>1. cs[k] \in Changesets /\ record \in [Changesets -> Rows \cup {B!Absent}]
      BY <2>1 DEF ChangesetInv, ChangesetTypes, AtWork, B!Running
    <3>2. B!SaveBifrostChangeset(k)
      BY <2>1, <2>2, <2>3 DEF B!Save, B!To
    <3>3. QED
      BY <3>1, <3>2 DEF B!SaveBifrostChangeset
  <2>5. QED
    BY <2>1, <2>4 DEF ChangesetInv, Truthful
<1>2. QED
  BY <1>1, ChangesetInvariance, PTL DEF B!Spec, RecordHeals, B!RecordHeals

-----------------------------------------------------------------------------
(* Claims between machines.                                                *)

Published == [status : {"active", "released"}, updated : Nat, external : BOOLEAN]
Copies == [Claims -> Published \cup {None}]

\* Every claim that is stored, published or on its way has a time, and what a pull will
\* look at or import it has fetched.
PullInv ==
  /\ hour \in Nat /\ claim \in [Machines -> Copies] /\ comments \in Seq(Copies)
  /\ fetched \in [Exchanges -> Copies] /\ number \in [Exchanges -> 0 .. Len(comments)]
  /\ ipc \in [Exchanges -> {"off", "listed", "found", "fetched", "done"}]
  /\ place \in [Exchanges -> Machines \cup {None}] /\ force \in [Exchanges -> BOOLEAN]
  /\ todo \in [Exchanges -> SUBSET Claims] /\ intended \in [Exchanges -> SUBSET Claims]
  /\ \A k \in Exchanges : ipc[k] = "fetched" => place[k] \in Machines
  /\ \A k \in Exchanges : ipc[k] = "off" => todo[k] = {} /\ intended[k] = {}
  /\ \A k \in Exchanges : \A c \in todo[k] \cup intended[k] : fetched[k][c] \in Published

\* Nothing is published at first.
LEMMA PullInit == I!Init => PullInv
<1>1. SUFFICES ASSUME I!Init PROVE PullInv
  OBVIOUS
<1>2. I!Nothing \in Copies
  BY DEF I!Nothing, Copies
<1>3. QED
  BY <1>1, <1>2 DEF I!Init, PullInv

\* One claim of one machine is written.
LEMMA Written ==
  ASSUME PullInv, NEW m \in Machines, NEW c, NEW row \in Published
  PROVE  [claim EXCEPT ![m][c] = row] \in [Machines -> Copies]
<1>1. claim \in [Machines -> Copies] /\ claim[m] \in Copies
  BY DEF PullInv
<1>2. [claim[m] EXCEPT ![c] = row] \in Copies
  BY <1>1 DEF Copies
<1>3. QED
  BY <1>1, <1>2

\* Create, updateClaim and the import of the legacy coordinator write claims with a time.
LEMMA LocalKeeps ==
  ASSUME PullInv, NEW m \in Machines, NEW s \in {"active", "released"},
         I!legacyImportCoordinator(m, s) \/ \E c \in Claims : I!updateClaim(m, c, s) \/ I!Create(m, c)
  PROVE  PullInv'
<1>0. hour \in Nat /\ claim \in [Machines -> Copies]
  BY DEF PullInv
<1>1. UNCHANGED <<comments, ipc, place, force, fetched, number, todo, intended>> /\ hour' \in {hour, hour + 1}
  BY DEF I!legacyImportCoordinator, I!updateClaim, I!Create, I!command
<1>2. claim' \in [Machines -> Copies]
  <2>1. CASE I!legacyImportCoordinator(m, s)
    <3>1. I!mapLegacyClaim(s) \in Published
      BY DEF I!mapLegacyClaim, I!Row, Published
    <3>2. QED
      BY <2>1, <3>1, Written DEF I!legacyImportCoordinator
  <2>2. ASSUME NEW c \in Claims, I!updateClaim(m, c, s) PROVE claim' \in [Machines -> Copies]
    <3>1. claim[m][c] \in Published /\ hour' = hour + 1
      BY <1>0, <2>2 DEF I!updateClaim, Copies
    <3>2. [[claim[m][c] EXCEPT !.status = s] EXCEPT !.updated = hour'] \in Published
      <4>1. [claim[m][c] EXCEPT !.status = s] \in Published
        BY <3>1 DEF Published
      <4>2. \A row \in Published : [row EXCEPT !.updated = hour'] \in Published
        BY <1>0, <3>1 DEF Published
      <4>3. QED
        BY <4>1, <4>2
    <3>3. claim' = [claim EXCEPT ![m][c] = [[claim[m][c] EXCEPT !.status = s] EXCEPT !.updated = hour']]
      BY <1>0, <2>2 DEF I!updateClaim, Copies
    <3>4. QED
      BY <3>2, <3>3, Written
  <2>3. ASSUME NEW c \in Claims, I!Create(m, c) PROVE claim' \in [Machines -> Copies]
    <3>1. I!Row("active", hour', FALSE) \in Published
      BY <1>0, <2>3 DEF I!Create, I!Row, Published
    <3>2. QED
      BY <2>3, <3>1, Written DEF I!Create
  <2>4. QED
    BY <2>1, <2>2, <2>3
<1>3. QED
  BY <1>0, <1>1, <1>2 DEF PullInv

\* issue sync publishes what it listed.
LEMMA SyncKeeps ==
  ASSUME PullInv, NEW m \in Machines, NEW k \in Exchanges, I!issueSync(k, m)
  PROVE  PullInv' /\ ~(ipc[k] = "fetched")
<1>0. claim \in [Machines -> Copies] /\ comments \in Seq(Copies) /\ fetched[k] \in Copies /\ number[k] \in 0 .. Len(comments)
  BY DEF PullInv
<1>1. UNCHANGED <<hour, claim, force, todo, intended>>
  BY DEF I!issueSync, I!ListClaims, I!FindMarker, I!upsertIssueMarkerComment
<1>2. CASE I!ListClaims(k, m)
  <2>1. /\ ipc[k] = "off" /\ ipc' = [ipc EXCEPT ![k] = "listed"] /\ place' = [place EXCEPT ![k] = m]
        /\ fetched' = [fetched EXCEPT ![k] = claim[m]] /\ UNCHANGED <<comments, number>>
    BY <1>2 DEF I!ListClaims, I!To
  <2>2. QED
    BY <1>0, <1>1, <2>1 DEF PullInv
<1>3. CASE I!FindMarker(k)
  BY <1>0, <1>1, <1>3 DEF PullInv, I!FindMarker, I!latestMarkerCommentID, I!To
<1>4. CASE I!upsertIssueMarkerComment(k)
  <2>1. comments' \in Seq(Copies) /\ Len(comments') >= Len(comments)
    <3>1. CASE number[k] = 0
      BY <1>0, <1>4, <3>1 DEF I!upsertIssueMarkerComment
    <3>2. CASE number[k] # 0
      <4>1. number[k] \in 1 .. Len(comments) /\ comments' = [comments EXCEPT ![number[k]] = fetched[k]]
        BY <1>0, <1>4, <3>2 DEF I!upsertIssueMarkerComment
      <4>2. QED
        BY <1>0, <4>1, ExceptSeq
    <3>3. QED
      BY <3>1, <3>2
  <2>2. ipc[k] = "found" /\ ipc' = [ipc EXCEPT ![k] = "done"] /\ UNCHANGED <<place, fetched, number>>
    BY <1>4 DEF I!upsertIssueMarkerComment, I!To
  <2>3. number' \in [Exchanges -> 0 .. Len(comments')]
    BY <1>0, <2>1, <2>2 DEF PullInv
  <2>4. QED
    BY <1>1, <2>1, <2>2, <2>3 DEF PullInv
<1>5. QED
  BY <1>2, <1>3, <1>4 DEF I!issueSync

\* issue pull looks at what it fetched and imports what it planned; a claim that was written
\* since with a later time stays.
LEMMA PullKeeps ==
  ASSUME PullInv, NEW m \in Machines, NEW k \in Exchanges, NEW f \in BOOLEAN, I!issuePull(k, m, f)
  PROVE  /\ PullInv'
         /\ ipc[k] = "fetched" /\ ipc'[k] = "done" /\ ~force[k] =>
              \A c \in Claims : claim[place[k]][c] # None => claim'[place[k]][c].updated >= claim[place[k]][c].updated
<1>0. /\ claim \in [Machines -> Copies] /\ comments \in Seq(Copies) /\ fetched \in [Exchanges -> Copies]
      /\ fetched[k] \in Copies /\ todo[k] \subseteq Claims /\ intended[k] \subseteq Claims
      /\ ipc \in [Exchanges -> {"off", "listed", "found", "fetched", "done"}]
  BY DEF PullInv
<1>1. CASE I!Fetch(k, m, f)
  <2>1. /\ ipc[k] = "off" /\ comments # << >> /\ ipc' = [ipc EXCEPT ![k] = "fetched"]
        /\ place' = [place EXCEPT ![k] = m] /\ force' = [force EXCEPT ![k] = f]
        /\ fetched' = [fetched EXCEPT ![k] = comments[Len(comments)]]
        /\ todo' = [todo EXCEPT ![k] = {c \in Claims : comments[Len(comments)][c] # None}]
        /\ UNCHANGED <<hour, claim, comments, number, intended>>
    BY <1>1 DEF I!Fetch, I!latestClaimSnapshot, I!To
  <2>2. comments[Len(comments)] \in Copies
    BY <1>0, <2>1
  <2>3. \A c \in todo'[k] \cup intended'[k] : fetched'[k][c] \in Published
    BY <1>0, <2>1, <2>2 DEF PullInv, Copies
  <2>4. PullInv'
    <3>1. \A q \in Exchanges : \A c \in todo'[q] \cup intended'[q] : fetched'[q][c] \in Published
      BY <2>1, <2>3 DEF PullInv
    <3>2. fetched' \in [Exchanges -> Copies] /\ todo' \in [Exchanges -> SUBSET Claims]
      BY <1>0, <2>1, <2>2 DEF PullInv
    <3>3. QED
      BY <2>1, <3>1, <3>2 DEF PullInv
  <2>5. QED
    BY <2>1, <2>4
<1>2. ASSUME NEW e \in Claims, I!planClaimSnapshotImport(k, e) PROVE PullInv' /\ ipc'[k] # "done"
  <2>1. PICK row : row = I!normalizeImportedClaimWorker(e, fetched[k][e], place[k])
    OBVIOUS
  <2>2. /\ ipc[k] = "fetched" /\ e \in todo[k] /\ fetched' = [fetched EXCEPT ![k][e] = row]
        /\ (intended' = intended \/ intended' = [intended EXCEPT ![k] = @ \cup {e}])
        /\ todo' = [todo EXCEPT ![k] = @ \ {e}]
        /\ UNCHANGED <<hour, claim, comments, ipc, place, force, number>>
    BY <1>2, <2>1 DEF I!planClaimSnapshotImport
  <2>3. fetched[k][e] \in Published
    BY <2>2 DEF PullInv
  <2>4. row \in Published
    <3>1. row = fetched[k][e] \/ row = [fetched[k][e] EXCEPT !.external = TRUE]
      BY <2>1 DEF I!normalizeImportedClaimWorker
    <3>2. [fetched[k][e] EXCEPT !.external = TRUE] \in Published
      BY <2>3 DEF Published
    <3>3. QED
      BY <2>3, <3>1, <3>2
  <2>5. /\ fetched' \in [Exchanges -> Copies] /\ fetched'[k][e] = row /\ \A c \in Claims : c # e => fetched'[k][c] = fetched[k][c]
        /\ \A q \in Exchanges : q # k => fetched'[q] = fetched[q]
    BY <1>0, <2>2, <2>4 DEF Copies
  <2>6. /\ \A q \in Exchanges : q # k => todo'[q] = todo[q] /\ intended'[q] = intended[q]
        /\ todo'[k] \subseteq todo[k] /\ intended'[k] \subseteq intended[k] \cup {e}
        /\ todo' \in [Exchanges -> SUBSET Claims] /\ intended' \in [Exchanges -> SUBSET Claims]
    <3>1. todo \in [Exchanges -> SUBSET Claims] /\ intended \in [Exchanges -> SUBSET Claims]
      BY DEF PullInv
    <3>2. /\ \A q \in Exchanges : todo'[q] = IF q = k THEN todo[k] \ {e} ELSE todo[q]
          /\ todo' \in [Exchanges -> SUBSET Claims]
      BY <2>2, <3>1
    <3>3. /\ \A q \in Exchanges : q # k => intended'[q] = intended[q]
          /\ intended'[k] = intended[k] \/ intended'[k] = intended[k] \cup {e}
          /\ intended' \in [Exchanges -> SUBSET Claims]
      BY <2>2, <3>1
    <3>4. QED
      BY <3>2, <3>3
  <2>7. \A q \in Exchanges : \A c \in todo'[q] \cup intended'[q] : fetched'[q][c] \in Published
    <3>1. \A c \in todo'[k] \cup intended'[k] : fetched'[k][c] \in Published
      BY <1>0, <2>4, <2>5, <2>6 DEF PullInv
    <3>2. QED
      BY <2>5, <2>6, <3>1 DEF PullInv
  <2>8. QED
    BY <2>2, <2>5, <2>6, <2>7 DEF PullInv
<1>3. CASE I!applyClaimImportPlan(k)
  <2>1. /\ ipc[k] = "fetched" /\ ipc' = [ipc EXCEPT ![k] = "done"]
        /\ UNCHANGED <<hour, comments, place, force, fetched, number, todo, intended>>
    BY <1>3 DEF I!applyClaimImportPlan, I!To
  <2>2. place[k] \in Machines
    BY <2>1 DEF PullInv
  <2>3. PICK n \in Machines : n = place[k]
    BY <2>2
  <2>4. CASE UNCHANGED claim
    <3>1. \A c \in Claims : claim[n][c] # None => claim[n][c].updated \in Nat
      BY <1>0 DEF Copies, Published
    <3>2. PullInv'
      BY <2>1, <2>4 DEF PullInv
    <3>3. QED
      BY <2>3, <2>4, <3>1, <3>2
  <2>5. CASE I!ImportClaims(k)
    <3>1. claim' = [claim EXCEPT ![n] = [c \in Claims |->
             IF c \in intended[k] /\ I!Imports(k, c) THEN fetched[k][c] ELSE claim[n][c]]]
      BY <2>3, <2>5 DEF I!ImportClaims
    <3>2. ASSUME NEW c \in Claims
          PROVE  claim'[n][c] = IF c \in intended[k] /\ I!Imports(k, c) THEN fetched[k][c] ELSE claim[n][c]
      BY <1>0, <3>1
    <3>3. claim' \in [Machines -> Copies]
      <4>1. [c \in Claims |-> IF c \in intended[k] /\ I!Imports(k, c) THEN fetched[k][c] ELSE claim[n][c]] \in Copies
        BY <1>0 DEF Copies
      <4>2. QED
        BY <1>0, <3>1, <4>1
    <3>4. PullInv'
      BY <2>1, <3>3 DEF PullInv
    <3>5. ASSUME ~force[k], NEW c \in Claims, claim[n][c] # None PROVE claim'[n][c].updated >= claim[n][c].updated
      <4>1. claim[n][c] \in Published /\ claim[n][c].updated \in Nat
        BY <1>0, <3>5 DEF Copies, Published
      <4>2. CASE c \in intended[k] /\ I!Imports(k, c)
        <5>1. fetched[k][c] \in Published /\ fetched[k][c].updated \in Nat
          BY <4>2 DEF PullInv, Published
        <5>2. ~(claim[n][c].updated > fetched[k][c].updated)
          BY <2>3, <3>5, <4>2 DEF I!Imports, I!Newer
        <5>3. QED
          BY <3>2, <4>1, <4>2, <5>1, <5>2
      <4>3. CASE ~(c \in intended[k] /\ I!Imports(k, c))
        BY <3>2, <4>1, <4>3
      <4>4. QED
        BY <4>2, <4>3
    <3>6. QED
      BY <2>3, <3>4, <3>5
  <2>6. QED
    BY <1>3, <2>4, <2>5 DEF I!applyClaimImportPlan
<1>4. QED
  BY <1>1, <1>2, <1>3 DEF I!issuePull

\* Only the pull itself ends it, and its last step keeps what is newer.
LEMMA PullStep ==
  ASSUME PullInv, [I!Next]_I!vars
  PROVE  /\ PullInv'
         /\ \A k \in Exchanges : ipc[k] = "fetched" /\ ipc'[k] = "done" /\ ~force[k] =>
              \A c \in Claims : claim[place[k]][c] # None => claim'[place[k]][c].updated >= claim[place[k]][c].updated
<1>0. ipc \in [Exchanges -> {"off", "listed", "found", "fetched", "done"}]
  BY DEF PullInv
<1>1. CASE UNCHANGED I!vars
  BY <1>1 DEF I!vars, I!command, PullInv
<1>2. ASSUME NEW m \in Machines, NEW s \in {"active", "released"},
             I!legacyImportCoordinator(m, s) \/ \E c \in Claims : I!updateClaim(m, c, s) \/ I!Create(m, c)
      PROVE  PullInv' /\ ipc' = ipc
  <2>1. PullInv'
    BY <1>2, LocalKeeps
  <2>2. ipc' = ipc
    BY <1>2 DEF I!legacyImportCoordinator, I!updateClaim, I!Create, I!command
  <2>3. QED
    BY <2>1, <2>2
<1>3. ASSUME NEW m \in Machines, NEW k \in Exchanges, I!issueSync(k, m)
      PROVE  PullInv' /\ ipc[k] # "fetched" /\ \A q \in Exchanges : q # k => ipc'[q] = ipc[q]
  <2>1. PullInv' /\ ipc[k] # "fetched"
    BY <1>3, SyncKeeps
  <2>2. \A q \in Exchanges : q # k => ipc'[q] = ipc[q]
    BY <1>0, <1>3 DEF I!issueSync, I!ListClaims, I!FindMarker, I!upsertIssueMarkerComment, I!To
  <2>3. QED
    BY <2>1, <2>2
<1>4. ASSUME NEW m \in Machines, NEW k \in Exchanges, NEW f \in BOOLEAN, I!issuePull(k, m, f)
      PROVE  \A q \in Exchanges : q # k => ipc'[q] = ipc[q]
  BY <1>0, <1>4 DEF I!issuePull, I!Fetch, I!applyClaimImportPlan, I!planClaimSnapshotImport, I!To
<1>5. CASE \E m \in Machines : \E s \in {"active", "released"} :
             I!legacyImportCoordinator(m, s) \/ \E c \in Claims : I!updateClaim(m, c, s) \/ I!Create(m, c)
  BY <1>2, <1>5
<1>6. CASE \E m \in Machines, k \in Exchanges : I!issueSync(k, m)
  BY <1>3, <1>6
<1>7. CASE \E m \in Machines, k \in Exchanges, f \in BOOLEAN : I!issuePull(k, m, f)
  <2>1. PICK m \in Machines, k \in Exchanges, f \in BOOLEAN : I!issuePull(k, m, f)
    BY <1>7
  <2>2. /\ PullInv'
        /\ ipc[k] = "fetched" /\ ipc'[k] = "done" /\ ~force[k] =>
             \A c \in Claims : claim[place[k]][c] # None => claim'[place[k]][c].updated >= claim[place[k]][c].updated
    BY <2>1, PullKeeps
  <2>3. \A q \in Exchanges : q # k => ipc'[q] = ipc[q]
    BY <1>4, <2>1
  <2>4. QED
    BY <2>2, <2>3
<1>8. QED
  BY <1>1, <1>5, <1>6, <1>7 DEF I!Next

\* A pull without --force never puts an older claim in the place of a newer one, for any
\* number of machines, claims, syncs and pulls.
\* (cmd/cs/issue.go, applyClaimImportPlan; internal/store, ImportClaims)
THEOREM PullKeepsNewerHolds == I!Spec => PullKeepsNewer
<1>1. PullInv /\ [I!Next]_I!vars =>
        PullInv' /\ [\A k \in Exchanges : ipc[k] = "fetched" /\ ipc'[k] = "done" /\ ~force[k] =>
                       \A c \in Claims : claim[place[k]][c] # None =>
                         claim'[place[k]][c].updated >= claim[place[k]][c].updated]_I!vars
  BY PullStep
<1>2. QED
  BY <1>1, PullInit, PTL DEF I!Spec, PullKeepsNewer, I!PullKeepsNewer
=============================================================================
