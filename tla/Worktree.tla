------------------------------ MODULE Worktree ------------------------------
(***************************************************************************)
(* Git.Create: a managed worktree is made or reused under a lock file per  *)
(* branch that names the process holding it.  A lock whose process is gone *)
(* is removed; one that cannot be read, because it is being written, is    *)
(* removed when it is 30 s old.  A process may be killed at any point or   *)
(* be held up for longer than that.  Git and the file system are external. *)
(***************************************************************************)
EXTENDS Naturals

CONSTANTS
  Processes,  \* one Create each
  Branches, Paths,
  None

VARIABLES
  pc, branch, path, result,  \* per process
  lock,     \* branch -> lock file: its process, and whether it has been written
  refs,     \* branches that exist
  tree,     \* branch -> the path it is checked out at
  whole,    \* branches whose checkout is complete
  listed,   \* per process: the worktrees as git listed them
  holder,   \* per process: the one that the lock file it read names
  mishap    \* history: a process was killed, was held up for 30 s, or ended just
            \* between the reading of its lock and the look whether it lives

call == <<pc, branch, path, result, listed, holder>>
git == <<refs, tree, whole>>
vars == <<call, lock, git, mishap>>

Init ==
  /\ pc = [p \in Processes |-> "off"] /\ result = [p \in Processes |-> None]
  /\ branch = [p \in Processes |-> None] /\ path = [p \in Processes |-> None]
  /\ listed = [p \in Processes |-> [b \in Branches |-> None]]
  /\ lock = [b \in Branches |-> None] /\ holder = [p \in Processes |-> None]
  /\ refs = {} /\ tree = [b \in Branches |-> None] /\ whole = {} /\ mishap = FALSE

To(p, s) == pc' = [pc EXCEPT ![p] = s]
Ends(p, r) == result' = [result EXCEPT ![p] = r]

\* An error or an answer under the lock, which is then released.
Answers(p, r) == Ends(p, r) /\ To(p, "release")

Start(p, b, w) ==
  /\ pc[p] = "off" /\ To(p, "try")
  /\ branch' = [branch EXCEPT ![p] = b] /\ path' = [path EXCEPT ![p] = w]
  /\ UNCHANGED <<result, listed, holder, lock, git, mishap>>

-----------------------------------------------------------------------------
(* acquireLock.                                                            *)

Lock(p) == lock[branch[p]]
processAlive(p) == pc[p] \notin {"killed", "done"}

\* The context may be over instead.
OpenLock(p) ==
  /\ pc[p] = "try"
  /\ \/ /\ Lock(p) = None /\ To(p, "write")
        /\ lock' = [lock EXCEPT ![branch[p]] = [by |-> p, written |-> FALSE]]
        /\ UNCHANGED result
     \/ Lock(p) # None /\ To(p, "read") /\ UNCHANGED <<lock, result>>
     \/ To(p, "done") /\ Ends(p, "error") /\ UNCHANGED lock
  /\ UNCHANGED <<branch, path, listed, holder, git, mishap>>

\* The open file is written, whatever is under its name by now; when that fails the
\* name is removed.
WriteLock(p) ==
  /\ pc[p] = "write"
  /\ \/ /\ To(p, "list") /\ UNCHANGED result
        /\ lock' = IF Lock(p) # None /\ Lock(p).by = p
                   THEN [lock EXCEPT ![branch[p]].written = TRUE] ELSE lock
     \/ To(p, "done") /\ Ends(p, "error") /\ lock' = [lock EXCEPT ![branch[p]] = None]
  /\ UNCHANGED <<branch, path, listed, holder, git, mishap>>

\* Mutant: a lock that cannot be read is taken for stale at once.
UnreadableIsStale(p) == UNCHANGED mishap

\* A writer that lives is held up when its lock gets that old.
unreadableLockStale(p) == mishap' = (mishap \/ processAlive(Lock(p).by))

ReadLock(p) ==
  /\ pc[p] = "read"
  /\ \/ Lock(p) = None /\ To(p, "try") /\ UNCHANGED <<holder, mishap>>
     \/ /\ Lock(p) # None /\ ~Lock(p).written /\ UNCHANGED holder
        /\ \/ To(p, "try") /\ UNCHANGED mishap
           \/ unreadableLockStale(p) /\ To(p, "prune")
     \/ /\ Lock(p) # None /\ Lock(p).written /\ To(p, "look")
        /\ holder' = [holder EXCEPT ![p] = Lock(p).by] /\ UNCHANGED mishap
  /\ UNCHANGED <<branch, path, result, listed, lock, git>>

LookForHolder(p) ==
  /\ pc[p] = "look"
  /\ IF processAlive(holder[p]) THEN To(p, "done") /\ Ends(p, "error") /\ UNCHANGED mishap
     ELSE To(p, "prune") /\ mishap' = (mishap \/ pc[holder[p]] = "done") /\ UNCHANGED result
  /\ UNCHANGED <<branch, path, listed, holder, lock, git>>

\* os.Remove removes what has the name now.
Prune(p) ==
  /\ pc[p] = "prune" /\ To(p, "try") /\ lock' = [lock EXCEPT ![branch[p]] = None]
  /\ UNCHANGED <<branch, path, result, listed, holder, git, mishap>>

Release(p) ==
  /\ pc[p] = "release" /\ To(p, "done") /\ lock' = [lock EXCEPT ![branch[p]] = None]
  /\ UNCHANGED <<branch, path, result, listed, holder, git, mishap>>

-----------------------------------------------------------------------------
(* Under the lock.                                                         *)

\* git worktree list, which may fail; a branch that is checked out elsewhere is an error.
ListWorktrees(p) ==
  /\ pc[p] = "list" /\ listed' = [listed EXCEPT ![p] = tree]
  /\ \/ tree[branch[p]] \in {None, path[p]} /\ To(p, "stat") /\ UNCHANGED result
     \/ Answers(p, "error")
  /\ UNCHANGED <<branch, path, holder, lock, git, mishap>>

Exists(w) == \E b \in Branches : tree[b] = w

\* findBranchWorktree: the path has this branch.
Managed(p) == listed[p][branch[p]] = path[p]

\* A path that is something else, or that git status cannot look at, is an error.
StatPath(p) ==
  /\ pc[p] = "stat"
  /\ \/ Exists(path[p]) /\ Managed(p) /\ Answers(p, "reused")
     \/ ~Exists(path[p]) /\ To(p, "add") /\ UNCHANGED result
     \/ Answers(p, "error")
  /\ UNCHANGED <<branch, path, listed, holder, lock, git, mishap>>

\* git worktree add -b: an error when the branch or the path exists.
AddWorktree(p) ==
  /\ pc[p] = "add"
  /\ \/ /\ branch[p] \notin refs /\ ~Exists(path[p]) /\ To(p, "checkout") /\ UNCHANGED result
        /\ refs' = refs \cup {branch[p]} /\ tree' = [tree EXCEPT ![branch[p]] = path[p]]
     \/ /\ branch[p] \in refs \/ Exists(path[p])
        /\ Answers(p, "error") /\ UNCHANGED <<refs, tree>>
  /\ UNCHANGED <<branch, path, listed, holder, lock, whole, mishap>>

\* git fills the worktree; it is killed when the context is over.
CheckOut(p) ==
  /\ pc[p] = "checkout"
  /\ \/ whole' = whole \cup {branch[p]} /\ Answers(p, "created") /\ UNCHANGED mishap
     \/ mishap' = TRUE /\ Answers(p, "error") /\ UNCHANGED whole
  /\ UNCHANGED <<branch, path, listed, holder, lock, refs, tree>>

Kill(p) ==
  /\ processAlive(p) /\ pc[p] # "off" /\ To(p, "killed") /\ mishap' = TRUE
  /\ UNCHANGED <<branch, path, result, listed, holder, lock, git>>

\* The operator removes a worktree; the branch stays.
Remove(b) ==
  /\ b \in whole /\ tree' = [tree EXCEPT ![b] = None] /\ whole' = whole \ {b}
  /\ \A p \in Processes : branch[p] = b => pc[p] \in {"done", "killed"}
  /\ UNCHANGED <<call, lock, refs, mishap>>

Next ==
  \/ \E p \in Processes :
       \/ \E b \in Branches, w \in Paths : Start(p, b, w)
       \/ OpenLock(p) \/ WriteLock(p) \/ ReadLock(p) \/ LookForHolder(p) \/ Prune(p) \/ Release(p)
       \/ ListWorktrees(p) \/ StatPath(p) \/ AddWorktree(p) \/ CheckOut(p) \/ Kill(p)
  \/ \E b \in Branches : Remove(b)

Spec == Init /\ [][Next]_vars

-----------------------------------------------------------------------------
(* Properties.                                                             *)

\* A worktree is handed out for reuse only when its checkout is complete and it has
\* the branch that was asked for, as long as no process was killed, held up for 30 s
\* or ended just when its lock was looked at.
\* (worktree.go:75)
ReuseIsWhole ==
  \A p \in Processes : pc[p] = "release" /\ result[p] = "reused" /\ ~mishap =>
     branch[p] \in whole /\ tree[branch[p]] = path[p]

\* The same whatever happens to the processes.
ReuseIsAlwaysWhole ==
  \A p \in Processes : pc[p] = "release" /\ result[p] = "reused" => branch[p] \in whole

\* Nobody works under a lock that another one holds.
LockExclusive ==
  \A p, q \in Processes : p # q /\ branch[p] = branch[q] =>
     ~(pc[p] \in {"list", "stat", "add"} /\ pc[q] \in {"list", "stat", "add", "checkout"})
=============================================================================
