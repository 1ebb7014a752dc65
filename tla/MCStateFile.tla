---------------------------- MODULE MCStateFile ----------------------------
(***************************************************************************)
(* Instances of StateFile and of Worktree for TLC.  The two share no state *)
(* and are checked by turns: a behaviour of one of them while the other    *)
(* has not begun.                                                          *)
(***************************************************************************)
EXTENDS StateFile, TLC

CONSTANTS Branches, Paths

VARIABLES turn, wpc, branch, path, result, wlock, refs, tree, whole, listed, holder, mishap

worktree == <<wpc, branch, path, result, wlock, refs, tree, whole, listed, holder, mishap>>

W == INSTANCE Worktree WITH pc <- wpc, lock <- wlock

\* What Worktree's None stands for is no path and no lock file.
ASSUME WorktreeAssumption ==
  None \notin Paths /\ \A p \in Processes, w \in BOOLEAN : [by |-> p, written |-> w] # None

MCInit ==
  Init /\ W!Init /\ turn \in {"state", "worktree"} /\ (turn = "worktree" => origin = Absent)
MCNext ==
  \/ turn = "state" /\ Next /\ UNCHANGED <<worktree, turn>>
  \/ turn = "worktree" /\ W!Next /\ UNCHANGED <<vars, turn>>
MCSpec == MCInit /\ [][MCNext]_<<vars, worktree, turn>>

\* Worktree's ReuseIsWhole: a worktree is handed out for reuse only when its checkout is
\* complete.
ReuseIsWhole == W!ReuseIsWhole

\* Worktree's, violated: reuse is whole although a process was killed.
ReuseIsAlwaysWhole == W!ReuseIsAlwaysWhole

\* Worktree's, violated: nobody works under a lock that another one holds.
LockExclusive == W!LockExclusive

Symmetry == Permutations(Processes) \cup Permutations(Branches) \cup Permutations(Paths)
=============================================================================
