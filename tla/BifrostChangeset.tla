-------------------------- MODULE BifrostChangeset --------------------------
(***************************************************************************)
(* cs bifrost: the local records of changesets that a Bifrost instance     *)
(* owns.  A command reads the record, makes one remote call through the    *)
(* bifrost CLI and saves the whole record again; nothing is held in        *)
(* between.  A call may be carried out and its answer lost, a save may     *)
(* fail, and a process may end after any step.                             *)
(***************************************************************************)
EXTENDS Naturals

CONSTANTS
  Changesets,  \* IDs Bifrost gives out
  Instances,   \* Bifrost instances
  Login,       \* the one the bifrost CLI uses when no target is given
  Commands,    \* invocations of cs bifrost
  Commit,      \* the SHA of a commit
  None

BifrostChangesetAssumption ==
  Login \in Instances /\ None \notin Changesets \cup Instances \cup {Commit}

VARIABLES
  remote,  \* Bifrost's changesets
  record,  \* the local records
  pc, act, cs, flag,  \* per command: where it is, its action, changeset and --target
  copy,    \* the record as it read it, then as it will save it
  alone    \* history: no other command was at work on its changeset since it read

command == <<pc, act, cs, flag, copy, alone>>
vars == <<remote, record, command>>

Actions == {"show", "write", "validate", "commit", "abort"}
Final == {"activated", "aborted"}

Absent == [state |-> "absent"]
Changeset(target, state, validation, sha) ==
  [target |-> target, state |-> state, validation |-> validation, sha |-> sha]

Init ==
  /\ remote = [c \in Changesets |-> Absent] /\ record = [c \in Changesets |-> Absent]
  /\ pc = [k \in Commands |-> "off"] /\ act = [k \in Commands |-> None]
  /\ cs = [k \in Commands |-> None] /\ flag = [k \in Commands |-> None]
  /\ copy = [k \in Commands |-> Absent] /\ alone = [k \in Commands |-> FALSE]

To(k, s) == pc' = [pc EXCEPT ![k] = s]

\* The instance a command talks to.
At(target) == IF target = None THEN Login ELSE target

Running(k) == pc[k] \in {"read", "called"}

\* The local record, replaced as a whole.
SaveBifrostChangeset(k) == record' = [record EXCEPT ![cs[k]] = copy[k]]
GetBifrostChangeset(c) == record[c]

-----------------------------------------------------------------------------
(* Service.Begin.                                                          *)

\* POST: the changeset exists from then on.  The answer may be lost.
Begin(k) ==
  /\ pc[k] = "off"
  /\ \E c \in Changesets, t \in Instances \cup {None} :
       /\ remote[c] = Absent
       /\ remote' = [remote EXCEPT ![c] = Changeset(At(t), "open", None, None)]
       /\ cs' = [cs EXCEPT ![k] = c] /\ flag' = [flag EXCEPT ![k] = t]
       /\ copy' = [copy EXCEPT ![k] = Changeset(t, "open", None, None)]
  /\ act' = [act EXCEPT ![k] = "begin"]
  /\ To(k, "begun") \/ To(k, "lost")
  /\ UNCHANGED <<record, alone>>

\* Mutant: a begin that cannot be recorded just fails.
SaveFails(k) == To(k, "failed")

\* The record could not be saved: the changeset is to be aborted.
MustAbort(k) == To(k, "aborting")

SaveBegun(k) ==
  /\ pc[k] = "begun"
  /\ \/ SaveBifrostChangeset(k) /\ To(k, "done")
     \/ MustAbort(k) /\ UNCHANGED record
  /\ UNCHANGED <<remote, act, cs, flag, copy, alone>>

\* The compensating abort; when it fails the command says so and names the changeset.
CompensatingAbort(k) ==
  /\ pc[k] = "aborting"
  /\ \/ remote' = [remote EXCEPT ![cs[k]].state = "aborted"] /\ (To(k, "failed") \/ To(k, "lost"))
     \/ To(k, "lost") /\ UNCHANGED remote
  /\ UNCHANGED <<record, act, cs, flag, copy, alone>>

-----------------------------------------------------------------------------
(* Service.sync and Stage.                                                 *)

\* selectRecordedTarget: a record without a target goes where the command says.
selectRecordedTarget(row, t) == IF row.target = None THEN t ELSE row.target
Mismatch(row, t) == row.target # None /\ t # None /\ t # row.target

Read(k, a, c, t) ==
  /\ pc[k] = "off" /\ GetBifrostChangeset(c) # Absent
  /\ act' = [act EXCEPT ![k] = a] /\ cs' = [cs EXCEPT ![k] = c]
  /\ flag' = [flag EXCEPT ![k] = selectRecordedTarget(GetBifrostChangeset(c), t)]
  /\ copy' = [copy EXCEPT ![k] = GetBifrostChangeset(c)]
  /\ To(k, IF Mismatch(GetBifrostChangeset(c), t) THEN "failed" ELSE "read")
  /\ LET others == {j \in Commands : Running(j) /\ cs[j] = c} IN
     alone' = [j \in Commands |-> IF j = k THEN others = {}
                                  ELSE alone[j] /\ (j \notin others \/ Mismatch(GetBifrostChangeset(c), t))]
  /\ UNCHANGED <<remote, record>>

\* What Bifrost makes of a call, by the state of the changeset: the changesets it may
\* become.  None when it refuses.
Outcomes(a, r) ==
  CASE a = "show" -> {r}
    [] a = "write" /\ r.state \notin Final -> {Changeset(r.target, "staged", None, None)}
    [] a = "validate" /\ r.state \notin Final ->
         {Changeset(r.target, "validated", "valid", None), Changeset(r.target, "staged", "invalid", None)}
    [] a = "commit" /\ r.state = "validated" -> {Changeset(r.target, "activated", r.validation, Commit)}
    [] a = "abort" /\ r.state \notin Final -> {Changeset(r.target, "aborted", r.validation, None)}
    [] OTHER -> {}

\* Stage, for write and delete: the answer has a state and no evidence.
Stage(row, r) == [row EXCEPT !.state = r.state]

\* Mutant: the state after a validation is not its result.
AnsweredValidated(a, row, r) ==
  IF a = "validate" THEN [row EXCEPT !.state = "validated", !.validation = r.validation]
  ELSE IF a = "write" THEN Stage(row, r)
  ELSE [row EXCEPT !.state = r.state, !.validation = r.validation, !.sha = r.sha]

\* The record with what the answer says.  A validation answers its result, from
\* which the state is derived.
Answered(a, row, r) ==
  CASE a = "write" -> Stage(row, r)
    [] a = "validate" ->
         [row EXCEPT !.state = IF r.validation = "valid" THEN "validated" ELSE "staged",
                     !.validation = r.validation]
    [] OTHER -> [row EXCEPT !.state = r.state, !.validation = r.validation, !.sha = r.sha]

\* The remote call: refused, carried out, or carried out and its answer lost.
Call(k) ==
  /\ pc[k] = "read"
  /\ LET c == cs[k]
         there == remote[c].target = At(flag[k])
         outcomes == IF there THEN Outcomes(act[k], remote[c]) ELSE {}
     IN
     \/ outcomes = {} /\ To(k, "failed") /\ UNCHANGED <<remote, copy>>
     \/ \E r \in outcomes :
          /\ remote' = [remote EXCEPT ![c] = r]
          /\ \/ copy' = [copy EXCEPT ![k] = Answered(act[k], copy[k], r)] /\ To(k, "called")
             \/ UNCHANGED copy /\ To(k, "lost")
  /\ UNCHANGED <<record, act, cs, flag, alone>>

\* SaveBifrostChangeset, or its failure.
Save(k) ==
  /\ pc[k] = "called"
  /\ \/ SaveBifrostChangeset(k) /\ To(k, "done")
     \/ To(k, "failed") /\ UNCHANGED record
  /\ UNCHANGED <<remote, act, cs, flag, copy, alone>>

\* The process ends.
End(k) ==
  /\ pc[k] \in {"begun", "aborting", "read", "called"} /\ To(k, "lost")
  /\ UNCHANGED <<remote, record, act, cs, flag, copy, alone>>

Next ==
  \/ \E k \in Commands : Begin(k) \/ SaveBegun(k) \/ CompensatingAbort(k) \/ Call(k) \/ Save(k) \/ End(k)
  \/ \E k \in Commands, a \in Actions, c \in Changesets, t \in Instances \cup {None} : Read(k, a, c, t)

Spec == Init /\ [][Next]_vars

-----------------------------------------------------------------------------
(* Properties.                                                             *)

\* Every variable has its type.
TypeOK ==
  /\ pc \in [Commands -> {"off", "begun", "aborting", "read", "called", "done", "failed", "lost"}]
  /\ act \in [Commands -> Actions \cup {"begin", None}] /\ cs \in [Commands -> Changesets \cup {None}]
  /\ flag \in [Commands -> Instances \cup {None}] /\ alone \in [Commands -> BOOLEAN]

\* A changeset that is open at Bifrost and has no record is explained: its begin is
\* still at work, was cut off, or has told that the changeset could not be aborted.
\* (bifrost.go:227)
OrphanExplained ==
  \A c \in Changesets : remote[c] # Absent /\ remote[c].state \notin Final /\ record[c] = Absent =>
     \E k \in Commands : act[k] = "begin" /\ cs[k] = c /\ pc[k] \in {"begun", "aborting", "lost"}

\* A command that had its changeset for itself leaves the record in the state Bifrost
\* has, with its commit, whatever stale or lost commands went before: records heal.
\* (docs/bifrost.md:73, "stores only the worker/scope linkage and the evidence
\* returned by Bifrost")
RecordHeals ==
  [][\A k \in Commands : pc[k] = "called" /\ pc'[k] = "done" /\ alone[k] =>
        LET c == cs[k] IN
        /\ record'[c].state = remote[c].state
        /\ act[k] \in {"show", "commit", "abort"} => record'[c].sha = remote[c].sha]_vars

\* A record that says activated never goes back.
RecordForward ==
  [][\A c \in Changesets : record[c].state = "activated" => record'[c].state = "activated"]_vars
=============================================================================
