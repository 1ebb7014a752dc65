--------------------------- MODULE RelayEnrollment ---------------------------
(***************************************************************************)
(* How a host's tasks become enrolled and revoked: the operator's          *)
(* `cs relay register [--disabled]`, the SessionStart hook's AutoEnroll,   *)
(* the journal's local allowlist and the coordinator's tasks table.        *)
(*                                                                         *)
(* Both commands hold the journal's file lock from OpenJournal to Close.   *)
(* Either may fail at any step and release it.  A POST /v1/tasks its       *)
(* client gave up (15 s, or what is left of the hook's 10 s) may still be  *)
(* processed later.                                                        *)
(***************************************************************************)
EXTENDS Naturals, FiniteSets

CONSTANTS
  Tasks,      \* exact task UUIDs of this host
  TaskQuota   \* limits.tasksPerHost

ASSUME EnrollmentAssumption == TaskQuota \in Nat

VARIABLES
  central,  \* tasks.enabled at the coordinator, "none" without a row
  local,    \* enrolled.enabled in the journal, "none" without a row
  cmd,      \* what the operator's and the hook's processes are doing
  late,     \* POST /v1/tasks requests given up by their client
  writer    \* history: whose request last wrote a task's central row

vars == <<central, local, cmd, late, writer>>

Procs == {"operator", "hook"}
Setting == {"none", "on", "off"}
Write == [by : Procs, task : Tasks, set : {"on", "off"}]
Idle == [step |-> "idle"]
Command == {Idle} \cup
  [step : {"revoke", "check", "read", "post", "enroll"}, task : Tasks,
   set : {"on", "off"}]

TypeOK ==
  /\ central \in [Tasks -> Setting]
  /\ local \in [Tasks -> Setting]
  /\ cmd \in [Procs -> Command]
  /\ late \subseteq Write
  /\ writer \in [Tasks -> Procs \cup {"none"}]

Init ==
  /\ central = [t \in Tasks |-> "none"]
  /\ local = [t \in Tasks |-> "none"]
  /\ cmd = [p \in Procs |-> Idle]
  /\ late = {}
  /\ writer = [t \in Tasks |-> "none"]

Running(p, step) == cmd[p].step = step
Goto(p, step) == cmd' = [cmd EXCEPT ![p].step = step]
Exit(p) == cmd' = [cmd EXCEPT ![p] = Idle]
Enroll(t, on) == local' = [local EXCEPT ![t] = on]

\* OpenJournal: one owner at a time.
LockFree == \A p \in Procs : cmd[p] = Idle

\* `cs relay register`: revoking starts with the local allowlist.
Register(t, on) ==
  /\ LockFree
  /\ cmd' = [cmd EXCEPT !["operator"] =
       [step |-> IF on = "off" THEN "revoke" ELSE "post",
        task |-> t, set |-> on]]
  /\ UNCHANGED <<central, local, late, writer>>

RevokeLocally ==
  /\ Running("operator", "revoke")
  /\ Enroll(cmd["operator"].task, "off")
  /\ Goto("operator", "post")
  /\ UNCHANGED <<central, late, writer>>

\* `cs relay session-start`: AutoEnroll for the session's own task.
SessionStart(t) ==
  /\ LockFree
  /\ cmd' = [cmd EXCEPT !["hook"] =
       [step |-> "check", task |-> t, set |-> "on"]]
  /\ UNCHANGED <<central, local, late, writer>>

\* Mutant: the hook trusts the coordinator alone.
CheckLocalSkipped ==
  /\ Running("hook", "check")
  /\ Goto("hook", "read")
  /\ UNCHANGED <<central, local, late, writer>>

\* A local revocation ends the hook before it contacts the coordinator.
CheckLocal ==
  /\ Running("hook", "check")
  /\ IF local[cmd["hook"].task] = "off" THEN Exit("hook")
                                        ELSE Goto("hook", "read")
  /\ UNCHANGED <<central, local, late, writer>>

\* All pages of GET /v1/tasks: an existing row decides.
ReadCentral ==
  LET t == cmd["hook"].task IN
  /\ Running("hook", "read")
  /\ IF central[t] = "none"
     THEN Goto("hook", "post") /\ UNCHANGED local
     ELSE Exit("hook") /\ Enroll(t, central[t])
  /\ UNCHANGED <<central, late, writer>>

\* The upsert of POST /v1/tasks; a new row needs room under the quota.
Room(t) == \/ central[t] # "none"
           \/ Cardinality({u \in Tasks : central[u] # "none"}) < TaskQuota
Upsert(w) ==
  /\ central' = [central EXCEPT ![w.task] = w.set]
  /\ writer' = [writer EXCEPT ![w.task] = w.by]

WriteOf(p) == [by |-> p, task |-> cmd[p].task, set |-> cmd[p].set]

Post(p) ==
  /\ Running(p, "post")
  /\ Room(cmd[p].task)
  /\ Upsert(WriteOf(p))
  /\ Goto(p, "enroll")
  /\ UNCHANGED <<local, late>>

\* Mutant: a failed POST is ignored and the task enrolled locally.
PostErrorIgnored(p) ==
  /\ Running(p, "post")
  /\ late' = late \cup {WriteOf(p)}
  /\ Goto(p, "enroll")
  /\ UNCHANGED <<central, local, writer>>

PostGivenUp(p) ==
  /\ Running(p, "post")
  /\ late' = late \cup {WriteOf(p)}
  /\ Exit(p)
  /\ UNCHANGED <<central, local, writer>>

EnrollLocally(p) ==
  /\ Running(p, "enroll")
  /\ Enroll(cmd[p].task, cmd[p].set)
  /\ Exit(p)
  /\ UNCHANGED <<central, late, writer>>

\* Any other error or crash of the command releases the lock.
Abort(p) ==
  /\ cmd[p] # Idle
  /\ Exit(p)
  /\ UNCHANGED <<central, local, late, writer>>

LateArrives(w) ==
  /\ Room(w.task)
  /\ Upsert(w)
  /\ late' = late \ {w}
  /\ UNCHANGED <<local, cmd>>

Next ==
  \/ \E t \in Tasks, on \in {"on", "off"} : Register(t, on)
  \/ \E t \in Tasks : SessionStart(t)
  \/ RevokeLocally \/ CheckLocal \/ ReadCentral
  \/ \E p \in Procs : Post(p) \/ PostGivenUp(p) \/ EnrollLocally(p) \/ Abort(p)
  \/ \E w \in late : LateArrives(w)

Spec == Init /\ [][Next]_vars

-----------------------------------------------------------------------------
\* The hook never reverses a local revocation: a task revoked locally is
\* allowed again only by the operator's own register command, although
\* AutoEnroll authorises the task several steps after it looked (AutoEnroll,
\* "never reverses a local ... explicit revocation").
LocalRevocationSticks ==
  [][\A t \in Tasks :
       local[t] = "off" /\ local'[t] = "on" =>
         cmd["operator"] = [step |-> "enroll", task |-> t, set |-> "on"]]_vars

\* A failed enrollment authorises nothing: the journal allows only tasks the
\* coordinator has a row for, whatever was lost or aborted on the way.
LocalNeedsCentral ==
  \A t \in Tasks : local[t] = "on" => central[t] # "none"

\* The hook never reverses a central revocation either (AutoEnroll, "never
\* reverses a ... central explicit revocation").
CentralRevocationSticks ==
  [][\A t \in Tasks :
       central[t] = "off" /\ central'[t] = "on" => writer'[t] = "operator"]_vars
=============================================================================
