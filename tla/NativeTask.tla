----------------------------- MODULE NativeTask -----------------------------
(***************************************************************************)
(* Two-phase dispatch of a task that the Codex host creates.  A            *)
(* coordinator reserves a worker (cs dispatch prepare), has the host       *)
(* create a task whose prompt names the worker, reads the task back, and   *)
(* binds its identity to the worker (cs dispatch bind).  The task itself   *)
(* looks its worker up until it finds its own thread there, works, and     *)
(* closes it.  A coordinator may die anywhere; its dispatch is then given  *)
(* again with the same request ID.                                         *)
(*                                                                         *)
(* The host names a task by its thread; the checkout it made (cwd and      *)
(* branch) belongs to the thread.                                          *)
(***************************************************************************)
EXTENDS Naturals, Sequences, WorkerStatus

CONSTANTS
  Workers,      \* worker IDs
  Parent,       \* the coordinator's own worker, in the ledger from the start
  Requests,     \* request IDs of prepare
  Coordinators, \* invocations of the two-phase path; a retry is another one
  Threads,      \* tasks the host can create
  None,
  CacheCap,     \* CompletedMutationCacheCap
  MaxOthers     \* bound: commands other than dispatch and the task's close

ASSUME NativeTaskAssumption ==
  /\ Parent \in Workers /\ None \notin Workers \cup Requests \cup Threads
  /\ CacheCap \in Nat \ {0} /\ MaxOthers \in Nat

VARIABLES
  worker,     \* the worker rows
  completed,  \* completed_mutations, oldest first
  pc, req, env,  \* per coordinator: where it is, its request ID and --environment
  envelope, thread, turn,  \* the worker it reserved, the task and turn it read
  prompt,     \* per task: the worker its prompt names, None before it exists
  task,       \* per task: "off", "waiting", "working", "closed"
  others,     \* commands of others so far
  \* history
  asked,      \* the status the last command on a worker asked for
  attached,   \* workers that cs attach has given another identity
  reserves,   \* how often a request made a reservation
  since       \* mutations remembered since its last one

coordinator == <<pc, req, env, envelope, thread, turn>>
tasks == <<prompt, task>>
vars == <<worker, completed, coordinator, tasks, others, asked, attached, reserves, since>>

Environments == {"worktree", "local"}
Absent == [status |-> "absent"]
Exists(w) == worker[w] # Absent

\* The checkout the host reads back for a task: its own worktree, or the repository.
Checkout(t, e) == IF e = "worktree" THEN t ELSE "repository"

\* A row with no runtime identity, as struct literals make it.
newWorker(e, status) ==
  [environment |-> e, external |-> TRUE, thread |-> None, turn |-> None,
   checkout |-> None, status |-> status, lifecycle |-> NoLifecycle]

Init ==
  /\ worker = [w \in Workers |-> IF w = Parent THEN Normalized(newWorker(None, "running")) ELSE Absent]
  /\ completed = << >>
  /\ pc = [p \in Coordinators |-> "off"] /\ req \in [Coordinators -> Requests]
  /\ env \in [Coordinators -> Environments]
  /\ envelope = [p \in Coordinators |-> None] /\ thread = [p \in Coordinators |-> None]
  /\ turn = [p \in Coordinators |-> None]
  /\ prompt = [t \in Threads |-> None] /\ task = [t \in Threads |-> "off"]
  /\ others = 0
  /\ asked = [w \in Workers |-> IF w = Parent THEN "running" ELSE None] /\ attached = {}
  /\ reserves = [r \in Requests |-> 0] /\ since = [r \in Requests |-> 0]

-----------------------------------------------------------------------------
(* The ledger.                                                             *)

\* SaveWorker, UpdateWorker and the transactions of this file: the row is
\* normalized and stored.  asked is what the command meant it to be.
Save(w, row, status) ==
  /\ worker' = [worker EXCEPT ![w] = Normalized(row)]
  /\ asked' = [asked EXCEPT ![w] = status]

Entry(command, r, fp, w) == [command |-> command, req |-> r, fp |-> fp, worker |-> w]
Other == Entry("other", None, None, None)

Latest(s) == IF Len(s) <= CacheCap THEN s ELSE SubSeq(s, Len(s) - CacheCap + 1, Len(s))

Remember(e) ==
  /\ completed' = Latest(Append(completed, e))
  /\ since' = [r \in Requests |->
                 IF e.command = "dispatch.prepare" /\ e.req = r THEN 0 ELSE since[r] + 1]

Remembered(command, r) ==
  {completed[i] : i \in {j \in DOMAIN completed : completed[j].command = command /\ completed[j].req = r}}

-----------------------------------------------------------------------------
(* cs dispatch prepare.                                                    *)

\* Mutant: the mutation is not remembered.
ReserveAndForget(p) ==
  \E w \in Workers :
     /\ ~Exists(w)
     /\ Save(w, ApplyStatusAt(newWorker(env[p], "pending"), "pending"), "pending")
     /\ reserves' = [reserves EXCEPT ![req[p]] = @ + 1]
     /\ since' = [since EXCEPT ![req[p]] = 0] /\ UNCHANGED completed
     /\ envelope' = [envelope EXCEPT ![p] = w] /\ pc' = [pc EXCEPT ![p] = "prepared"]

\* The new row and its mutation, under a worker ID of its own.
Reserve(p) ==
  \E w \in Workers :
     /\ ~Exists(w)
     /\ Save(w, ApplyStatusAt(newWorker(env[p], "pending"), "pending"), "pending")
     /\ reserves' = [reserves EXCEPT ![req[p]] = @ + 1]
     /\ Remember(Entry("dispatch.prepare", req[p], env[p], w))
     /\ envelope' = [envelope EXCEPT ![p] = w] /\ pc' = [pc EXCEPT ![p] = "prepared"]

\* ReserveNativeTask: refused, replayed, or a new reservation.
ReserveNativeTask(p) ==
  LET known == Remembered("dispatch.prepare", req[p])
      closed == worker[Parent].status \in Terminal
  IN
  \/ /\ (\E e \in known : e.fp # env[p]) \/ (known = {} /\ closed)
     /\ pc' = [pc EXCEPT ![p] = "refused"]
     /\ UNCHANGED <<worker, completed, envelope, asked, reserves, since>>
  \/ \E e \in known :
        /\ e.fp = env[p]
        /\ envelope' = [envelope EXCEPT ![p] = e.worker]
        /\ pc' = [pc EXCEPT ![p] = "prepared"]
        /\ UNCHANGED <<worker, completed, asked, reserves, since>>
  \/ known = {} /\ ~closed /\ Reserve(p)

\* The command: its request ID and a fingerprint of its arguments, of which the
\* environment is the one that tells.
Prepare(p) ==
  /\ pc[p] = "off" /\ ReserveNativeTask(p)
  /\ UNCHANGED <<req, env, thread, turn, tasks, others, attached>>

-----------------------------------------------------------------------------
(* The host.                                                               *)

\* The coordinator has a task created, or finds one that an earlier attempt at
\* the same reservation left, and reads it: a turn is active or not.
ReadTask(p) ==
  /\ pc[p] = "prepared"
  /\ \E t \in Threads, u \in {"active", None} :
       /\ prompt[t] \in {None, envelope[p]}
       /\ prompt' = [prompt EXCEPT ![t] = envelope[p]]
       /\ task' = [task EXCEPT ![t] = IF @ = "off" THEN "waiting" ELSE @]
       /\ thread' = [thread EXCEPT ![p] = t] /\ turn' = [turn EXCEPT ![p] = u]
  /\ pc' = [pc EXCEPT ![p] = "read"]
  /\ UNCHANGED <<worker, completed, req, env, envelope, others, asked, attached, reserves, since>>

-----------------------------------------------------------------------------
(* cs dispatch bind.                                                       *)

\* What BindNativeTask demands of the row.  A local reservation never stores the
\* checkout it is bound with.
Bindable(row, t, u) ==
  /\ row.environment # None /\ row.external /\ row.status \notin Terminal
  /\ row.thread = None \/ ( /\ row.thread = t /\ row.turn = u
                            /\ row.checkout = Checkout(t, row.environment) )

Bound(row, t, u) ==
  ApplyStatusAt([row EXCEPT !.thread = t, !.turn = u,
                   !.checkout = IF row.environment = "worktree" THEN Checkout(t, "worktree") ELSE @],
                IF u # None THEN "running" ELSE "idle")

\* Mutant: any earlier bind of the worker answers the request.
BindReplayed(e, fp) == TRUE

\* A replay must be of the same identity.
SameBinding(e, fp) == e.fp = fp

\* BindNativeTask under the request ID of the envelope, which is the worker's.
BindNativeTask(p) ==
  LET w == envelope[p]
      t == thread[p]
      u == turn[p]
      known == Remembered("dispatch.bind", w)
      to(s) == pc' = [pc EXCEPT ![p] = s]
  IN
  \/ /\ \/ \E e \in known : ~SameBinding(e, <<t, u>>)
        \/ known = {} /\ ~Bindable(worker[w], t, u)
     /\ to("refused") /\ UNCHANGED <<worker, completed, asked, since>>
  \/ /\ \E e \in known : SameBinding(e, <<t, u>>)
     /\ to("bound") /\ UNCHANGED <<worker, completed, asked, since>>
  \/ /\ known = {} /\ Bindable(worker[w], t, u)
     /\ Save(w, Bound(worker[w], t, u), IF u # None THEN "running" ELSE "idle")
     /\ Remember(Entry("dispatch.bind", w, <<t, u>>, w)) /\ to("bound")

Bind(p) ==
  /\ pc[p] = "read" /\ BindNativeTask(p)
  /\ UNCHANGED <<req, env, envelope, thread, turn, tasks, others, attached, reserves>>

\* The coordinator's process ends.
Die(p) ==
  /\ pc[p] \in {"prepared", "read"} /\ pc' = [pc EXCEPT ![p] = "dead"]
  /\ UNCHANGED <<worker, completed, req, env, envelope, thread, turn, tasks, others,
                 asked, attached, reserves, since>>

-----------------------------------------------------------------------------
(* The task, as its prompt tells it (nativeTaskPrompt).                    *)

\* Mutant: the task does not wait to be bound.
ShowAnyway(t) ==
  /\ task[t] = "waiting" /\ task' = [task EXCEPT ![t] = "working"]
  /\ UNCHANGED <<worker, completed, coordinator, prompt, others, asked, attached, reserves, since>>

\* cs show: the worker has the task's own thread; otherwise it waits and asks again.
Show(t) ==
  /\ task[t] = "waiting" /\ worker[prompt[t]].thread = t
  /\ task' = [task EXCEPT ![t] = "working"]
  /\ UNCHANGED <<worker, completed, coordinator, prompt, others, asked, attached, reserves, since>>

\* CloseWorker, remembered like every mutation.
CloseOwn(t) ==
  /\ task[t] = "working"
  /\ \E s \in Terminal : Save(prompt[t], ApplyStatusAt(worker[prompt[t]], s), s)
  /\ Remember(Other) /\ task' = [task EXCEPT ![t] = "closed"]
  /\ UNCHANGED <<coordinator, prompt, others, attached, reserves>>

-----------------------------------------------------------------------------
(* Other commands.                                                         *)

Counted == others < MaxOthers /\ others' = others + 1

\* cs attach of an existing worker.  A tracker is not externally owned.
Attach(w, t) ==
  /\ Exists(w) /\ Counted
  /\ \E live \in BOOLEAN, u \in {"active", None} :
       LET status == IF live /\ u # None THEN "running" ELSE "idle" IN
       Save(w, ApplyStatusAt([worker[w] EXCEPT !.thread = t, !.turn = u, !.external = live], status), status)
  /\ attached' = attached \cup {w}
  /\ UNCHANGED <<completed, coordinator, tasks, reserves, since>>

\* cs attach without --worker: a row of its own.
AttachNew(w, t) ==
  /\ ~Exists(w) /\ Counted
  /\ Save(w, ApplyStatusAt([newWorker(None, "idle") EXCEPT !.thread = t, !.external = FALSE], "idle"), "idle")
  /\ attached' = attached \cup {w}
  /\ UNCHANGED <<completed, coordinator, tasks, reserves, since>>

\* cs report, handoff and close by an operator.
SetStatus(w, s) ==
  /\ Exists(w) /\ Counted
  /\ Save(w, ApplyStatusAt(worker[w], s), s)
  /\ UNCHANGED <<completed, coordinator, tasks, attached, reserves, since>>

\* A mutation of another worker with a request ID.
Mutate ==
  /\ Counted /\ Remember(Other)
  /\ UNCHANGED <<worker, coordinator, tasks, asked, attached, reserves>>

Next ==
  \/ \E p \in Coordinators : Prepare(p) \/ ReadTask(p) \/ Bind(p) \/ Die(p)
  \/ \E t \in Threads : Show(t) \/ CloseOwn(t)
  \/ \E w \in Workers, t \in Threads : Attach(w, t) \/ AttachNew(w, t)
  \/ \E w \in Workers, s \in {"idle"} \cup Terminal : SetStatus(w, s)
  \/ Mutate

Spec == Init /\ [][Next]_vars

-----------------------------------------------------------------------------
(* Properties.                                                             *)

\* Every variable has its type, and the cache its bound.
TypeOK ==
  /\ \A w \in Workers : Exists(w) =>
        /\ worker[w].environment \in Environments \cup {None}
        /\ worker[w].thread \in Threads \cup {None} /\ worker[w].status \in Statuses
  /\ Len(completed) <= CacheCap
  /\ pc \in [Coordinators -> {"off", "prepared", "read", "bound", "refused", "dead"}]
  /\ envelope \in [Coordinators -> Workers \cup {None}]
  /\ thread \in [Coordinators -> Threads \cup {None}]
  /\ prompt \in [Threads -> Workers \cup {None}]
  /\ task \in [Threads -> {"off", "waiting", "working", "closed"}]

\* A bind that reported success tells the truth for good: the worker has the
\* identity the coordinator bound, also when the answer was a replay, another
\* attempt had a second task created, or the cache had forgotten the first bind.
\* (docs/design.md:92, "binding refuses to replace an existing runtime identity")
BindAnswerTrue ==
  \A p \in Coordinators : pc[p] = "bound" /\ envelope[p] \notin attached =>
     worker[envelope[p]].thread = thread[p]

\* A task closes only the worker that is bound to it, although it looked before
\* and other attempts may have made and bound tasks since.  (README.md:168,
\* "preventing a fast child from closing before the host identity is bound")
OwnTaskCloses ==
  [][\A t \in Threads : task[t] # task'[t] /\ task'[t] = "closed" /\ prompt[t] \notin attached
        => worker[prompt[t]].thread = t]_vars

\* Whatever a command was given after whatever history, the status it asked for
\* is the one that is stored and shown: the lifecycle never overrules it.
StatusLands ==
  \A w \in Workers : Exists(w) =>
     /\ worker[w].status = asked[w]
     /\ workerStatusFromLifecycle(worker[w].lifecycle) = asked[w]
     /\ worker[w].lifecycle.ended # "no" => asked[w] \in Terminal

\* A request makes a second reservation only after CacheCap later mutations.
\* (README.md:160, "`dispatch prepare` is an idempotent reservation")
ReservedOncePerWindow ==
  [][\A r \in Requests :
       reserves'[r] > reserves[r] /\ reserves[r] > 0 => since[r] >= CacheCap]_vars

\* A bind of the identity a worker already has is not refused.
RebindAccepted ==
  [][\A p \in Coordinators : pc[p] = "read" /\ pc'[p] = "refused" =>
        LET row == worker[envelope[p]] IN
        ~(row.external /\ row.thread = thread[p] /\ row.turn = turn[p] /\ row.status \notin Terminal)]_vars
=============================================================================
