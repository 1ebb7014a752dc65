---------------------------- MODULE WorkersProofs ----------------------------
(***************************************************************************)
(* That a worker's status is the one asked for, that a worker is bound to  *)
(* one task and closed by that task only, and that a close is applied once *)
(* and complete: for any number of workers, coordinators, tasks and        *)
(* commands, and any size of the replay cache.  Then the claims of the     *)
(* workers (ClaimLedger, instance K of MCWorkers) and what they touch      *)
(* (FileTouch, instance T).                                                *)
(***************************************************************************)
EXTENDS MCWorkers, SequenceTheorems, FiniteSetTheorems, TLAPS

-----------------------------------------------------------------------------
(* The status of a worker.                                                 *)

\* A lifecycle as a saved row has it.
Sessions == {"pending", "working", "idle", "done", "failed"}
Reasons == {"", "orchestrating", "task_in_progress", "completed", "failed"}
Lifecycles ==
  [session : Sessions, reason : Reasons, runtime : {"live", "stopped", "unknown"},
   lost : {FALSE}, ended : {"no", "completed", "terminated"}]

Rows ==
  [environment : Environments \cup {None}, external : BOOLEAN, thread : Threads \cup {None},
   turn : {"active", None}, checkout : Threads \cup {"repository", None}, status : Statuses,
   lifecycle : Lifecycles \cup {NoLifecycle}]

\* A row that tells a status, in both of its ways.
Tells(row, s) ==
  /\ row \in Rows /\ row.status = s /\ row.lifecycle \in Lifecycles
  /\ workerStatusFromLifecycle(row.lifecycle) = s
  /\ row.lifecycle.ended # "no" => s \in Terminal

-----------------------------------------------------------------------------
(* The inductive invariant of NativeTask.                                  *)

Identities == Threads \X {"active", None}
Entries ==
  [command : {"dispatch.prepare", "dispatch.bind", "other"}, req : Requests \cup Workers \cup {None},
   fp : Environments \cup Identities \cup {None}, worker : Workers \cup {None}]

NativeTypes ==
  /\ worker \in [Workers -> Rows \cup {Absent}]
  /\ completed \in Seq(Entries)
  /\ pc \in [Coordinators -> {"off", "prepared", "read", "bound", "refused", "dead"}]
  /\ req \in [Coordinators -> Requests] /\ env \in [Coordinators -> Environments]
  /\ envelope \in [Coordinators -> Workers \cup {None}]
  /\ thread \in [Coordinators -> Threads \cup {None}] /\ turn \in [Coordinators -> {"active", None}]
  /\ prompt \in [Threads -> Workers \cup {None}]
  /\ task \in [Threads -> {"off", "waiting", "working", "closed"}]
  /\ asked \in [Workers -> Statuses \cup {None}] /\ attached \subseteq Workers
  /\ reserves \in [Requests -> Nat] /\ since \in [Requests -> Nat]

\* Every row tells the status that was asked for.
RowsTell == \A w \in Workers : Exists(w) => Tells(worker[w], asked[w])

\* A worker whose thread is the one given for good, unless cs attach gave it another.
Has(w, t) == Exists(w) /\ (w \notin attached => worker[w].thread = t)

\* The worker that a coordinator's envelope names exists, and has the task that the
\* coordinator was told it is bound to.
Coordinated(p) ==
  /\ pc[p] \in {"prepared", "read", "bound"} => envelope[p] \in Workers /\ Exists(envelope[p])
  /\ pc[p] \in {"read", "bound"} => thread[p] \in Threads
  /\ pc[p] = "bound" => Has(envelope[p], thread[p])

\* The worker that a task's prompt names exists, and has the task once that works.
Tasked(t) ==
  /\ prompt[t] # None => Exists(prompt[t])
  /\ task[t] # "off" => prompt[t] # None
  /\ task[t] = "working" => Has(prompt[t], t)

\* What the cache says of reservations and bindings is still so.
EntryTrue(e) ==
  /\ e.command = "dispatch.prepare" => e.worker \in Workers /\ Exists(e.worker)
  /\ e.command = "dispatch.bind" =>
       e.req \in Workers /\ e.fp \in Identities /\ Has(e.req, e.fp[1])

Bindings ==
  /\ \A p \in Coordinators : Coordinated(p)
  /\ \A t \in Threads : Tasked(t)
  /\ \A i \in DOMAIN completed : EntryTrue(completed[i])

\* The cache is full at most, and a request's last reservation is as far from its end
\* as mutations were remembered since.
Window ==
  /\ Len(completed) <= CacheCap
  /\ \A r \in Requests : reserves[r] > 0 /\ since[r] < CacheCap =>
        /\ since[r] < Len(completed)
        /\ LET e == completed[Len(completed) - since[r]] IN e.command = "dispatch.prepare" /\ e.req = r

NativeInv == NativeTypes /\ RowsTell /\ Bindings /\ Window

-----------------------------------------------------------------------------
(* The inductive invariant of Closeout.                                    *)

CloseEntries == [req : CloseRequests \cup {None}, fp : PRStates \cup {None}]

CloseTypes ==
  /\ remembered \in Seq(CloseEntries)
  /\ message \in [CloseRequests -> C!Bodies \cup {None}]
  /\ cpc \in [Commands -> {"off", "refreshed", "closed", "composed", "sent", "done", "refused", "dead"}]
  /\ creq \in [Commands -> CloseRequests] /\ pulls \in [Commands -> PRStates \cup {None}]
  /\ told \in [Commands -> C!Reports \cup {None}] /\ body \in [Commands -> C!Bodies \cup {None}]
  /\ status \in C!Statuses /\ report \in C!Reports /\ github \in PRStates
  /\ outcome \in [CloseRequests -> C!Terminal]
  /\ closes \in [CloseRequests -> Nat] /\ csince \in [CloseRequests -> Nat]

\* Who is past the close, and what is remembered, was applied; who composed has a
\* message, and who sent one or is done finds one.
Progress ==
  /\ \A k \in Commands :
       /\ cpc[k] \in {"closed", "composed", "sent", "done"} => closes[creq[k]] > 0
       /\ cpc[k] = "closed" => told[k] \in C!Reports
       /\ cpc[k] = "composed" => body[k] \in C!Bodies
       /\ cpc[k] \in {"sent", "done"} => message[creq[k]] # None
  /\ \A i \in DOMAIN remembered :
       remembered[i].req \in CloseRequests => closes[remembered[i].req] > 0

\* A request's last close is as far from the end of the cache as mutations were
\* remembered since.
CloseWindow ==
  /\ Len(remembered) <= CacheCap
  /\ \A r \in CloseRequests : closes[r] > 0 /\ csince[r] < CacheCap =>
        csince[r] < Len(remembered) /\ remembered[Len(remembered) - csince[r]].req = r

CloseInv == CloseTypes /\ Progress /\ CloseWindow

-----------------------------------------------------------------------------
(* What setting a status does to a row.                                    *)

\* The fields of a row and of its lifecycle.
LEMMA RowFields ==
  ASSUME NEW row \in Rows
  PROVE  /\ row.environment \in Environments \cup {None} /\ row.external \in BOOLEAN
         /\ row.thread \in Threads \cup {None} /\ row.turn \in {"active", None}
         /\ row.checkout \in Threads \cup {"repository", None} /\ row.status \in Statuses
         /\ row.lifecycle \in Lifecycles \cup {NoLifecycle} /\ row # Absent
BY DEF Rows, Absent, Statuses

\* The lifecycle that ApplyStatusAt derives.
Derived(s, previous, ended) ==
  [lifecycleFromWorkerStatusWithPrevious(s, previous) EXCEPT !.ended = ended]

\* It is told as the status it was derived from.
LEMMA DerivedLifecycle ==
  ASSUME NEW s \in Statuses, NEW previous \in Lifecycles \cup {NoLifecycle},
         NEW ended \in {"no", "completed", "terminated"}, ended # "no" => s \in Terminal
  PROVE  LET lc == Derived(s, previous, ended) IN
         /\ lc \in Lifecycles /\ lc # NoLifecycle /\ lc.ended = ended
         /\ workerStatusFromLifecycle(lc) = s
         /\ ClearTerminalMarkersForNonTerminal(lc) = lc
<1> DEFINE derived == lifecycleFromWorkerStatusWithPrevious(s, previous)
           lc == [derived EXCEPT !.ended = ended]
           session == IF s = "running" THEN "working" ELSE s
<1>1. derived \in Lifecycles /\ derived.session = session
  <2>1. \A r \in Reasons, u \in {"live", "stopped", "unknown"}, x \in Sessions :
          lifecycleOf(x, r, u) \in Lifecycles /\ lifecycleOf(x, r, u).session = x
    BY DEF lifecycleOf, Lifecycles
  <2> DEFINE kept(r) == IF preserveOrchestrator(previous) THEN "orchestrating" ELSE r
  <2>2. previous # NoLifecycle => previous.reason \in Reasons
    BY DEF Lifecycles
  <2>3. CASE s = "running"
    <3>1. derived = lifecycleOf("working", kept("task_in_progress"), "live")
      BY <2>3 DEF lifecycleFromWorkerStatusWithPrevious
    <3>2. kept("task_in_progress") \in Reasons
      BY <2>2 DEF Reasons
    <3> HIDE DEF kept, derived
    <3> QED
      BY <2>1, <2>3, <3>1, <3>2 DEF Sessions
  <2>4. CASE s = "done"
    <3>1. derived = lifecycleOf("done", kept("completed"), "stopped")
      BY <2>4 DEF lifecycleFromWorkerStatusWithPrevious
    <3>2. kept("completed") \in Reasons
      BY <2>2 DEF Reasons
    <3> HIDE DEF kept, derived
    <3> QED
      BY <2>1, <2>4, <3>1, <3>2 DEF Sessions
  <2>5. CASE s = "failed"
    <3>1. derived = lifecycleOf("failed", kept("failed"), "stopped")
      BY <2>5 DEF lifecycleFromWorkerStatusWithPrevious
    <3>2. kept("failed") \in Reasons
      BY <2>2 DEF Reasons
    <3> HIDE DEF kept, derived
    <3> QED
      BY <2>1, <2>5, <3>1, <3>2 DEF Sessions
  <2>6. CASE s = "idle"
    <3>1. derived = lifecycleOf("idle", kept(""), "stopped")
      BY <2>6 DEF lifecycleFromWorkerStatusWithPrevious
    <3>2. kept("") \in Reasons
      BY <2>2 DEF Reasons
    <3> HIDE DEF kept, derived
    <3> QED
      BY <2>1, <2>6, <3>1, <3>2 DEF Sessions
  <2>7. CASE s = "pending"
    <3>1. derived = lifecycleOf("pending", IF previous = NoLifecycle THEN "" ELSE previous.reason, "unknown")
      BY <2>7 DEF lifecycleFromWorkerStatusWithPrevious
    <3>2. (IF previous = NoLifecycle THEN "" ELSE previous.reason) \in Reasons
      BY <2>2 DEF Reasons
    <3> HIDE DEF kept, derived
    <3> QED
      BY <2>1, <2>7, <3>1, <3>2 DEF Sessions
  <2> QED
    BY <2>3, <2>4, <2>5, <2>6, <2>7 DEF Statuses
<1> HIDE DEF derived
<1>4. lc \in Lifecycles /\ lc.session = session /\ lc.lost = FALSE /\ lc.ended = ended
  BY <1>1 DEF Lifecycles
<1> HIDE DEF lc
<1>5. lc # NoLifecycle
  BY <1>4 DEF NoLifecycle, Statuses
<1>6. workerStatusFromLifecycle(lc) = s
  BY <1>4 DEF workerStatusFromLifecycle, DeriveStatus, IsTerminal, Terminal, Statuses
<1>7. ClearTerminalMarkersForNonTerminal(lc) = lc
  <2>1. CASE s \in Terminal
    BY <1>4, <2>1 DEF ClearTerminalMarkersForNonTerminal, IsTerminal, Terminal
  <2>2. CASE s \notin Terminal
    <3>1. ended = "no" /\ lc.session \notin Terminal
      BY <1>4, <2>2 DEF Statuses, Terminal
    <3>2. [lc EXCEPT !.ended = "no"] = lc
      BY <1>4, <3>1 DEF Lifecycles
    <3> QED
      BY <3>1, <3>2 DEF ClearTerminalMarkersForNonTerminal, IsTerminal
  <2> QED
    BY <2>1, <2>2
<1> QED
  BY <1>4, <1>5, <1>6, <1>7 DEF lc, derived, Derived

\* Whatever a row was, a command that sets its status and saves it leaves a row that
\* tells the status, and nothing else of it is changed.
LEMMA StatusSet ==
  ASSUME NEW row \in Rows, NEW s \in Statuses
  PROVE  LET new == Normalized(ApplyStatusAt(row, s)) IN
         /\ Tells(new, s) /\ new.environment = row.environment /\ new.external = row.external
         /\ new.thread = row.thread /\ new.turn = row.turn /\ new.checkout = row.checkout
<1> DEFINE ended == CASE s = "done" -> "completed" [] s = "failed" -> "terminated" [] OTHER -> "no"
           lc == Derived(s, row.lifecycle, ended)
           applied == [row EXCEPT !.status = s, !.lifecycle = lc]
           new == [applied EXCEPT !.lifecycle = lc, !.status = s]
<1>1. ended \in {"no", "completed", "terminated"} /\ (ended # "no" => s \in Terminal)
  BY DEF Terminal
<1> HIDE DEF ended
<1>2. /\ lc \in Lifecycles /\ lc # NoLifecycle /\ workerStatusFromLifecycle(lc) = s
      /\ ClearTerminalMarkersForNonTerminal(lc) = lc /\ lc.ended = ended
  <2>1. row.lifecycle \in Lifecycles \cup {NoLifecycle}
    BY RowFields
  <2> QED
    BY <1>1, <2>1, DerivedLifecycle
<1>3. ApplyStatusAt(row, s) = applied
  BY DEF ApplyStatusAt, Derived, ended
<1> HIDE DEF lc
<1>4. applied \in Rows /\ applied.lifecycle = lc
  BY <1>2 DEF Rows
<1>5. Normalized(applied) = new
  BY <1>2, <1>4 DEF Normalized
<1>6. /\ new \in Rows /\ new.status = s /\ new.lifecycle = lc
      /\ new.environment = row.environment /\ new.external = row.external
      /\ new.thread = row.thread /\ new.turn = row.turn /\ new.checkout = row.checkout
  BY <1>2 DEF Rows
<1> HIDE DEF applied, new
<1> QED
  BY <1>1, <1>2, <1>3, <1>5, <1>6 DEF Tells

\* The rows that a reservation and cs attach start from.
LEMMA NewRow ==
  ASSUME NEW e \in Environments \cup {None}, NEW s \in Statuses
  PROVE  newWorker(e, s) \in Rows
BY DEF newWorker, Rows

\* The parent's row, which is saved without a lifecycle, tells that it is running.
LEMMA ParentTells == Tells(Normalized(newWorker(None, "running")), "running")
<1> DEFINE row == newWorker(None, "running")
           lc == lifecycleOf("working", "task_in_progress", "live")
           new == [row EXCEPT !.lifecycle = lc, !.status = "running"]
<1>1. row \in Rows /\ row.lifecycle = NoLifecycle /\ row.status = "running"
  BY NewRow DEF newWorker, Statuses
<1>2. lc \in Lifecycles /\ lc.session = "working" /\ lc.lost = FALSE /\ lc.ended = "no"
  BY DEF lifecycleOf, Lifecycles, Sessions, Reasons
<1>3. lifecycleFromWorkerStatusWithPrevious("running", NoLifecycle) = lc
  BY DEF lifecycleFromWorkerStatusWithPrevious, preserveOrchestrator
<1> HIDE DEF row, lc
<1>4. workerStatusFromLifecycle(lc) = "running"
  BY <1>2 DEF workerStatusFromLifecycle, DeriveStatus, IsTerminal, Terminal
<1>5. ClearTerminalMarkersForNonTerminal(lc) = lc
  <2>1. [lc EXCEPT !.ended = "no"] = lc
    BY <1>2 DEF Lifecycles
  <2> QED
    BY <1>2, <2>1 DEF ClearTerminalMarkersForNonTerminal, IsTerminal, Terminal
<1>6. Normalized(row) = new
  BY <1>1, <1>3, <1>4, <1>5 DEF Normalized
<1>7. new \in Rows /\ new.status = "running" /\ new.lifecycle = lc
  BY <1>1, <1>2 DEF Rows, Statuses
<1> QED
  BY <1>2, <1>4, <1>6, <1>7 DEF Tells, row

-----------------------------------------------------------------------------
(* What remembering a mutation does to the cache.                          *)

\* The new entry is the last, every other one is an old one, and those that stay are
\* one further from the end.
LEMMA CacheAppend ==
  ASSUME NEW S, NEW c \in Seq(S), NEW e \in S, Len(c) <= CacheCap
  PROVE  LET n == Latest(Append(c, e)) IN
         /\ n \in Seq(S) /\ Len(n) \in Nat /\ 0 < Len(n) /\ Len(n) <= CacheCap /\ n[Len(n)] = e
         /\ \A i \in DOMAIN n : n[i] = e \/ \E j \in DOMAIN c : n[i] = c[j]
         /\ \A i \in Nat : i < Len(c) /\ i + 1 < CacheCap =>
              i + 1 < Len(n) /\ n[Len(n) - (i + 1)] = c[Len(c) - i]
<1> DEFINE a == Append(c, e)
           n == Latest(a)
           Fits(m) ==
             /\ m \in Seq(S) /\ Len(m) \in Nat /\ 0 < Len(m) /\ Len(m) <= CacheCap /\ m[Len(m)] = e
             /\ \A i \in DOMAIN m : m[i] = e \/ \E j \in DOMAIN c : m[i] = c[j]
             /\ \A i \in Nat : i < Len(c) /\ i + 1 < CacheCap =>
                  i + 1 < Len(m) /\ m[Len(m) - (i + 1)] = c[Len(c) - i]
<1>1. /\ a \in Seq(S) /\ Len(a) = Len(c) + 1 /\ Len(c) \in Nat
      /\ (\A i \in 1 .. Len(c) : a[i] = c[i]) /\ a[Len(c) + 1] = e
  BY AppendProperties
<1>2. CacheCap \in Nat /\ 0 < CacheCap
  BY NativeTaskAssumption
<1>3. DOMAIN c = 1 .. Len(c)
  OBVIOUS
<1>4. ASSUME Len(c) < CacheCap PROVE Fits(n)
  <2>1. n = a
    BY <1>1, <1>2, <1>4 DEF Latest
  <2> HIDE DEF a, n
  <2>2. DOMAIN n = 1 .. Len(c) + 1 /\ \A i \in DOMAIN n : n[i] = e \/ \E j \in DOMAIN c : n[i] = c[j]
    BY <1>1, <1>3, <2>1
  <2>3. \A i \in Nat : i < Len(c) /\ i + 1 < CacheCap =>
              i + 1 < Len(n) /\ n[Len(n) - (i + 1)] = c[Len(c) - i]
    BY <1>1, <1>2, <2>1
  <2> QED
    BY <1>1, <1>2, <1>4, <2>1, <2>2, <2>3
<1>5. ASSUME Len(c) = CacheCap PROVE Fits(n)
  <2>1. n = SubSeq(a, 2, Len(a))
    BY <1>1, <1>2, <1>5 DEF Latest
  <2> HIDE DEF a, n
  <2>2. \A i \in 2 .. Len(a) : a[i] \in S
    BY <1>1
  <2>3. n \in Seq(S) /\ Len(n) = Len(c) /\ \A i \in 1 .. Len(c) : n[i] = a[i + 1]
    <3>1. /\ SubSeq(a, 2, Len(a)) \in Seq(S)
          /\ Len(SubSeq(a, 2, Len(a))) = IF 2 <= Len(a) THEN Len(a) - 2 + 1 ELSE 0
          /\ \A i \in 1 .. Len(a) - 2 + 1 : SubSeq(a, 2, Len(a))[i] = a[2 + i - 1]
      BY <1>1, <2>2, SubSeqProperties
    <3> QED
      BY <1>1, <1>2, <1>5, <2>1, <3>1
  <2>4. \A i \in 1 .. Len(c) : i + 1 <= Len(c) => n[i] = c[i + 1]
    BY <1>1, <2>3
  <2>5. n[Len(n)] = e /\ DOMAIN n = 1 .. Len(c)
    BY <1>1, <1>2, <1>5, <2>3
  <2>6. \A i \in DOMAIN n : n[i] = e \/ \E j \in DOMAIN c : n[i] = c[j]
    BY <1>1, <1>3, <2>3, <2>4, <2>5
  <2>7. \A i \in Nat : i < Len(c) /\ i + 1 < CacheCap =>
              i + 1 < Len(n) /\ n[Len(n) - (i + 1)] = c[Len(c) - i]
    <3> SUFFICES ASSUME NEW i \in Nat, i < Len(c), i + 1 < CacheCap
                 PROVE  i + 1 < Len(n) /\ n[Len(n) - (i + 1)] = c[Len(c) - i]
      OBVIOUS
    <3>1. Len(c) - (i + 1) \in 1 .. Len(c) /\ (Len(c) - (i + 1)) + 1 = Len(c) - i
      BY <1>1, <1>5
    <3> QED
      BY <1>1, <1>5, <2>3, <2>4, <3>1
  <2> QED
    BY <1>2, <1>5, <2>3, <2>5, <2>6, <2>7
<1>6. Fits(n)
  BY <1>1, <1>2, <1>4, <1>5
<1> QED
  BY <1>6

-----------------------------------------------------------------------------
(* What every step of NativeTask keeps.                                    *)

\* No worker goes away, and a thread is never replaced but by cs attach.
Steady ==
  /\ attached \subseteq attached'
  /\ \A w \in Workers : Exists(w) =>
       /\ Exists(w)'
       /\ w \notin attached' => worker[w].thread = None \/ worker'[w].thread = worker[w].thread

\* So a binding that was seen stays.
LEMMA HasKept ==
  ASSUME Steady, NEW w \in Workers, NEW t \in Threads, Has(w, t)
  PROVE  Has(w, t)'
BY NativeTaskAssumption DEF Steady, Has

\* What the cache says stays true.
LEMMA EntryKept ==
  ASSUME Steady, NEW e \in Entries, EntryTrue(e)
  PROVE  EntryTrue(e)'
<1>1. e.command = "dispatch.bind" => e.fp[1] \in Threads
  BY DEF EntryTrue, Identities
<1> QED
  BY <1>1, HasKept DEF EntryTrue, Steady

\* A coordinator that does not move keeps what it was told.
LEMMA CoordinatorKept ==
  ASSUME Steady, NEW p \in Coordinators, Coordinated(p), envelope'[p] = envelope[p],
         thread'[p] = thread[p], pc'[p] \in {pc[p], "refused", "dead"}
  PROVE  Coordinated(p)'
BY HasKept DEF Coordinated, Steady

\* So does a task.
LEMMA TaskKept ==
  ASSUME NativeTypes, Steady, NEW t \in Threads, Tasked(t), prompt'[t] = prompt[t],
         task'[t] \in {task[t], "closed"}, task[t] = "off" => task'[t] = "off"
  PROVE  Tasked(t)'
BY HasKept DEF NativeTypes, Tasked, Steady

\* A cache that is left alone, or that one more true entry is put into, is true.
LEMMA CacheKept ==
  ASSUME NativeInv, Steady,
         \/ completed' = completed
         \/ \E e \in Entries : completed' = Latest(Append(completed, e)) /\ EntryTrue(e)'
  PROVE  (\A i \in DOMAIN completed : EntryTrue(completed[i]))'
<1>1. completed \in Seq(Entries) /\ Len(completed) <= CacheCap
  BY DEF NativeInv, NativeTypes, Window
<1>2. ASSUME NEW f \in Entries, NEW j \in DOMAIN completed, f = completed[j] PROVE EntryTrue(f)'
  <2>1. EntryTrue(f)
    BY <1>2 DEF NativeInv, Bindings
  <2> QED
    BY <2>1, EntryKept
<1>3. \A j \in DOMAIN completed : completed[j] \in Entries
  BY <1>1
<1> SUFFICES ASSUME NEW i \in DOMAIN completed', NEW g, g = completed'[i] PROVE EntryTrue(g)'
  OBVIOUS
<1>4. CASE completed' = completed
  BY <1>2, <1>3, <1>4
<1>5. ASSUME NEW e \in Entries, completed' = Latest(Append(completed, e)), EntryTrue(e)'
      PROVE  EntryTrue(g)'
  <2>1. completed'[i] = e \/ \E j \in DOMAIN completed : completed'[i] = completed[j]
    BY <1>1, <1>5, CacheAppend
  <2> QED
    BY <1>2, <1>3, <1>5, <2>1
<1> QED
  BY <1>4, <1>5

\* Remembering a mutation keeps the types and the window of the cache.
LEMMA WindowKept ==
  ASSUME NativeInv, NEW e \in Entries, Remember(e),
         \A r \in Requests :
            reserves'[r] = reserves[r] \/ (e.command = "dispatch.prepare" /\ e.req = r)
  PROVE  completed' \in Seq(Entries) /\ since' \in [Requests -> Nat] /\ Window'
<1> DEFINE c == completed
           n == Latest(Append(c, e))
<1>1. c \in Seq(Entries) /\ Len(c) <= CacheCap /\ Len(c) \in Nat /\ since \in [Requests -> Nat]
  BY DEF NativeInv, NativeTypes, Window
<1>2. /\ n \in Seq(Entries) /\ Len(n) \in Nat /\ 0 < Len(n) /\ Len(n) <= CacheCap /\ n[Len(n)] = e
      /\ \A i \in Nat : i < Len(c) /\ i + 1 < CacheCap =>
           i + 1 < Len(n) /\ n[Len(n) - (i + 1)] = c[Len(c) - i]
  <2>1. n \in Seq(Entries) /\ Len(n) \in Nat /\ 0 < Len(n) /\ Len(n) <= CacheCap /\ n[Len(n)] = e
    BY <1>1, CacheAppend
  <2>2. \A i \in Nat : i < Len(c) /\ i + 1 < CacheCap =>
           i + 1 < Len(n) /\ n[Len(n) - (i + 1)] = c[Len(c) - i]
    BY <1>1, CacheAppend
  <2> HIDE DEF n
  <2> QED
    BY <2>1, <2>2
<1>3. completed' = n
  BY DEF Remember
<1>4. since' \in [Requests -> Nat]
        /\ \A r \in Requests : since'[r] = IF e.command = "dispatch.prepare" /\ e.req = r
                                           THEN 0 ELSE since[r] + 1
  BY <1>1 DEF Remember
<1> HIDE DEF n
<1>5. ASSUME NEW r \in Requests, reserves'[r] > 0, since'[r] < CacheCap
      PROVE  /\ since'[r] < Len(n)
             /\ n[Len(n) - since'[r]].command = "dispatch.prepare" /\ n[Len(n) - since'[r]].req = r
  <2>1. CASE e.command = "dispatch.prepare" /\ e.req = r
    BY <1>2, <1>4, <2>1
  <2>2. CASE ~(e.command = "dispatch.prepare" /\ e.req = r)
    <3>1. reserves[r] > 0 /\ since'[r] = since[r] + 1 /\ since[r] \in Nat
      BY <1>1, <1>4, <1>5, <2>2
    <3>2. /\ since[r] < Len(c) /\ c[Len(c) - since[r]].command = "dispatch.prepare"
          /\ c[Len(c) - since[r]].req = r
      BY <1>5, <3>1, NativeTaskAssumption DEF NativeInv, Window
    <3> QED
      BY <1>2, <1>5, <3>1, <3>2
  <2> QED
    BY <2>1, <2>2
<1> QED
  BY <1>2, <1>3, <1>4, <1>5 DEF Window

\* A save of a row that tells a status.
LEMMA SaveFacts ==
  ASSUME NativeInv, NEW w \in Workers, NEW row, NEW s \in Statuses, Save(w, row, s),
         Tells(Normalized(row), s)
  PROVE  /\ worker' \in [Workers -> Rows \cup {Absent}] /\ asked' \in [Workers -> Statuses \cup {None}]
         /\ worker'[w] = Normalized(row) /\ Exists(w)'
         /\ \A v \in Workers \ {w} : worker'[v] = worker[v]
         /\ RowsTell'
<1> DEFINE new == Normalized(row)
<1>1. new \in Rows /\ new # Absent
  BY RowFields DEF Tells
<1>2. worker' = [worker EXCEPT ![w] = new] /\ asked' = [asked EXCEPT ![w] = s]
  BY DEF Save
<1>3. Tells(new, s)
  OBVIOUS
<1> HIDE DEF new
<1>4. worker' \in [Workers -> Rows \cup {Absent}] /\ asked' \in [Workers -> Statuses \cup {None}]
  BY <1>1, <1>2 DEF NativeInv, NativeTypes
<1>5. /\ worker'[w] = new /\ \A v \in Workers \ {w} : worker'[v] = worker[v] /\ asked'[v] = asked[v]
      /\ asked'[w] = s
  BY <1>2 DEF NativeInv, NativeTypes
<1>6. RowsTell'
  BY <1>3, <1>5 DEF NativeInv, RowsTell, Exists
<1> QED
  BY <1>1, <1>4, <1>5, <1>6 DEF Exists, new

\* A row that is in the ledger.
LEMMA RowOf ==
  ASSUME NativeInv, NEW w \in Workers, Exists(w)
  PROVE  worker[w] \in Rows
BY DEF NativeInv, RowsTell, Tells

-----------------------------------------------------------------------------
(* Every step of NativeTask keeps the invariant.                           *)

\* A step that leaves the rows alone is steady.
LEMMA SteadyRows == ASSUME UNCHANGED <<worker, attached>> PROVE Steady
BY DEF Steady, Exists

\* cs dispatch prepare: refused, replayed, or a new row that nobody knows yet.
LEMMA PrepareInv ==
  ASSUME NativeInv, NEW p \in Coordinators, Prepare(p)
  PROVE  NativeInv'
<1> USE DEF NativeInv
<1>1. /\ pc[p] = "off" /\ ReserveNativeTask(p)
      /\ UNCHANGED <<req, env, thread, turn, prompt, task, others, attached>>
  BY DEF Prepare, tasks
<1>2. ASSUME pc' = [pc EXCEPT ![p] = "refused"],
             UNCHANGED <<worker, completed, envelope, asked, reserves, since>>
      PROVE  NativeInv'
  <2>1. Steady
    BY <1>1, <1>2, SteadyRows
  <2>2. NativeTypes'
    BY <1>1, <1>2 DEF NativeTypes
  <2>3. \A q \in Coordinators : pc'[q] \in {pc[q], "refused"}
    BY <1>2 DEF NativeTypes
  <2>4. Bindings'
    BY <1>1, <1>2, <2>1, <2>3, CoordinatorKept, TaskKept, CacheKept DEF Bindings
  <2> QED
    BY <1>2, <2>2, <2>4 DEF RowsTell, Exists, Window
<1>3. ASSUME NEW e \in Remembered("dispatch.prepare", req[p]),
             envelope' = [envelope EXCEPT ![p] = e.worker], pc' = [pc EXCEPT ![p] = "prepared"],
             UNCHANGED <<worker, completed, asked, reserves, since>>
      PROVE  NativeInv'
  <2>1. Steady
    BY <1>1, <1>3, SteadyRows
  <2>2. e.worker \in Workers /\ Exists(e.worker)
    BY DEF Remembered, Bindings, EntryTrue
  <2>3. NativeTypes'
    BY <1>1, <1>3, <2>2 DEF NativeTypes
  <2>4. /\ pc'[p] = "prepared" /\ envelope'[p] = e.worker
        /\ \A q \in Coordinators \ {p} : pc'[q] = pc[q] /\ envelope'[q] = envelope[q]
    BY <1>3 DEF NativeTypes
  <2>5. Coordinated(p)'
    BY <1>3, <2>2, <2>4 DEF Coordinated, Exists
  <2>6. Bindings'
    BY <1>1, <1>3, <2>1, <2>4, <2>5, CoordinatorKept, TaskKept, CacheKept DEF Bindings
  <2> QED
    BY <1>3, <2>3, <2>6 DEF RowsTell, Exists, Window
<1>4. ASSUME Reserve(p) PROVE NativeInv'
  <2>1. PICK w \in Workers :
          /\ ~Exists(w)
          /\ Save(w, ApplyStatusAt(newWorker(env[p], "pending"), "pending"), "pending")
          /\ reserves' = [reserves EXCEPT ![req[p]] = @ + 1]
          /\ Remember(Entry("dispatch.prepare", req[p], env[p], w))
          /\ envelope' = [envelope EXCEPT ![p] = w] /\ pc' = [pc EXCEPT ![p] = "prepared"]
    BY <1>4 DEF Reserve
  <2> DEFINE row == ApplyStatusAt(newWorker(env[p], "pending"), "pending")
  <2>2. Tells(Normalized(row), "pending") /\ "pending" \in Statuses
    <3>1. newWorker(env[p], "pending") \in Rows /\ "pending" \in Statuses
      BY NewRow DEF NativeTypes, Statuses
    <3> QED
      BY <3>1, StatusSet
  <2> HIDE DEF row
  <2>3. /\ worker' \in [Workers -> Rows \cup {Absent}] /\ asked' \in [Workers -> Statuses \cup {None}]
        /\ Exists(w)' /\ (\A v \in Workers \ {w} : worker'[v] = worker[v]) /\ RowsTell'
    BY <2>1, <2>2, SaveFacts DEF row
  <2>4. PICK e \in Entries : /\ e = Entry("dispatch.prepare", req[p], env[p], w)
                            /\ e.command = "dispatch.prepare" /\ e.req = req[p] /\ e.worker = w
    <3> DEFINE n == Entry("dispatch.prepare", req[p], env[p], w)
    <3>1. n \in Entries /\ n.command = "dispatch.prepare" /\ n.req = req[p] /\ n.worker = w
      BY DEF Entry, Entries, NativeTypes
    <3> QED
      BY <3>1
  <2>5. Steady
    BY <1>1, <2>1, <2>3 DEF Steady, Exists
  <2>6. \A r \in Requests : reserves'[r] = reserves[r] \/ (e.command = "dispatch.prepare" /\ e.req = r)
    BY <2>1, <2>4 DEF NativeTypes
  <2>7. completed' \in Seq(Entries) /\ since' \in [Requests -> Nat] /\ Window'
    BY <2>1, <2>4, <2>6, WindowKept
  <2>8. NativeTypes'
    <3>1. reserves' \in [Requests -> Nat]
      BY <2>1 DEF NativeTypes
    <3> QED
      BY <1>1, <2>1, <2>3, <2>7, <3>1 DEF NativeTypes
  <2>9. /\ pc'[p] = "prepared" /\ envelope'[p] = w
        /\ \A q \in Coordinators \ {p} : pc'[q] = pc[q] /\ envelope'[q] = envelope[q]
    BY <2>1 DEF NativeTypes
  <2>10. Coordinated(p)'
    BY <2>3, <2>9 DEF Coordinated
  <2>11. EntryTrue(e)'
    BY <2>3, <2>4 DEF EntryTrue
  <2>12. completed' = Latest(Append(completed, e))
    BY <2>1, <2>4 DEF Remember
  <2>13. Bindings'
    BY <1>1, <2>4, <2>5, <2>9, <2>10, <2>11, <2>12, CoordinatorKept, TaskKept, CacheKept DEF Bindings
  <2> QED
    BY <2>3, <2>7, <2>8, <2>13
<1> QED
  BY <1>1, <1>2, <1>3, <1>4 DEF ReserveNativeTask

\* A task is created for the envelope's worker, or one that names it is found.
LEMMA ReadTaskInv ==
  ASSUME NativeInv, NEW p \in Coordinators, ReadTask(p)
  PROVE  NativeInv'
<1> USE DEF NativeInv
<1>1. PICK t \in Threads, u \in {"active", None} :
        /\ prompt[t] \in {None, envelope[p]}
        /\ prompt' = [prompt EXCEPT ![t] = envelope[p]]
        /\ task' = [task EXCEPT ![t] = IF @ = "off" THEN "waiting" ELSE @]
        /\ thread' = [thread EXCEPT ![p] = t] /\ turn' = [turn EXCEPT ![p] = u]
  BY DEF ReadTask
<1>2. /\ pc[p] = "prepared" /\ pc' = [pc EXCEPT ![p] = "read"]
      /\ UNCHANGED <<worker, completed, req, env, envelope, others, asked, attached, reserves, since>>
  BY DEF ReadTask
<1>3. Steady
  BY <1>2, SteadyRows
<1>4. envelope[p] \in Workers /\ Exists(envelope[p])
  BY <1>2 DEF Bindings, Coordinated
<1>5. NativeTypes'
  BY <1>1, <1>2, <1>4 DEF NativeTypes
<1>6. /\ pc'[p] = "read" /\ thread'[p] = t
      /\ \A q \in Coordinators \ {p} : pc'[q] = pc[q] /\ thread'[q] = thread[q]
  BY <1>1, <1>2 DEF NativeTypes
<1>7. /\ prompt'[t] = envelope[p] /\ task'[t] = (IF task[t] = "off" THEN "waiting" ELSE task[t])
      /\ \A v \in Threads \ {t} : prompt'[v] = prompt[v] /\ task'[v] = task[v]
  BY <1>1 DEF NativeTypes
<1>8. Coordinated(p)'
  BY <1>2, <1>4, <1>6 DEF Coordinated, Exists
<1>9. Tasked(t)'
  BY <1>1, <1>2, <1>4, <1>7, NativeTaskAssumption DEF Bindings, Tasked, Exists, Has
<1>10. Bindings'
  BY <1>2, <1>3, <1>6, <1>7, <1>8, <1>9, CoordinatorKept, TaskKept, CacheKept DEF Bindings
<1> QED
  BY <1>2, <1>5, <1>10 DEF RowsTell, Exists, Window

\* A row that BindNativeTask accepts and saves has the task's thread, which it had or
\* which is its first.
LEMMA BoundRow ==
  ASSUME NEW row \in Rows, NEW t \in Threads, NEW u \in {"active", None}
  PROVE  LET s == IF u # None THEN "running" ELSE "idle"
             new == Normalized(Bound(row, t, u))
         IN  s \in Statuses /\ Tells(new, s) /\ new.thread = t
<1> DEFINE s == IF u # None THEN "running" ELSE "idle"
           given == [row EXCEPT !.thread = t, !.turn = u,
                       !.checkout = IF row.environment = "worktree" THEN Checkout(t, "worktree") ELSE @]
<1>1. given \in Rows /\ given.thread = t
  BY DEF Rows, Checkout
<1>2. s \in Statuses
  BY DEF Statuses
<1>3. Bound(row, t, u) = ApplyStatusAt(given, s)
  BY DEF Bound
<1> HIDE DEF given, s
<1>4. Tells(Normalized(ApplyStatusAt(given, s)), s) /\ Normalized(ApplyStatusAt(given, s)).thread = t
  BY <1>1, <1>2, StatusSet
<1> QED
  BY <1>2, <1>3, <1>4 DEF s

\* cs dispatch bind: refused, answered from the cache, or a new binding.
LEMMA BindInv ==
  ASSUME NativeInv, NEW p \in Coordinators, Bind(p)
  PROVE  NativeInv'
<1> USE DEF NativeInv
<1>1. PICK w, t, u : w = envelope[p] /\ t = thread[p] /\ u = turn[p]
  OBVIOUS
<1>2. /\ pc[p] = "read" /\ BindNativeTask(p)
      /\ UNCHANGED <<req, env, envelope, thread, turn, prompt, task, others, attached, reserves>>
  BY DEF Bind, tasks
<1>3. w \in Workers /\ Exists(w) /\ t \in Threads /\ u \in {"active", None}
  BY <1>1, <1>2 DEF Bindings, Coordinated, NativeTypes
<1>4. ASSUME pc' = [pc EXCEPT ![p] = "refused"], UNCHANGED <<worker, completed, asked, since>>
      PROVE  NativeInv'
  <2>1. Steady
    BY <1>2, <1>4, SteadyRows
  <2>2. NativeTypes'
    BY <1>2, <1>4 DEF NativeTypes
  <2>3. \A q \in Coordinators : pc'[q] \in {pc[q], "refused"}
    BY <1>4 DEF NativeTypes
  <2>4. Bindings'
    BY <1>2, <1>4, <2>1, <2>3, CoordinatorKept, TaskKept, CacheKept DEF Bindings
  <2> QED
    BY <1>2, <1>4, <2>2, <2>4 DEF RowsTell, Exists, Window
<1>5. ASSUME NEW e \in Remembered("dispatch.bind", w), SameBinding(e, <<t, u>>),
             pc' = [pc EXCEPT ![p] = "bound"], UNCHANGED <<worker, completed, asked, since>>
      PROVE  NativeInv'
  <2>1. Steady
    BY <1>2, <1>5, SteadyRows
  <2>2. NativeTypes'
    BY <1>2, <1>5 DEF NativeTypes
  <2>3. Has(w, t)
    BY <1>5 DEF Remembered, SameBinding, Bindings, EntryTrue
  <2>4. pc'[p] = "bound" /\ \A q \in Coordinators \ {p} : pc'[q] = pc[q]
    BY <1>5 DEF NativeTypes
  <2>5. Has(w, t)'
    BY <1>3, <2>1, <2>3, HasKept
  <2>6. Coordinated(p)'
    BY <1>1, <1>2, <1>3, <2>4, <2>5 DEF Coordinated, Has
  <2>7. Bindings'
    BY <1>2, <1>5, <2>1, <2>4, <2>6, CoordinatorKept, TaskKept, CacheKept DEF Bindings
  <2> QED
    BY <1>2, <1>5, <2>2, <2>7 DEF RowsTell, Exists, Window
<1>6. ASSUME Bindable(worker[w], t, u),
             Save(w, Bound(worker[w], t, u), IF u # None THEN "running" ELSE "idle"),
             Remember(Entry("dispatch.bind", w, <<t, u>>, w)), pc' = [pc EXCEPT ![p] = "bound"]
      PROVE  NativeInv'
  <2>1. PICK s : s = (IF u # None THEN "running" ELSE "idle")
    OBVIOUS
  <2>2. /\ s \in Statuses /\ Tells(Normalized(Bound(worker[w], t, u)), s)
        /\ Normalized(Bound(worker[w], t, u)).thread = t
    BY <1>3, <2>1, RowOf, BoundRow
  <2>3. /\ worker' \in [Workers -> Rows \cup {Absent}] /\ asked' \in [Workers -> Statuses \cup {None}]
        /\ worker'[w].thread = t /\ Exists(w)'
        /\ (\A v \in Workers \ {w} : worker'[v] = worker[v]) /\ RowsTell'
    BY <1>3, <1>6, <2>1, <2>2, SaveFacts
  <2>4. PICK e \in Entries : /\ e = Entry("dispatch.bind", w, <<t, u>>, w) /\ e.fp = <<t, u>>
                            /\ e.command = "dispatch.bind" /\ e.req = w
    <3> DEFINE n == Entry("dispatch.bind", w, <<t, u>>, w)
    <3>1. <<t, u>> \in Identities
      BY <1>3 DEF Identities
    <3>2. n \in Entries /\ n.fp = <<t, u>> /\ n.command = "dispatch.bind" /\ n.req = w
      BY <1>3, <3>1 DEF Entry, Entries
    <3> QED
      BY <3>2
  <2>5. worker[w].thread \in {None, t}
    BY <1>6 DEF Bindable
  <2>6. Steady
    BY <1>2, <1>3, <2>3, <2>5 DEF Steady, Exists
  <2>7. completed' \in Seq(Entries) /\ since' \in [Requests -> Nat] /\ Window'
    BY <1>2, <1>6, <2>4, WindowKept
  <2>8. NativeTypes'
    BY <1>2, <1>6, <2>3, <2>7 DEF NativeTypes
  <2>9. pc'[p] = "bound" /\ \A q \in Coordinators \ {p} : pc'[q] = pc[q]
    BY <1>6 DEF NativeTypes
  <2>10. Has(w, t)'
    BY <2>3 DEF Has
  <2>11. Coordinated(p)'
    BY <1>1, <1>2, <1>3, <2>3, <2>9, <2>10 DEF Coordinated
  <2>12. EntryTrue(e)'
    BY <1>3, <2>4, <2>10 DEF EntryTrue, Identities
  <2>13. completed' = Latest(Append(completed, e))
    BY <1>6, <2>4 DEF Remember
  <2>14. Bindings'
    BY <1>2, <2>6, <2>9, <2>11, <2>12, <2>13, CoordinatorKept, TaskKept, CacheKept DEF Bindings
  <2> QED
    BY <2>3, <2>7, <2>8, <2>14
<1> QED
  BY <1>1, <1>2, <1>4, <1>5, <1>6 DEF BindNativeTask

\* A coordinator that dies leaves its reservation and its task.
LEMMA DieInv ==
  ASSUME NativeInv, NEW p \in Coordinators, Die(p)
  PROVE  NativeInv'
<1> USE DEF NativeInv, Die, tasks
<1>1. Steady
  BY SteadyRows
<1>2. NativeTypes'
  BY DEF NativeTypes
<1>3. \A q \in Coordinators : pc'[q] \in {pc[q], "dead"}
  BY DEF NativeTypes
<1>4. Bindings'
  BY <1>1, <1>3, CoordinatorKept, TaskKept, CacheKept DEF Bindings
<1> QED
  BY <1>2, <1>4 DEF RowsTell, Exists, Window

\* A task that finds its own thread at its worker begins to work.
LEMMA ShowInv ==
  ASSUME NativeInv, NEW t \in Threads, Show(t)
  PROVE  NativeInv'
<1> USE DEF NativeInv, Show, coordinator
<1>1. Steady
  BY SteadyRows
<1>2. NativeTypes'
  BY DEF NativeTypes
<1>3. task'[t] = "working" /\ \A v \in Threads \ {t} : task'[v] = task[v]
  BY DEF NativeTypes
<1>4. Tasked(t)'
  BY <1>3 DEF Bindings, Tasked, Has, Exists
<1>5. Bindings'
  BY <1>1, <1>3, <1>4, CoordinatorKept, TaskKept, CacheKept DEF Bindings
<1> QED
  BY <1>2, <1>5 DEF RowsTell, Exists, Window

\* A mutation of no concern.
LEMMA OtherEntry == Other \in Entries /\ Other.command = "other"
BY DEF Other, Entry, Entries

\* A task closes its worker.
LEMMA CloseOwnInv ==
  ASSUME NativeInv, NEW t \in Threads, CloseOwn(t)
  PROVE  NativeInv'
<1> USE DEF NativeInv
<1>1. PICK w : w = prompt[t]
  OBVIOUS
<1>2. PICK s \in Terminal : Save(w, ApplyStatusAt(worker[w], s), s)
  BY <1>1 DEF CloseOwn
<1>3. /\ task[t] = "working" /\ Remember(Other) /\ task' = [task EXCEPT ![t] = "closed"]
      /\ UNCHANGED <<pc, req, env, envelope, thread, turn, prompt, others, attached, reserves>>
  BY DEF CloseOwn, coordinator
<1>4. w \in Workers /\ Exists(w) /\ s \in Statuses
  BY <1>1, <1>3 DEF Bindings, Tasked, NativeTypes, Terminal, Statuses
<1>5. /\ Tells(Normalized(ApplyStatusAt(worker[w], s)), s)
      /\ Normalized(ApplyStatusAt(worker[w], s)).thread = worker[w].thread
  BY <1>4, RowOf, StatusSet
<1>6. /\ worker' \in [Workers -> Rows \cup {Absent}] /\ asked' \in [Workers -> Statuses \cup {None}]
      /\ worker'[w].thread = worker[w].thread /\ Exists(w)'
      /\ (\A v \in Workers \ {w} : worker'[v] = worker[v]) /\ RowsTell'
  BY <1>2, <1>4, <1>5, SaveFacts
<1>7. Steady
  BY <1>3, <1>4, <1>6 DEF Steady, Exists
<1>8. completed' \in Seq(Entries) /\ since' \in [Requests -> Nat] /\ Window'
  BY <1>3, OtherEntry, WindowKept
<1>9. NativeTypes'
  BY <1>3, <1>6, <1>8 DEF NativeTypes
<1>10. \A v \in Threads : task'[v] \in {task[v], "closed"} /\ (task[v] = "off" => task'[v] = "off")
  BY <1>3 DEF NativeTypes
<1>11. PICK e \in Entries : e = Other /\ e.command = "other" /\ completed' = Latest(Append(completed, e))
  BY <1>3, OtherEntry DEF Remember
<1>12. EntryTrue(e)'
  BY <1>11 DEF EntryTrue
<1>13. Bindings'
  BY <1>3, <1>7, <1>10, <1>11, <1>12, CoordinatorKept, TaskKept, CacheKept DEF Bindings
<1> QED
  BY <1>6, <1>8, <1>9, <1>13

\* cs attach gives an existing worker another thread, and is on record for it.
LEMMA AttachInv ==
  ASSUME NativeInv, NEW w \in Workers, NEW t \in Threads, Attach(w, t)
  PROVE  NativeInv'
<1> USE DEF NativeInv
<1>1. PICK live \in BOOLEAN, u \in {"active", None}, s \in {"running", "idle"} :
        Save(w, ApplyStatusAt([worker[w] EXCEPT !.thread = t, !.turn = u, !.external = live], s), s)
  BY DEF Attach
<1>2. /\ Exists(w) /\ attached' = attached \cup {w}
      /\ UNCHANGED <<completed, pc, req, env, envelope, thread, turn, prompt, task, reserves, since>>
  BY DEF Attach, coordinator, tasks
<1>3. PICK row \in Rows : row = [worker[w] EXCEPT !.thread = t, !.turn = u, !.external = live]
  <2>1. worker[w] \in Rows
    BY <1>2, RowOf
  <2>2. [worker[w] EXCEPT !.thread = t, !.turn = u, !.external = live] \in Rows
    BY <2>1 DEF Rows
  <2> QED
    BY <2>2
<1>4. s \in Statuses /\ Tells(Normalized(ApplyStatusAt(row, s)), s)
  BY StatusSet DEF Statuses
<1>5. /\ worker' \in [Workers -> Rows \cup {Absent}] /\ asked' \in [Workers -> Statuses \cup {None}]
      /\ Exists(w)' /\ (\A v \in Workers \ {w} : worker'[v] = worker[v]) /\ RowsTell'
  BY <1>1, <1>3, <1>4, SaveFacts
<1>6. Steady
  BY <1>2, <1>5 DEF Steady, Exists
<1>7. NativeTypes'
  BY <1>2, <1>5 DEF NativeTypes
<1>8. Bindings'
  BY <1>2, <1>6, CoordinatorKept, TaskKept, CacheKept DEF Bindings
<1> QED
  BY <1>2, <1>5, <1>7, <1>8 DEF Window

\* cs attach of a new worker.
LEMMA AttachNewInv ==
  ASSUME NativeInv, NEW w \in Workers, NEW t \in Threads, AttachNew(w, t)
  PROVE  NativeInv'
<1> USE DEF NativeInv
<1>1. PICK row \in Rows : row = [newWorker(None, "idle") EXCEPT !.thread = t, !.external = FALSE]
  <2>1. newWorker(None, "idle") \in Rows
    BY NewRow DEF Statuses
  <2>2. [newWorker(None, "idle") EXCEPT !.thread = t, !.external = FALSE] \in Rows
    BY <2>1 DEF Rows
  <2> QED
    BY <2>2
<1>2. /\ ~Exists(w) /\ attached' = attached \cup {w} /\ Save(w, ApplyStatusAt(row, "idle"), "idle")
      /\ UNCHANGED <<completed, pc, req, env, envelope, thread, turn, prompt, task, reserves, since>>
  BY <1>1 DEF AttachNew, coordinator, tasks
<1>3. "idle" \in Statuses /\ Tells(Normalized(ApplyStatusAt(row, "idle")), "idle")
  BY StatusSet DEF Statuses
<1>4. /\ worker' \in [Workers -> Rows \cup {Absent}] /\ asked' \in [Workers -> Statuses \cup {None}]
      /\ Exists(w)' /\ (\A v \in Workers \ {w} : worker'[v] = worker[v]) /\ RowsTell'
  BY <1>2, <1>3, SaveFacts
<1>5. Steady
  BY <1>2, <1>4 DEF Steady, Exists
<1>6. NativeTypes'
  BY <1>2, <1>4 DEF NativeTypes
<1>7. Bindings'
  BY <1>2, <1>5, CoordinatorKept, TaskKept, CacheKept DEF Bindings
<1> QED
  BY <1>2, <1>4, <1>6, <1>7 DEF Window

\* An operator's command sets a status.
LEMMA SetStatusInv ==
  ASSUME NativeInv, NEW w \in Workers, NEW s \in {"idle"} \cup Terminal, SetStatus(w, s)
  PROVE  NativeInv'
<1> USE DEF NativeInv
<1>1. /\ Exists(w) /\ Save(w, ApplyStatusAt(worker[w], s), s) /\ s \in Statuses
      /\ UNCHANGED <<completed, pc, req, env, envelope, thread, turn, prompt, task, attached, reserves, since>>
  BY DEF SetStatus, coordinator, tasks, Terminal, Statuses
<1>2. /\ Tells(Normalized(ApplyStatusAt(worker[w], s)), s)
      /\ Normalized(ApplyStatusAt(worker[w], s)).thread = worker[w].thread
  BY <1>1, RowOf, StatusSet
<1>3. /\ worker' \in [Workers -> Rows \cup {Absent}] /\ asked' \in [Workers -> Statuses \cup {None}]
      /\ worker'[w].thread = worker[w].thread /\ Exists(w)'
      /\ (\A v \in Workers \ {w} : worker'[v] = worker[v]) /\ RowsTell'
  BY <1>1, <1>2, SaveFacts
<1>4. Steady
  BY <1>1, <1>3 DEF Steady, Exists
<1>5. NativeTypes'
  BY <1>1, <1>3 DEF NativeTypes
<1>6. Bindings'
  BY <1>1, <1>4, CoordinatorKept, TaskKept, CacheKept DEF Bindings
<1> QED
  BY <1>1, <1>3, <1>5, <1>6 DEF Window

\* A mutation of another worker only moves the cache.
LEMMA MutateInv ==
  ASSUME NativeInv, Mutate
  PROVE  NativeInv'
<1> USE DEF NativeInv
<1>1. /\ Remember(Other)
      /\ UNCHANGED <<worker, pc, req, env, envelope, thread, turn, prompt, task, asked, attached, reserves>>
  BY DEF Mutate, coordinator, tasks
<1>2. Steady
  BY <1>1, SteadyRows
<1>3. completed' \in Seq(Entries) /\ since' \in [Requests -> Nat] /\ Window'
  BY <1>1, OtherEntry, WindowKept
<1>4. NativeTypes'
  BY <1>1, <1>3 DEF NativeTypes
<1>5. PICK e \in Entries : e = Other /\ e.command = "other" /\ completed' = Latest(Append(completed, e))
  BY <1>1, OtherEntry DEF Remember
<1>6. EntryTrue(e)'
  BY <1>5 DEF EntryTrue
<1>7. Bindings'
  BY <1>1, <1>2, <1>5, <1>6, CoordinatorKept, TaskKept, CacheKept DEF Bindings
<1> QED
  BY <1>1, <1>3, <1>4, <1>7 DEF RowsTell, Exists

\* At first there is the parent alone, and it is running.
LEMMA NativeInit == Init => NativeInv
<1> SUFFICES ASSUME Init PROVE NativeInv
  OBVIOUS
<1>1. PICK row \in Rows : row = Normalized(newWorker(None, "running")) /\ Tells(row, "running")
  BY ParentTells DEF Tells
<1>2. worker = [w \in Workers |-> IF w = Parent THEN row ELSE Absent]
  BY <1>1 DEF Init
<1>3. NativeTypes
  BY <1>2 DEF Init, NativeTypes, Statuses
<1>4. RowsTell
  BY <1>1, <1>2 DEF Init, RowsTell, Exists
<1>5. Bindings
  BY DEF Init, Bindings, Coordinated, Tasked
<1>6. Window
  BY NativeTaskAssumption DEF Init, Window
<1> QED
  BY <1>3, <1>4, <1>5, <1>6 DEF NativeInv

\* Every step, or none, keeps the invariant.
LEMMA NativeStep == NativeInv /\ [Next]_vars => NativeInv'
<1> SUFFICES ASSUME NativeInv, [Next]_vars PROVE NativeInv'
  OBVIOUS
<1>1. CASE UNCHANGED vars
  BY <1>1 DEF vars, coordinator, tasks, NativeInv, NativeTypes, RowsTell, Exists, Bindings, Coordinated, Tasked,
     EntryTrue, Has, Window
<1>2. CASE Next
  BY <1>2, PrepareInv, ReadTaskInv, BindInv, DieInv, ShowInv, CloseOwnInv, AttachInv, AttachNewInv,
     SetStatusInv, MutateInv DEF Next
<1> QED
  BY <1>1, <1>2

-----------------------------------------------------------------------------
(* The theorems about reserved workers.                                    *)

\* In every reachable state the rows tell what was asked for, and every binding that a
\* coordinator, a task or the cache knows of is the worker's (ReserveNativeTask,
\* BindNativeTask, ApplyStatusAt).
THEOREM NativeInvariance == Spec => []NativeInv
BY NativeInit, NativeStep, PTL DEF Spec

\* The status a command asked for is the one that is stored and shown, after whatever
\* history of the row (ApplyStatusAt, normalizeWorkerLifecycleForSave).
THEOREM StatusLandsHolds == Spec => []StatusLands
<1>1. NativeInv => StatusLands
  BY DEF NativeInv, RowsTell, Tells, StatusLands
<1> QED
  BY <1>1, NativeInvariance, PTL

\* A bind that reported success stays true: also when it was replayed, when there are
\* two tasks for one reservation, and when the cache has forgotten it (BindNativeTask).
THEOREM BindAnswerTrueHolds == Spec => []BindAnswerTrue
<1>1. NativeInv => BindAnswerTrue
  BY DEF NativeInv, Bindings, Coordinated, Has, BindAnswerTrue
<1> QED
  BY <1>1, NativeInvariance, PTL

\* A task closes only a worker that is bound to it, however many tasks were made for the
\* same reservation (nativeTaskPrompt, CloseWorker).
THEOREM OwnTaskClosesHolds == Spec => OwnTaskCloses
<1> DEFINE Closes == \A t \in Threads : task[t] # task'[t] /\ task'[t] = "closed"
                        /\ prompt[t] \notin attached => worker[prompt[t]].thread = t
<1>1. NativeInv /\ [Next]_vars => [Closes]_vars
  <2> SUFFICES ASSUME NativeInv, [Next]_vars, NEW t \in Threads, task[t] # task'[t], task'[t] = "closed",
                      prompt[t] \notin attached
               PROVE  worker[prompt[t]].thread = t
    OBVIOUS
  <2>1. Next
    BY DEF vars, tasks
  <2>2. task[t] = "working"
    <3> USE DEF NativeInv, NativeTypes
    <3>1. ASSUME NEW p \in Coordinators, Prepare(p) \/ Bind(p) \/ Die(p) PROVE FALSE
      BY <3>1 DEF Prepare, Bind, Die, tasks
    <3>2. ASSUME NEW p \in Coordinators, ReadTask(p) PROVE FALSE
      BY <3>2 DEF ReadTask
    <3>3. ASSUME NEW v \in Threads, Show(v) PROVE FALSE
      BY <3>3 DEF Show
    <3>4. ASSUME NEW v \in Threads, CloseOwn(v) PROVE task[t] = "working"
      BY <3>4 DEF CloseOwn
    <3>5. ASSUME NEW w \in Workers, NEW v \in Threads, Attach(w, v) \/ AttachNew(w, v) PROVE FALSE
      BY <3>5 DEF Attach, AttachNew, tasks
    <3>6. ASSUME NEW w \in Workers, NEW s \in {"idle"} \cup Terminal, SetStatus(w, s) PROVE FALSE
      BY <3>6 DEF SetStatus, tasks
    <3>7. ASSUME Mutate PROVE FALSE
      BY <3>7 DEF Mutate, tasks
    <3> QED
      BY <2>1, <3>1, <3>2, <3>3, <3>4, <3>5, <3>6, <3>7 DEF Next
  <2> QED
    BY <2>2 DEF NativeInv, Bindings, Tasked, Has
<1> QED
  BY <1>1, NativeInvariance, PTL DEF Spec, OwnTaskCloses

\* A request reserves a second worker only after CacheCap later mutations have pushed
\* its first reservation out of the cache (ReserveNativeTask).
THEOREM ReservedOncePerWindowHolds == Spec => ReservedOncePerWindow
<1> DEFINE Again == \A r \in Requests :
                       reserves'[r] > reserves[r] /\ reserves[r] > 0 => since[r] >= CacheCap
<1>1. NativeInv /\ [Next]_vars => [Again]_vars
  <2> SUFFICES ASSUME NativeInv, [Next]_vars, NEW r \in Requests, reserves'[r] > reserves[r],
                      reserves[r] > 0, since[r] < CacheCap
               PROVE  FALSE
    BY NativeTaskAssumption DEF NativeInv, NativeTypes
  <2> USE DEF NativeInv, NativeTypes
  <2>1. reserves' # reserves
    OBVIOUS
  <2>2. PICK p \in Coordinators : Prepare(p)
    <3>1. Next
      BY <2>1 DEF vars
    <3> QED
      BY <2>1, <3>1 DEF Next, ReadTask, Bind, Die, Show, CloseOwn, Attach, AttachNew, SetStatus, Mutate
  <2>3. Reserve(p) /\ Remembered("dispatch.prepare", req[p]) = {}
    BY <2>1, <2>2 DEF Prepare, ReserveNativeTask
  <2>4. req[p] = r
    BY <2>3 DEF Reserve
  <2>5. PICK i : i = Len(completed) - since[r]
    OBVIOUS
  <2>6. i \in DOMAIN completed /\ completed[i].command = "dispatch.prepare" /\ completed[i].req = r
    BY <2>5, NativeTaskAssumption DEF Window
  <2> QED
    BY <2>3, <2>4, <2>6 DEF Remembered
<1> QED
  BY <1>1, NativeInvariance, PTL DEF Spec, ReservedOncePerWindow

-----------------------------------------------------------------------------
(* Closing a worker.                                                       *)

\* Remembering keeps the types and the window of the cache.
LEMMA CloseRemembers ==
  ASSUME CloseInv, NEW e \in CloseEntries, C!Remember(e),
         \A r \in CloseRequests : closes'[r] = closes[r] \/ e.req = r
  PROVE  /\ remembered' \in Seq(CloseEntries) /\ csince' \in [CloseRequests -> Nat] /\ CloseWindow'
         /\ \A i \in DOMAIN remembered' : remembered'[i] = e \/ \E j \in DOMAIN remembered :
              remembered'[i] = remembered[j]
<1> DEFINE c == remembered
           n == Latest(Append(c, e))
<1>1. c \in Seq(CloseEntries) /\ Len(c) <= CacheCap /\ Len(c) \in Nat /\ csince \in [CloseRequests -> Nat]
  BY DEF CloseInv, CloseTypes, CloseWindow
<1>2. /\ n \in Seq(CloseEntries) /\ Len(n) \in Nat /\ 0 < Len(n) /\ Len(n) <= CacheCap /\ n[Len(n)] = e
      /\ \A i \in DOMAIN n : n[i] = e \/ \E j \in DOMAIN c : n[i] = c[j]
      /\ \A i \in Nat : i < Len(c) /\ i + 1 < CacheCap =>
           i + 1 < Len(n) /\ n[Len(n) - (i + 1)] = c[Len(c) - i]
  <2>1. \A i \in DOMAIN n : n[i] = e \/ \E j \in DOMAIN c : n[i] = c[j]
    BY <1>1, CacheAppend
  <2>2. n \in Seq(CloseEntries) /\ Len(n) \in Nat /\ 0 < Len(n) /\ Len(n) <= CacheCap /\ n[Len(n)] = e
    BY <1>1, CacheAppend
  <2>3. \A i \in Nat : i < Len(c) /\ i + 1 < CacheCap =>
           i + 1 < Len(n) /\ n[Len(n) - (i + 1)] = c[Len(c) - i]
    BY <1>1, CacheAppend
  <2> HIDE DEF n
  <2> QED
    BY <2>1, <2>2, <2>3
<1>3. remembered' = n
  BY DEF C!Remember, C!Latest, Latest
<1>4. csince' \in [CloseRequests -> Nat]
        /\ \A r \in CloseRequests : csince'[r] = IF r = e.req THEN 0 ELSE csince[r] + 1
  BY <1>1 DEF C!Remember
<1> HIDE DEF n
<1>5. ASSUME NEW r \in CloseRequests, closes'[r] > 0, csince'[r] < CacheCap
      PROVE  csince'[r] < Len(n) /\ n[Len(n) - csince'[r]].req = r
  <2>1. CASE e.req = r
    BY <1>2, <1>4, <2>1
  <2>2. CASE e.req # r
    <3>1. closes[r] > 0 /\ csince'[r] = csince[r] + 1 /\ csince[r] \in Nat
      BY <1>1, <1>4, <1>5, <2>2
    <3>2. csince[r] < Len(c) /\ c[Len(c) - csince[r]].req = r
      BY <1>5, <3>1, NativeTaskAssumption DEF CloseInv, CloseWindow
    <3> QED
      BY <1>2, <1>5, <3>1, <3>2
  <2> QED
    BY <2>1, <2>2
<1> QED
  BY <1>2, <1>3, <1>4, <1>5 DEF CloseWindow

\* Other commands' mutations carry no request of a close.
LEMMA CloseOther == C!Other \in CloseEntries /\ C!Other.req = None
BY DEF C!Other, C!Entry, CloseEntries

\* The refresh reads only.
LEMMA RefreshInv ==
  ASSUME CloseInv, NEW k \in Commands, C!Refresh(k)
  PROVE  CloseInv'
<1> USE DEF CloseInv, C!Refresh, C!ledger, C!world
<1>1. CloseTypes'
  BY DEF CloseTypes
<1>2. Progress'
  BY DEF CloseTypes, Progress
<1> QED
  BY <1>1, <1>2 DEF CloseWindow

\* The close is refused, replayed because it was applied, or applied and remembered.
LEMMA CloseWorkerInv ==
  ASSUME CloseInv, NEW k \in Commands, C!CloseWorker(k)
  PROVE  CloseInv'
<1> USE DEF CloseInv
<1>1. PICK r \in CloseRequests : r = creq[k]
  BY DEF CloseTypes
<1>2. cpc[k] = "refreshed" /\ UNCHANGED <<message, creq, pulls, body, github, outcome, cothers>>
  BY DEF C!CloseWorker, C!world
<1>3. ASSUME cpc' = [cpc EXCEPT ![k] = "refused"],
             UNCHANGED <<status, report, remembered, told, closes, csince>>
      PROVE  CloseInv'
  <2>1. CloseTypes'
    BY <1>2, <1>3 DEF CloseTypes
  <2>2. Progress'
    BY <1>2, <1>3 DEF CloseTypes, Progress
  <2> QED
    BY <1>3, <2>1, <2>2 DEF CloseWindow
<1>4. ASSUME NEW i \in DOMAIN remembered, remembered[i].req = r, cpc' = [cpc EXCEPT ![k] = "closed"],
             told' = [told EXCEPT ![k] = report],
             UNCHANGED <<status, report, remembered, closes, csince>>
      PROVE  CloseInv'
  <2>1. CloseTypes'
    BY <1>2, <1>4 DEF CloseTypes
  <2>2. closes[r] > 0
    BY <1>4 DEF Progress
  <2>3. /\ cpc'[k] = "closed" /\ told'[k] = report
        /\ \A l \in Commands \ {k} : cpc'[l] = cpc[l] /\ told'[l] = told[l]
    BY <1>4 DEF CloseTypes
  <2>4. Progress'
    BY <1>1, <1>2, <1>4, <2>2, <2>3 DEF CloseTypes, Progress
  <2> QED
    BY <1>4, <2>1, <2>4 DEF CloseWindow
<1>5. ASSUME status' = outcome[r], report' = r, C!Remember(C!Entry(r, pulls[k])),
             closes' = [closes EXCEPT ![r] = @ + 1], told' = [told EXCEPT ![k] = r],
             cpc' = [cpc EXCEPT ![k] = "closed"]
      PROVE  CloseInv'
  <2>1. PICK e \in CloseEntries : e = C!Entry(r, pulls[k]) /\ e.req = r
    <3>1. C!Entry(r, pulls[k]) \in CloseEntries /\ C!Entry(r, pulls[k]).req = r
      BY DEF C!Entry, CloseEntries, CloseTypes
    <3> QED
      BY <3>1
  <2>2. closes' \in [CloseRequests -> Nat] /\ closes'[r] > 0
        /\ \A q \in CloseRequests : closes'[q] >= closes[q] /\ (closes'[q] = closes[q] \/ q = r)
    BY <1>5 DEF CloseTypes
  <2>3. /\ remembered' \in Seq(CloseEntries) /\ csince' \in [CloseRequests -> Nat] /\ CloseWindow'
        /\ \A i \in DOMAIN remembered' : remembered'[i] = e \/ \E j \in DOMAIN remembered :
             remembered'[i] = remembered[j]
    BY <1>5, <2>1, <2>2, CloseRemembers
  <2>4. CloseTypes'
    <3>1. outcome[r] \in C!Statuses /\ r \in C!Reports
      BY DEF CloseTypes, C!Terminal, C!Statuses, C!Reports
    <3> QED
      BY <1>2, <1>5, <2>2, <2>3, <3>1 DEF CloseTypes
  <2>5. /\ cpc'[k] = "closed" /\ told'[k] = r
        /\ \A l \in Commands \ {k} : cpc'[l] = cpc[l] /\ told'[l] = told[l]
    BY <1>5 DEF CloseTypes
  <2>6. \A q \in CloseRequests : closes[q] > 0 => closes'[q] > 0
    BY <2>2 DEF CloseTypes
  <2>7. \A i \in DOMAIN remembered' : remembered'[i].req \in CloseRequests => closes'[remembered'[i].req] > 0
    BY <2>1, <2>2, <2>3, <2>6 DEF Progress
  <2>8. \A l \in Commands : creq[l] \in CloseRequests
    BY DEF CloseTypes
  <2>9. Progress'
    <3>1. r \in C!Reports
      BY DEF C!Reports
    <3> QED
      BY <1>1, <1>2, <2>2, <2>5, <2>6, <2>7, <2>8, <3>1 DEF Progress
  <2> QED
    BY <2>3, <2>4, <2>9
<1> QED
  BY <1>1, <1>3, <1>4, <1>5 DEF C!CloseWorker, C!Remembered

\* The message is composed from what the close returned.
LEMMA ComposeInv ==
  ASSUME CloseInv, NEW k \in Commands, C!Compose(k)
  PROVE  CloseInv'
<1> USE DEF CloseInv
<1>1. PICK b \in C!Bodies : b = [status |-> status, report |-> told[k]]
  <2>1. told[k] \in C!Reports
    BY DEF C!Compose, Progress
  <2>2. [status |-> status, report |-> told[k]] \in C!Bodies
    BY <2>1 DEF CloseTypes, C!Bodies
  <2> QED
    BY <2>2
<1>2. /\ cpc[k] = "closed" /\ cpc' = [cpc EXCEPT ![k] = "composed"] /\ body' = [body EXCEPT ![k] = b]
      /\ UNCHANGED <<status, report, remembered, message, creq, pulls, told, github, outcome, cothers,
                     closes, csince>>
  BY <1>1 DEF C!Compose, C!ledger, C!world
<1>3. CloseTypes'
  BY <1>2 DEF CloseTypes
<1>4. /\ cpc'[k] = "composed" /\ body'[k] = b
      /\ \A l \in Commands \ {k} : cpc'[l] = cpc[l] /\ body'[l] = body[l]
  BY <1>2 DEF CloseTypes
<1>5. Progress'
  BY <1>2, <1>4 DEF Progress
<1> QED
  BY <1>2, <1>3, <1>5 DEF CloseWindow

\* The message is created, or the one that is there compared.
LEMMA ForwardInv ==
  ASSUME CloseInv, NEW k \in Commands, C!Forward(k)
  PROVE  CloseInv'
<1> USE DEF CloseInv
<1>1. PICK r \in CloseRequests : r = creq[k]
  BY DEF CloseTypes
<1>2. /\ cpc[k] = "composed"
      /\ UNCHANGED <<status, report, remembered, creq, github, outcome, cothers, closes, csince>>
  BY DEF C!Forward, C!world
<1>3. body[k] \in C!Bodies /\ body[k] # None /\ closes[r] > 0
  BY <1>1, <1>2, CloseAssumption DEF Progress
<1>4. ASSUME message' = [message EXCEPT ![r] = body[k]], cpc' = [cpc EXCEPT ![k] = "sent"],
             UNCHANGED <<pulls, told, body>>
      PROVE  CloseInv'
  <2>1. CloseTypes'
    BY <1>2, <1>3, <1>4 DEF CloseTypes
  <2>2. /\ cpc'[k] = "sent" /\ message'[r] # None
        /\ (\A l \in Commands \ {k} : cpc'[l] = cpc[l])
        /\ \A q \in CloseRequests \ {r} : message'[q] = message[q]
    BY <1>3, <1>4 DEF CloseTypes
  <2>3. \A l \in Commands : creq[l] \in CloseRequests
    BY DEF CloseTypes
  <2>4. Progress'
    BY <1>1, <1>2, <1>3, <1>4, <2>2, <2>3 DEF Progress
  <2> QED
    BY <1>2, <2>1, <2>4 DEF CloseWindow
<1>5. ASSUME message[r] # None, UNCHANGED message, NEW s \in {"done", "refused"}, C!Ends(k, s)
      PROVE  CloseInv'
  <2>1. CloseTypes'
    BY <1>2, <1>5 DEF CloseTypes, C!Ends
  <2>2. /\ cpc'[k] \in {"done", "refused"}
        /\ \A l \in Commands \ {k} : cpc'[l] = cpc[l] /\ told'[l] = told[l] /\ body'[l] = body[l]
    BY <1>5 DEF CloseTypes, C!Ends
  <2>3. Progress'
    BY <1>1, <1>2, <1>3, <1>5, <2>2 DEF Progress
  <2> QED
    BY <1>2, <1>5, <2>1, <2>3 DEF CloseWindow
<1> QED
  BY <1>1, <1>4, <1>5 DEF C!Forward

\* Its timeline mutation takes a place in the cache.
LEMMA RecordTimelineInv ==
  ASSUME CloseInv, NEW k \in Commands, C!RecordTimeline(k)
  PROVE  CloseInv'
<1> USE DEF CloseInv
<1>1. /\ cpc[k] = "sent" /\ C!Remember(C!Other) /\ C!Ends(k, "done")
      /\ UNCHANGED <<status, report, message, creq, github, outcome, cothers, closes>>
  BY DEF C!RecordTimeline, C!world
<1>2. PICK e \in CloseEntries : e = C!Other /\ e.req = None
  BY CloseOther
<1>3. /\ remembered' \in Seq(CloseEntries) /\ csince' \in [CloseRequests -> Nat] /\ CloseWindow'
      /\ \A i \in DOMAIN remembered' : remembered'[i] = e \/ \E j \in DOMAIN remembered :
           remembered'[i] = remembered[j]
  BY <1>1, <1>2, CloseRemembers
<1>4. CloseTypes'
  BY <1>1, <1>3 DEF CloseTypes, C!Ends
<1>5. /\ cpc'[k] = "done"
      /\ \A l \in Commands \ {k} : cpc'[l] = cpc[l] /\ told'[l] = told[l] /\ body'[l] = body[l]
  BY <1>1 DEF CloseTypes, C!Ends
<1>6. \A i \in DOMAIN remembered' : remembered'[i].req \in CloseRequests => closes[remembered'[i].req] > 0
  BY <1>2, <1>3, CloseAssumption DEF Progress, C!CloseoutAssumption
<1>7. Progress'
  BY <1>1, <1>5, <1>6 DEF Progress
<1> QED
  BY <1>3, <1>4, <1>7

\* A command that dies keeps nothing from the others.
LEMMA CommandDiesInv ==
  ASSUME CloseInv, NEW k \in Commands, C!Die(k)
  PROVE  CloseInv'
<1> USE DEF CloseInv, C!Die, C!Ends, C!ledger, C!world
<1>1. CloseTypes'
  BY DEF CloseTypes
<1>2. Progress'
  BY DEF CloseTypes, Progress
<1> QED
  BY <1>1, <1>2 DEF CloseWindow

\* Commands that change the status or the report but remember nothing.
LEMMA ReportInv ==
  ASSUME CloseInv, NEW s \in C!Statuses, C!Report(s) \/ C!Resume(s)
  PROVE  CloseInv'
<1> USE DEF CloseInv, C!Report, C!Resume, C!command
<1>1. CloseTypes'
  BY DEF CloseTypes, C!Reports
<1>2. Progress'
  BY DEF CloseTypes, Progress
<1> QED
  BY <1>1, <1>2 DEF CloseWindow

\* Commands that are remembered.
LEMMA OthersInv ==
  ASSUME CloseInv, C!Handoff \/ C!Mutate
  PROVE  CloseInv'
<1> USE DEF CloseInv
<1>1. /\ C!Remember(C!Other) /\ status' \in C!Statuses /\ report' \in C!Reports
      /\ UNCHANGED <<message, cpc, creq, pulls, told, body, github, outcome, closes>>
  BY DEF C!Handoff, C!Mutate, C!command, C!Reports, C!Statuses, CloseTypes
<1>2. PICK e \in CloseEntries : e = C!Other /\ e.req = None
  BY CloseOther
<1>3. /\ remembered' \in Seq(CloseEntries) /\ csince' \in [CloseRequests -> Nat] /\ CloseWindow'
      /\ \A i \in DOMAIN remembered' : remembered'[i] = e \/ \E j \in DOMAIN remembered :
           remembered'[i] = remembered[j]
  BY <1>1, <1>2, CloseRemembers
<1>4. CloseTypes'
  BY <1>1, <1>3 DEF CloseTypes
<1>5. \A i \in DOMAIN remembered' : remembered'[i].req \in CloseRequests => closes[remembered'[i].req] > 0
  BY <1>2, <1>3, CloseAssumption DEF Progress, C!CloseoutAssumption
<1>6. Progress'
  BY <1>1, <1>5 DEF Progress
<1> QED
  BY <1>3, <1>4, <1>6

\* The pull request moves.
LEMMA MovePullRequestInv ==
  ASSUME CloseInv, C!MovePullRequest
  PROVE  CloseInv'
<1> USE DEF CloseInv, C!MovePullRequest, C!ledger, C!command
<1>1. CloseTypes'
  BY DEF CloseTypes
<1> QED
  BY <1>1 DEF Progress, CloseWindow

\* At first nothing is closed.
LEMMA CloseInit == C!Init => CloseInv
<1> SUFFICES ASSUME C!Init PROVE CloseInv
  OBVIOUS
<1>1. CloseTypes
  BY DEF C!Init, CloseTypes, C!Statuses, C!Reports
<1>2. Progress /\ CloseWindow
  BY NativeTaskAssumption DEF C!Init, Progress, CloseWindow
<1> QED
  BY <1>1, <1>2 DEF CloseInv

\* Every step, or none, keeps the invariant.
LEMMA CloseStep == CloseInv /\ [C!Next]_C!vars => CloseInv'
<1> SUFFICES ASSUME CloseInv, [C!Next]_C!vars PROVE CloseInv'
  OBVIOUS
<1>1. CASE UNCHANGED C!vars
  BY <1>1 DEF C!vars, C!ledger, C!command, C!world, CloseInv, CloseTypes, Progress, CloseWindow
<1>2. CASE C!Next
  BY <1>2, RefreshInv, CloseWorkerInv, ComposeInv, ForwardInv, RecordTimelineInv, CommandDiesInv, ReportInv, OthersInv,
     MovePullRequestInv DEF C!Next, C!Close
<1> QED
  BY <1>1, <1>2

\* In every reachable state what is remembered was applied, within the cache's window
\* (CloseWorker, appendBoundedCompletedMutations).
THEOREM CloseInvariance == C!Spec => []CloseInv
BY CloseInit, CloseStep, PTL DEF C!Spec

\* A close that reported success was applied and has told the parent, also as the retry
\* of one that died between the two (cs close, ForwardCompletion).
THEOREM SuccessIsCompleteHolds == C!Spec => []SuccessIsComplete
<1>1. CloseInv => SuccessIsComplete
  BY DEF CloseInv, Progress, SuccessIsComplete, C!SuccessIsComplete
<1> QED
  BY <1>1, CloseInvariance, PTL

\* A close is applied a second time only after CacheCap later mutations have pushed it
\* out of the cache (JSONStore.CloseWorker).
THEOREM AppliedOncePerWindowHolds == C!Spec => AppliedOncePerWindow
<1> DEFINE Again == \A r \in CloseRequests :
                       closes'[r] > closes[r] /\ closes[r] > 0 => csince[r] >= CacheCap
<1>1. CloseInv /\ [C!Next]_C!vars => [Again]_C!vars
  <2> SUFFICES ASSUME CloseInv, [C!Next]_C!vars, NEW r \in CloseRequests, closes'[r] > closes[r],
                      closes[r] > 0, csince[r] < CacheCap
               PROVE  FALSE
    BY NativeTaskAssumption DEF CloseInv, CloseTypes
  <2> USE DEF CloseInv, CloseTypes
  <2>1. closes' # closes
    OBVIOUS
  <2>2. PICK k \in Commands : C!CloseWorker(k)
    <3>1. C!Next
      BY <2>1 DEF C!vars
    <3> QED
      BY <2>1, <3>1 DEF C!Next, C!Close, C!Refresh, C!Compose, C!Forward, C!RecordTimeline, C!Die, C!Report,
         C!Resume, C!Handoff, C!Mutate, C!MovePullRequest
  <2>3. creq[k] = r /\ C!Remembered(r) = {}
    BY <2>1, <2>2 DEF C!CloseWorker
  <2>4. PICK i : i = Len(remembered) - csince[r]
    OBVIOUS
  <2>5. i \in DOMAIN remembered /\ remembered[i].req = r
    BY <2>4, NativeTaskAssumption DEF CloseWindow
  <2> QED
    BY <2>3, <2>5 DEF C!Remembered
<1> QED
  BY <1>1, CloseInvariance, PTL DEF C!Spec, AppliedOncePerWindow, C!AppliedOncePerWindow

-----------------------------------------------------------------------------
(* The claims of workers.                                                  *)

ClaimRows == [owner : Holders, scope : Scopes, expired : BOOLEAN, status : {"active", "blocked", "released"}]

ClaimTypes ==
  /\ DOMAIN claims = Claims /\ \A c \in Claims : K!Exists(c) => claims[c] \in ClaimRows
  /\ warned \in [Claims -> SUBSET Claims] /\ batch \in [Claims -> SUBSET Claims]
  /\ upc \in [Updates -> {"off", "read", "done"}] /\ updates \in [Updates -> {"released", "blocked"}]
  /\ target \in [Updates -> Claims \cup {None}]

\* What a command is going to write, and what a closeout has settled, is there.
Known ==
  /\ \A u \in Updates : upc[u] = "read" => target[u] \in Claims /\ K!Exists(target[u])
  /\ \A c \in candidates : c \in Claims /\ K!Exists(c)
  /\ settled \subseteq Claims

\* Who was shown a claim has one of the same resource.
Shown ==
  \A c \in Claims : \A d \in warned[c] :
    K!Exists(c) /\ K!Exists(d) /\ K!ScopesOverlap(claims[d].scope, claims[c].scope)

\* Of two open claims of one resource one was shown to the other's creator.
Told(c, d) == c \in warned[d] \/ d \in warned[c] \/ d \in batch[c] \/ {c, d} \cap revived # {}
Noticed ==
  \A c, d \in Claims :
    c # d /\ K!IsOpen(c) /\ K!IsOpen(d) /\ K!ScopesOverlap(claims[c].scope, claims[d].scope) => Told(c, d)

ClaimsInv == ClaimTypes /\ Known /\ Shown /\ Noticed /\ K!CloseoutSettles

\* What a prefix is, component by component.
LEMMA Prefix ==
  ASSUME NEW E, NEW s \in Seq(E), NEW t \in Seq(E)
  PROVE  K!IsPrefix(s, t) <=> Len(s) <= Len(t) /\ \A i \in 1 .. Len(s) : s[i] = t[i]
<1>1. ASSUME Len(s) <= Len(t)
      PROVE  SubSeq(s, 1, Len(s)) = SubSeq(t, 1, Len(s)) <=> \A i \in 1 .. Len(s) : s[i] = t[i]
  <2>1. Len(s) \in Nat /\ Len(t) \in Nat
    OBVIOUS
  <2>2. /\ SubSeq(s, 1, Len(s)) \in Seq(E) /\ Len(SubSeq(s, 1, Len(s))) = Len(s)
        /\ \A i \in 1 .. Len(s) : SubSeq(s, 1, Len(s))[i] = s[i]
    BY <2>1
  <2>3. /\ SubSeq(t, 1, Len(s)) \in Seq(E) /\ Len(SubSeq(t, 1, Len(s))) = Len(s)
        /\ \A i \in 1 .. Len(s) : SubSeq(t, 1, Len(s))[i] = t[i]
    BY <1>1, <2>1
  <2>4. QED
    BY <2>2, <2>3, SeqEqual
<1>2. QED
  BY <1>1 DEF K!IsPrefix

\* scopesOverlap finds what it should: scopes overlap when some path, task or resource is
\* covered by both.
LEMMA OverlapIsMeeting ==
  ASSUME NEW a \in Scopes, NEW b \in Scopes
  PROVE  K!ScopesOverlap(a, b) <=> K!Meet(a, b)
<1>1. a.value \in Paths /\ b.value \in Paths /\ \A p \in Paths : p \in Seq(STRING)
  BY ClaimsAssumption DEF K!ClaimAssumption
<1>2. ASSUME a.kind = b.kind, a.kind # "task" PROVE K!ScopesOverlap(a, b) <=> K!Meet(a, b)
  <2>1. ASSUME NEW p \in Paths, K!IsPrefix(a.value, p), K!IsPrefix(b.value, p)
        PROVE  K!IsPrefix(a.value, b.value) \/ K!IsPrefix(b.value, a.value)
    <3>1. /\ Len(a.value) <= Len(p) /\ \A i \in 1 .. Len(a.value) : a.value[i] = p[i]
          /\ Len(b.value) <= Len(p) /\ \A i \in 1 .. Len(b.value) : b.value[i] = p[i]
      BY <1>1, <2>1, Prefix
    <3>2. Len(a.value) \in Nat /\ Len(b.value) \in Nat
      BY <1>1
    <3>3. CASE Len(a.value) <= Len(b.value)
      <4>1. \A i \in 1 .. Len(a.value) : a.value[i] = b.value[i]
        BY <3>1, <3>2, <3>3
      <4>2. QED
        BY <1>1, <3>3, <4>1, Prefix
    <3>4. CASE Len(b.value) <= Len(a.value)
      <4>1. \A i \in 1 .. Len(b.value) : b.value[i] = a.value[i]
        BY <3>1, <3>2, <3>4
      <4>2. QED
        BY <1>1, <3>4, <4>1, Prefix
    <3>5. QED
      BY <3>2, <3>3, <3>4
  <2>2. K!IsPrefix(a.value, a.value) /\ K!IsPrefix(b.value, b.value)
    <3>1. Len(a.value) \in Nat /\ Len(b.value) \in Nat
      BY <1>1
    <3>2. QED
      BY <1>1, <3>1, Prefix
  <2>3. QED
    BY <1>1, <1>2, <2>1, <2>2 DEF K!ScopesOverlap, K!Meet, K!Covers
<1>3. ASSUME a.kind = b.kind, a.kind = "task" PROVE K!ScopesOverlap(a, b) <=> K!Meet(a, b)
  BY <1>1, <1>3 DEF K!ScopesOverlap, K!Meet, K!Covers
<1>4. QED
  BY <1>2, <1>3 DEF K!ScopesOverlap, K!Meet

\* The overlap of scopes has no direction.
LEMMA OverlapSymmetric == ASSUME NEW a, NEW b, K!ScopesOverlap(a, b) PROVE K!ScopesOverlap(b, a)
  BY DEF K!ScopesOverlap

\* No claim is there at first.
LEMMA ClaimsInit == K!Init => ClaimsInv
<1>1. SUFFICES ASSUME K!Init PROVE ClaimsInv
  OBVIOUS
<1>2. /\ claims = [c \in Claims |-> [status |-> "absent"]] /\ warned = [c \in Claims |-> {}]
      /\ batch = [c \in Claims |-> {}] /\ candidates = {} /\ settled = {}
      /\ upc = [u \in Updates |-> "off"] /\ updates \in [Updates -> {"released", "blocked"}]
      /\ target = [u \in Updates |-> None]
  BY <1>1 DEF K!Init, K!Absent
<1>3. \A c \in Claims : ~K!Exists(c) /\ ~K!IsOpen(c)
  BY <1>2 DEF K!Exists, K!IsOpen
<1>4. ClaimTypes
  BY <1>2, <1>3 DEF ClaimTypes
<1>5. QED
  BY <1>2, <1>3, <1>4 DEF ClaimsInv, Known, Shown, Noticed, K!CloseoutSettles

\* A step that creates no claim, keeps the scopes, and opens none but those it calls revived.
LEMMA ClaimsKeep ==
  ASSUME ClaimsInv, UNCHANGED <<warned, batch>>, revived \subseteq revived', DOMAIN claims' = Claims,
         \A c \in Claims : K!Exists(c)' <=> K!Exists(c),
         \A c \in Claims : K!Exists(c) => claims'[c] \in ClaimRows /\ claims'[c].scope = claims[c].scope,
         \A c \in Claims : K!IsOpen(c)' => K!IsOpen(c) \/ c \in revived'
  PROVE  Shown' /\ Noticed' /\ (\A c \in Claims : K!Exists(c)' => claims'[c] \in ClaimRows)
<1>1. \A c \in Claims : warned[c] \subseteq Claims
  BY DEF ClaimsInv, ClaimTypes
<1>2. Shown'
  BY <1>1 DEF ClaimsInv, Shown
<1>3. \A c \in Claims : K!IsOpen(c) => K!Exists(c)
  BY DEF K!IsOpen, K!Exists
<1>4. Noticed'
  <2>1. SUFFICES ASSUME NEW c \in Claims, NEW d \in Claims, c # d, K!IsOpen(c)', K!IsOpen(d)',
                        K!ScopesOverlap(claims'[c].scope, claims'[d].scope), c \notin revived', d \notin revived'
                 PROVE  Told(c, d)'
    BY DEF Noticed, Told
  <2>2. K!IsOpen(c) /\ K!IsOpen(d) /\ claims'[c].scope = claims[c].scope /\ claims'[d].scope = claims[d].scope
    BY <1>3, <2>1
  <2>3. Told(c, d)
    BY <2>1, <2>2 DEF ClaimsInv, Noticed
  <2>4. QED
    BY <2>1, <2>3 DEF Told
<1>5. QED
  BY <1>2, <1>4

\* What SetStatus makes of the rows.
LEMMA StatusOfRows ==
  ASSUME ClaimsInv, NEW S, NEW s \in {"released", "blocked"}, claims' = K!SetStatus(S, s),
         \A c \in S : c \in Claims /\ K!Exists(c)
  PROVE  /\ DOMAIN claims' = Claims
         /\ \A c \in Claims : K!Exists(c)' <=> K!Exists(c)
         /\ \A c \in Claims : K!Exists(c) => claims'[c] \in ClaimRows /\ claims'[c].scope = claims[c].scope
         /\ \A c \in S : claims'[c].status = s /\ claims'[c].expired = claims[c].expired
         /\ \A c \in Claims : c \notin S => claims'[c] = claims[c]
<1>1. DOMAIN claims' = Claims /\ \A c \in Claims : claims'[c] = IF c \in S THEN [claims[c] EXCEPT !.status = s] ELSE claims[c]
  BY DEF K!SetStatus
<1>2. \A c \in Claims : K!Exists(c) => claims[c] \in ClaimRows
  BY DEF ClaimsInv, ClaimTypes
<1>3. ASSUME NEW c \in S
      PROVE  /\ claims'[c] \in ClaimRows /\ claims'[c].status = s /\ claims'[c].expired = claims[c].expired
             /\ claims'[c].scope = claims[c].scope
  <2>1. claims[c] \in ClaimRows /\ claims'[c] = [claims[c] EXCEPT !.status = s]
    BY <1>1, <1>2
  <2>2. QED
    BY <2>1 DEF ClaimRows
<1>4. \A c \in S : K!Exists(c)'
  BY <1>3 DEF K!Exists
<1>5. \A c \in Claims : c \notin S => claims'[c] = claims[c] /\ (K!Exists(c)' <=> K!Exists(c))
  BY <1>1 DEF K!Exists
<1>6. QED
  BY <1>1, <1>2, <1>3, <1>4, <1>5

\* A claim that is written without being opened: the closeout and the janitor release, an
\* update sets what it was asked to.
LEMMA ReleasesKeep ==
  ASSUME ClaimsInv, \/ \E w \in Holders : K!CloseWorker(w)
                    \/ \E c \in Claims : K!JanitorSave(c)
  PROVE  ClaimsInv'
<1>0. ClaimTypes /\ Known /\ K!CloseoutSettles
  BY DEF ClaimsInv
<1>1. UNCHANGED <<warned, upc, updates, target, batch, revived>>
  BY DEF K!CloseWorker, K!JanitorSave, K!update, K!history
<1>2. PICK S : /\ \A c \in S : c \in Claims /\ K!Exists(c)
               /\ claims' = K!SetStatus(S, "released")
               /\ candidates' \subseteq candidates
               /\ settled' \subseteq Claims
               /\ \A c \in settled' : c \in settled \/ c \in S \/ claims[c].status = "released"
  <2>1. CASE \E w \in Holders : K!CloseWorker(w)
    <3>1. PICK w \in Holders : K!CloseWorker(w)
      BY <2>1
    <3>2. /\ claims' = K!SetStatus(K!Held(w), "released") /\ candidates' = candidates
          /\ settled' = settled \cup {c \in Claims : K!Exists(c) /\ claims[c].owner = w}
      BY <3>1 DEF K!CloseWorker, K!janitor
    <3>3. \A c \in K!Held(w) : c \in Claims /\ K!Exists(c)
      BY DEF K!Held
    <3>4. \A c \in Claims : K!Exists(c) => claims[c].status \in {"active", "blocked", "released"}
      BY <1>0 DEF ClaimTypes, ClaimRows
    <3>5. \A c \in settled' : c \in settled \/ c \in K!Held(w) \/ claims[c].status = "released"
      BY <3>2, <3>4 DEF K!Held
    <3>6. settled' \subseteq Claims
      BY <1>0, <3>2 DEF Known
    <3>7. QED
      BY <3>2, <3>3, <3>5, <3>6
  <2>2. CASE \E c \in Claims : K!JanitorSave(c)
    <3>1. PICK c \in Claims : K!JanitorSave(c)
      BY <2>2
    <3>2. c \in candidates /\ candidates' = candidates \ {c} /\ claims' = K!SetStatus({c}, "released") /\ settled' = settled
      BY <3>1 DEF K!JanitorSave, K!history
    <3>3. QED
      BY <1>0, <3>2 DEF Known
  <2>3. QED
    BY <2>1, <2>2
<1>3. /\ DOMAIN claims' = Claims
      /\ \A c \in Claims : K!Exists(c)' <=> K!Exists(c)
      /\ \A c \in Claims : K!Exists(c) => claims'[c] \in ClaimRows /\ claims'[c].scope = claims[c].scope
      /\ \A c \in S : claims'[c].status = "released"
      /\ \A c \in Claims : c \notin S => claims'[c] = claims[c]
  BY <1>2, StatusOfRows
<1>4. \A c \in Claims : K!IsOpen(c)' => K!IsOpen(c)
  BY <1>3 DEF K!IsOpen
<1>5. Shown' /\ Noticed' /\ \A c \in Claims : K!Exists(c)' => claims'[c] \in ClaimRows
  BY <1>1, <1>3, <1>4, ClaimsKeep
<1>6. ClaimTypes'
  BY <1>0, <1>1, <1>3, <1>5 DEF ClaimTypes
<1>7. Known'
  <2>1. \A u \in Updates : upc[u] = "read" => target[u] \in Claims /\ K!Exists(target[u])'
    BY <1>0, <1>1, <1>3 DEF Known, K!Exists
  <2>2. \A c \in candidates' : c \in Claims /\ K!Exists(c)'
    BY <1>0, <1>2, <1>3 DEF Known
  <2>3. QED
    BY <1>1, <1>2, <2>1, <2>2 DEF Known, K!Exists
<1>8. (K!CloseoutSettles)'
  BY <1>0, <1>2, <1>3 DEF K!CloseoutSettles
<1>9. QED
  BY <1>5, <1>6, <1>7, <1>8 DEF ClaimsInv

\* SaveClaim: a claim that it opens had been released and is called revived.
LEMMA SaveClaimKeeps ==
  ASSUME ClaimsInv, NEW u \in Updates, K!SaveClaim(u)
  PROVE  ClaimsInv'
<1>0. ClaimTypes /\ Known /\ K!CloseoutSettles
  BY DEF ClaimsInv
<1> PICK e : e = target[u]
  OBVIOUS
<1>1. /\ upc[u] = "read" /\ upc' = [upc EXCEPT ![u] = "done"] /\ claims' = K!SetStatus({e}, updates[u])
      /\ settled' = settled \ {e} /\ UNCHANGED <<warned, updates, target, batch, candidates>>
      /\ revived' = IF claims[e].status = "released" /\ updates[u] = "blocked" THEN revived \cup {e} ELSE revived
  BY DEF K!SaveClaim, K!janitor
<1>2. e \in Claims /\ K!Exists(e) /\ updates[u] \in {"released", "blocked"}
  BY <1>0, <1>1 DEF Known, ClaimTypes
<1>3. /\ DOMAIN claims' = Claims
      /\ \A c \in Claims : K!Exists(c)' <=> K!Exists(c)
      /\ \A c \in Claims : K!Exists(c) => claims'[c] \in ClaimRows /\ claims'[c].scope = claims[c].scope
      /\ claims'[e].status = updates[u] /\ claims'[e].expired = claims[e].expired
      /\ \A c \in Claims : c # e => claims'[c] = claims[c]
  <2>1. /\ DOMAIN claims' = Claims /\ claims'[e] = [claims[e] EXCEPT !.status = updates[u]]
        /\ \A c \in Claims : c # e => claims'[c] = claims[c]
    BY <1>1, <1>2 DEF K!SetStatus
  <2>2. \A c \in Claims : K!Exists(c) => claims[c] \in ClaimRows
    BY <1>0 DEF ClaimTypes
  <2>3. /\ claims'[e] \in ClaimRows /\ claims'[e].scope = claims[e].scope
        /\ claims'[e].status = updates[u] /\ claims'[e].expired = claims[e].expired
    BY <1>2, <2>1, <2>2 DEF ClaimRows
  <2>4. \A c \in Claims : K!Exists(c)' <=> K!Exists(c)
    BY <1>2, <2>1, <2>3 DEF K!Exists
  <2>5. QED
    BY <2>1, <2>2, <2>3, <2>4
<1>4. \A c \in Claims : K!IsOpen(c)' => K!IsOpen(c) \/ c \in revived'
  <2>1. claims[e].status \in {"active", "blocked", "released"}
    BY <1>0, <1>2 DEF ClaimTypes, ClaimRows
  <2>2. K!IsOpen(e)' => K!IsOpen(e) \/ e \in revived'
    BY <1>1, <1>2, <1>3, <2>1 DEF K!IsOpen
  <2>3. \A c \in Claims : c # e => (K!IsOpen(c)' <=> K!IsOpen(c))
    BY <1>3 DEF K!IsOpen
  <2>4. QED
    BY <2>2, <2>3
<1>5. Shown' /\ Noticed' /\ \A c \in Claims : K!Exists(c)' => claims'[c] \in ClaimRows
  <2>1. revived \subseteq revived'
    BY <1>1
  <2>2. QED
    BY <1>1, <1>3, <1>4, <2>1, ClaimsKeep
<1>6. ClaimTypes'
  BY <1>0, <1>1, <1>3, <1>5 DEF ClaimTypes
<1>7. Known'
  <2>1. \A v \in Updates : upc'[v] = "read" => upc[v] = "read"
    BY <1>0, <1>1 DEF ClaimTypes
  <2>2. \A v \in Updates : upc'[v] = "read" => target[v] \in Claims /\ K!Exists(target[v])'
    BY <1>0, <1>1, <1>3, <2>1 DEF Known, K!Exists
  <2>3. \A c \in candidates : c \in Claims /\ K!Exists(c)'
    BY <1>0, <1>3 DEF Known
  <2>4. QED
    BY <1>0, <1>1, <2>2, <2>3 DEF Known, K!Exists
<1>8. (K!CloseoutSettles)'
  <2>1. \A c \in settled' : c \in settled /\ c # e /\ c \in Claims
    BY <1>0, <1>1 DEF Known
  <2>2. QED
    BY <1>0, <1>3, <2>1 DEF K!CloseoutSettles
<1>9. QED
  BY <1>5, <1>6, <1>7, <1>8 DEF ClaimsInv

\* Create: every new claim is compared with all that were open before it, and the new ones
\* know each other from their command.
LEMMA CreateKeeps ==
  ASSUME ClaimsInv, NEW w \in Holders, NEW made \in SUBSET Claims, NEW scope \in [made -> Scopes], K!Create(w, made, scope)
  PROVE  ClaimsInv'
<1>0. ClaimTypes /\ Known /\ Shown /\ Noticed /\ K!CloseoutSettles
  BY DEF ClaimsInv
<1>1. /\ \A c \in made : ~K!Exists(c)
      /\ claims' = [c \in Claims |->
            IF c \in made THEN [owner |-> w, scope |-> scope[c], status |-> "active", expired |-> FALSE] ELSE claims[c]]
      /\ warned' = [c \in Claims |-> IF c \in made THEN K!Conflicts(scope[c]) ELSE warned[c]]
      /\ batch' = [c \in Claims |-> IF c \in made THEN made ELSE batch[c]]
      /\ UNCHANGED <<upc, updates, target, candidates, revived, settled>>
  BY DEF K!Create, K!Snapshot, K!update, K!janitor
<1>2. ASSUME NEW c \in made PROVE claims'[c] \in ClaimRows /\ claims'[c].scope = scope[c] /\ claims'[c].status = "active"
  BY <1>1 DEF ClaimRows
<1>3. \A c \in Claims : c \notin made => claims'[c] = claims[c]
  BY <1>1
<1>4. /\ \A c \in made : K!Exists(c)'
      /\ \A c \in Claims : c \notin made => (K!Exists(c)' <=> K!Exists(c)) /\ (K!IsOpen(c)' <=> K!IsOpen(c))
  BY <1>2, <1>3 DEF K!Exists, K!IsOpen
<1>5. \A c \in Claims : K!Exists(c) => K!Exists(c)' /\ c \notin made
  BY <1>1, <1>4
<1>6. \A s : K!Conflicts(s) \subseteq Claims /\ \A d \in K!Conflicts(s) : K!IsOpen(d) /\ K!Exists(d) /\ K!ScopesOverlap(claims[d].scope, s)
  BY DEF K!Conflicts, K!IsOpen, K!Exists
<1>7. ClaimTypes'
  <2>1. DOMAIN claims' = Claims
    BY <1>1
  <2>2. \A c \in Claims : K!Exists(c)' => claims'[c] \in ClaimRows
    BY <1>0, <1>2, <1>3, <1>4 DEF ClaimTypes
  <2>3. warned' \in [Claims -> SUBSET Claims] /\ batch' \in [Claims -> SUBSET Claims]
    BY <1>0, <1>1, <1>6 DEF ClaimTypes
  <2>4. QED
    BY <1>0, <1>1, <2>1, <2>2, <2>3 DEF ClaimTypes
<1>8. Known'
  <2>1. \A u \in Updates : upc[u] = "read" => target[u] \in Claims /\ K!Exists(target[u])'
    BY <1>0, <1>1, <1>5 DEF Known, K!Exists
  <2>2. \A c \in candidates : c \in Claims /\ K!Exists(c)'
    BY <1>0, <1>5 DEF Known
  <2>3. QED
    BY <1>0, <1>1, <2>1, <2>2 DEF Known, K!Exists
<1>9. Shown'
  <2>1. SUFFICES ASSUME NEW c \in Claims, NEW d \in warned'[c]
                 PROVE  K!Exists(c)' /\ K!Exists(d)' /\ K!ScopesOverlap(claims'[d].scope, claims'[c].scope)
    BY DEF Shown, K!Exists
  <2>2. CASE c \in made
    <3>1. d \in K!Conflicts(scope[c])
      BY <1>1, <2>1, <2>2
    <3>2. d \in Claims /\ K!Exists(d) /\ K!ScopesOverlap(claims[d].scope, scope[c])
      BY <1>6, <3>1
    <3>3. K!Exists(d)' /\ claims'[d] = claims[d]
      BY <1>3, <1>5, <3>2
    <3>4. QED
      BY <1>2, <1>4, <2>2, <3>2, <3>3
  <2>3. CASE c \notin made
    <3>1. d \in warned[c] /\ d \in Claims
      BY <1>0, <1>1, <2>1, <2>3 DEF ClaimTypes
    <3>2. K!Exists(c) /\ K!Exists(d) /\ K!ScopesOverlap(claims[d].scope, claims[c].scope)
      BY <1>0, <3>1 DEF Shown
    <3>3. K!Exists(c)' /\ K!Exists(d)' /\ claims'[d] = claims[d] /\ claims'[c] = claims[c]
      BY <1>3, <1>5, <3>1, <3>2
    <3>4. QED
      BY <3>2, <3>3
  <2>4. QED
    BY <2>2, <2>3
<1>10. Noticed'
  <2>1. SUFFICES ASSUME NEW c \in Claims, NEW d \in Claims, c # d, K!IsOpen(c)', K!IsOpen(d)',
                        K!ScopesOverlap(claims'[c].scope, claims'[d].scope)
                 PROVE  Told(c, d)'
    BY DEF Noticed
  <2>2. CASE c \in made /\ d \in made
    BY <1>1, <2>2 DEF Told
  <2>3. CASE c \in made /\ d \notin made
    <3>1. K!IsOpen(d) /\ claims'[d] = claims[d] /\ claims'[c].scope = scope[c]
      BY <1>2, <1>3, <1>4, <2>1, <2>3
    <3>2. K!ScopesOverlap(claims[d].scope, scope[c])
      BY <2>1, <3>1, OverlapSymmetric
    <3>3. d \in warned'[c]
      BY <1>1, <2>3, <3>1, <3>2 DEF K!Conflicts
    <3>4. QED
      BY <3>3 DEF Told
  <2>4. CASE c \notin made /\ d \in made
    <3>1. K!IsOpen(c) /\ claims'[c] = claims[c] /\ claims'[d].scope = scope[d]
      BY <1>2, <1>3, <1>4, <2>1, <2>4
    <3>2. c \in warned'[d]
      BY <1>1, <2>1, <2>4, <3>1 DEF K!Conflicts
    <3>3. QED
      BY <3>2 DEF Told
  <2>5. CASE c \notin made /\ d \notin made
    <3>1. K!IsOpen(c) /\ K!IsOpen(d) /\ claims'[c] = claims[c] /\ claims'[d] = claims[d]
      BY <1>3, <1>4, <2>1, <2>5
    <3>2. Told(c, d)
      BY <1>0, <2>1, <3>1 DEF Noticed
    <3>3. warned'[c] = warned[c] /\ warned'[d] = warned[d] /\ batch'[c] = batch[c] /\ revived' = revived
      BY <1>1, <2>5
    <3>4. QED
      BY <3>2, <3>3 DEF Told
  <2>6. QED
    BY <2>2, <2>3, <2>4, <2>5
<1>11. (K!CloseoutSettles)'
  <2>1. \A c \in settled : c \in Claims /\ K!Exists(c)
    BY <1>0 DEF Known, K!CloseoutSettles, K!Exists
  <2>2. QED
    BY <1>0, <1>1, <1>3, <1>5, <2>1 DEF K!CloseoutSettles
<1>12. QED
  BY <1>7, <1>8, <1>9, <1>10, <1>11 DEF ClaimsInv

\* Expire: an expired claim is not open.
LEMMA ExpireKeeps ==
  ASSUME ClaimsInv, NEW e \in Claims, K!Expire(e)
  PROVE  ClaimsInv'
<1>0. ClaimTypes /\ Known /\ K!CloseoutSettles
  BY DEF ClaimsInv
<1>1. /\ K!Exists(e) /\ claims' = [claims EXCEPT ![e].expired = TRUE]
      /\ UNCHANGED <<warned, upc, updates, target, candidates, batch, revived, settled>>
  BY DEF K!Expire, K!update, K!janitor, K!history
<1>2. claims[e] \in ClaimRows /\ claims'[e] = [claims[e] EXCEPT !.expired = TRUE]
  BY <1>0, <1>1 DEF ClaimTypes
<1>3. claims'[e] \in ClaimRows /\ claims'[e].scope = claims[e].scope /\ claims'[e].status = claims[e].status /\ claims'[e].expired
  BY <1>2 DEF ClaimRows
<1>4. DOMAIN claims' = Claims /\ \A c \in Claims : c # e => claims'[c] = claims[c]
  BY <1>0, <1>1 DEF ClaimTypes
<1>5. \A c \in Claims : (K!Exists(c)' <=> K!Exists(c)) /\ (K!IsOpen(c)' => K!IsOpen(c)) /\ claims'[c].status = claims[c].status
  BY <1>3, <1>4 DEF K!Exists, K!IsOpen
<1>6. \A c \in Claims : K!Exists(c) => claims'[c] \in ClaimRows /\ claims'[c].scope = claims[c].scope
  BY <1>0, <1>3, <1>4 DEF ClaimTypes
<1>7. Shown' /\ Noticed' /\ \A c \in Claims : K!Exists(c)' => claims'[c] \in ClaimRows
  BY <1>1, <1>4, <1>5, <1>6, ClaimsKeep
<1>8. ClaimTypes'
  BY <1>0, <1>1, <1>4, <1>7 DEF ClaimTypes
<1>9. Known' /\ (K!CloseoutSettles)'
  <2>1. \A u \in Updates : upc[u] = "read" => target[u] \in Claims /\ K!Exists(target[u])'
    BY <1>0, <1>1, <1>5 DEF Known, K!Exists
  <2>2. \A c \in candidates : c \in Claims /\ K!Exists(c)'
    BY <1>0, <1>5 DEF Known
  <2>3. Known'
    BY <1>0, <1>1, <2>1, <2>2 DEF Known, K!Exists
  <2>4. (K!CloseoutSettles)'
    BY <1>0, <1>1, <1>5 DEF K!CloseoutSettles, Known
  <2>5. QED
    BY <2>3, <2>4
<1>10. QED
  BY <1>7, <1>8, <1>9 DEF ClaimsInv

\* The steps that only read, or only move workers, and stuttering.
LEMMA LooksKeep ==
  ASSUME ClaimsInv, UNCHANGED <<claims, warned, updates, batch, revived, settled>>,
         \/ UNCHANGED <<upc, target, candidates>>
         \/ UNCHANGED <<upc, target>> /\ candidates' \subseteq {c \in Claims : claims[c].status = "active"}
         \/ /\ UNCHANGED candidates
            /\ \E u \in Updates, c \in Claims : K!Exists(c) /\ upc' = [upc EXCEPT ![u] = "read"] /\ target' = [target EXCEPT ![u] = c]
  PROVE  ClaimsInv'
<1>0. ClaimTypes /\ Known /\ Shown /\ Noticed /\ K!CloseoutSettles
  BY DEF ClaimsInv
<1>1. \A c \in Claims : (K!Exists(c)' <=> K!Exists(c)) /\ (K!IsOpen(c)' <=> K!IsOpen(c))
  BY DEF K!Exists, K!IsOpen
<1>2. Shown' /\ Noticed' /\ (K!CloseoutSettles)'
  BY <1>0 DEF Shown, Noticed, Told, K!CloseoutSettles, K!Exists, K!IsOpen
<1>3. ClaimTypes'
  <2>1. upc' \in [Updates -> {"off", "read", "done"}] /\ target' \in [Updates -> Claims \cup {None}]
    BY <1>0 DEF ClaimTypes
  <2>2. QED
    BY <1>0, <1>1, <2>1 DEF ClaimTypes
<1>4. Known'
  <2>1. \A c \in candidates' : c \in Claims /\ K!Exists(c)
    BY <1>0 DEF Known, K!Exists
  <2>2. \A u \in Updates : upc'[u] = "read" => target'[u] \in Claims /\ K!Exists(target'[u])
    BY <1>0 DEF Known, ClaimTypes
  <2>3. QED
    BY <1>0, <2>1, <2>2 DEF Known, K!Exists
<1>5. QED
  BY <1>2, <1>3, <1>4 DEF ClaimsInv

\* Every step keeps the invariant.
LEMMA ClaimsStep == ClaimsInv /\ [K!Next]_K!vars => ClaimsInv'
<1>1. SUFFICES ASSUME ClaimsInv, [K!Next]_K!vars PROVE ClaimsInv'
  OBVIOUS
<1>2. CASE \E w \in Holders : K!Touch(w) \/ K!Age(w)
  BY <1>1, <1>2, LooksKeep DEF K!Touch, K!Age, K!update, K!janitor, K!history
<1>3. CASE K!ListWorkers \/ K!JanitorEnds \/ UNCHANGED K!vars
  BY <1>1, <1>3, LooksKeep DEF K!ListWorkers, K!JanitorEnds, K!vars, K!update, K!janitor, K!history
<1>4. CASE K!ListClaims
  BY <1>1, <1>4, LooksKeep DEF K!ListClaims, K!Releasable, K!update, K!history
<1>5. CASE \E c \in Claims, u \in Updates : K!ReadClaim(u, c)
  BY <1>1, <1>5, LooksKeep DEF K!ReadClaim, K!janitor, K!history
<1>6. CASE \E w \in Holders : K!CloseWorker(w)
  BY <1>1, <1>6, ReleasesKeep
<1>7. CASE \E w \in Holders : \E made \in SUBSET Claims : \E scope \in [made -> Scopes] : K!Create(w, made, scope)
  BY <1>1, <1>7, CreateKeeps
<1>8. CASE \E c \in Claims : K!Expire(c) \/ K!JanitorSave(c)
  BY <1>1, <1>8, ExpireKeeps, ReleasesKeep
<1>9. CASE \E u \in Updates : K!SaveClaim(u)
  BY <1>1, <1>9, SaveClaimKeeps
<1>10. QED
  BY <1>1, <1>2, <1>3, <1>4, <1>5, <1>6, <1>7, <1>8, <1>9 DEF K!Next

\* What is open and overlaps was shown to somebody, through every interleaving of creators,
\* updates, closeouts and the janitor.
THEOREM ClaimsInvariance == K!Spec => []ClaimsInv
<1>1. QED
  BY ClaimsInit, ClaimsStep, PTL DEF K!Spec

\* Claims overlap exactly when somebody was warned of it, for any paths, scopes and number
\* of claims.
\* (cmd/cs/claims.go, claimCreate; internal/claims, scopesOverlap)
THEOREM ClaimWarningsExactHolds == K!Spec => []ClaimWarningsExact
<1>1. ClaimsInv => ClaimWarningsExact
  <2>1. SUFFICES ASSUME ClaimsInv PROVE K!ClaimWarningsExact
    BY DEF ClaimWarningsExact
  <2>2. \A c \in Claims : K!Exists(c) => claims[c].scope \in Scopes
    BY <2>1 DEF ClaimsInv, ClaimTypes, ClaimRows
  <2>3. \A c \in Claims : K!IsOpen(c) => K!Exists(c)
    BY DEF K!IsOpen, K!Exists
  <2>4. K!SomeoneWarned
    BY <2>1, <2>2, <2>3, OverlapIsMeeting DEF ClaimsInv, Noticed, Told, K!SomeoneWarned
  <2>5. K!WarningsTrue
    <3>1. SUFFICES ASSUME NEW c \in Claims, NEW d \in warned[c] PROVE K!Meet(claims[c].scope, claims[d].scope)
      BY DEF K!WarningsTrue
    <3>2. d \in Claims /\ K!Exists(c) /\ K!Exists(d) /\ K!ScopesOverlap(claims[c].scope, claims[d].scope)
      BY <2>1, <3>1, OverlapSymmetric DEF ClaimsInv, ClaimTypes, Shown
    <3>3. QED
      BY <2>2, <3>2, OverlapIsMeeting
  <2>6. QED
    BY <2>4, <2>5 DEF K!ClaimWarningsExact
<1>2. QED
  BY <1>1, ClaimsInvariance, PTL

\* A claim of a closed worker stays released until somebody updates it.
\* (closeout.go, the claims that CloseWorker releases)
THEOREM CloseoutSettlesHolds == K!Spec => []CloseoutSettles
<1>1. ClaimsInv => CloseoutSettles
  BY DEF ClaimsInv, CloseoutSettles
<1>2. QED
  BY <1>1, ClaimsInvariance, PTL

-----------------------------------------------------------------------------
(* File touches: the inductive invariant of FileTouch (instance T).        *)

Touched == DOMAIN Touches

TouchTypes ==
  /\ time \in 0 .. MaxTime
  /\ createdAt \in [Touched -> (0 .. MaxTime) \cup {T!Absent}]
  /\ warning \in [Touched -> Seq({T!conflictWarning(p) : p \in Touched})]
  /\ tpc \in [T!Calls -> {"idle", "recording", "warning", "done", "refused", "dead"}]
  /\ now \in [T!Calls -> 0 .. MaxTime]
  /\ conflicts \in [T!Calls -> Seq(Touched)]
  /\ sent \in [T!Calls -> Nat]

\* The transaction of a call is behind it.
Recorded(c) == tpc[c] \notin {"idle", "recording"}

\* The clock of a call was read before now, and of one that waits for the lock not long ago.
ClocksRead ==
  \A c \in T!Calls : now[c] <= time /\ (tpc[c] = "recording" => time <= now[c] + MaxLag)

\* A call has its list from its transaction, and is through with it when it is done.
ListsKept ==
  \A c \in T!Calls :
    /\ ~Recorded(c) => conflicts[c] = <<>> /\ sent[c] = 0
    /\ sent[c] <= Len(conflicts[c])
    /\ tpc[c] = "warning" => sent[c] # Len(conflicts[c])
    /\ tpc[c] = "done" => sent[c] = Len(conflicts[c])

\* What a call has sent is stored, in its place.
SentStored ==
  \A c \in T!Calls : \A i \in 1 .. sent[c] :
    i \in DOMAIN warning[c[1]] /\ warning[c[1]][i] = T!conflictWarning(conflicts[c][i])

\* The time of a row is the clock of a call that was recorded.
RowsRead ==
  \A p \in Touched : createdAt[p] # T!Absent =>
    \E d \in T!Calls : d[1] = p /\ Recorded(d) /\ now[d] = createdAt[p]

\* The row of a recorded call is there, or was too old for some call's clock.
RowsPruned ==
  \A c \in T!Calls : Recorded(c) =>
    \/ createdAt[c[1]] # T!Absent
    \/ \E d \in T!Calls : d[1] = c[1] /\ Recorded(d) /\ now[d] + Retention < time

\* s overlaps r, by calls within the retention.
Near(r, s) ==
  T!Overlap(r, s) /\ \E c \in T!CallsOf(r), d \in T!CallsOf(s) : now[c] <= now[d] + Retention

\* What is on a list is near.
ListsNear ==
  \A c \in T!Calls, p \in Touched : (\E i \in DOMAIN conflicts[c] : conflicts[c][i] = p) => Near(c[1], p)

Saw(c, d) == \E i \in DOMAIN conflicts[c] : Touches[conflicts[c][i]].worker = Touches[d[1]].worker
Excused(r, s) == ~T!Together(r, s) \/ T!Crowded(r) \/ T!Crowded(s)

\* Of two overlapping calls the second saw the first, whoever read the clock first.
SecondSaw ==
  \A c, d \in T!Calls :
    Recorded(c) /\ Recorded(d) /\ T!Overlap(c[1], d[1]) => Saw(c, d) \/ Saw(d, c) \/ Excused(c[1], d[1])

\* What a request has warned of is near.
WarnedNear ==
  \A r \in Touched : \A i \in DOMAIN warning[r] :
    \E s \in Touched : Near(r, s) /\ warning[r][i] = T!conflictWarning(s)

TouchInv ==
  /\ TouchTypes /\ ClocksRead /\ ListsKept /\ SentStored
  /\ RowsRead /\ RowsPruned /\ ListsNear /\ SecondSaw /\ WarnedNear

\* The instance's Cardinality is the library's.
LEMMA TouchCardinality ==
  ASSUME NEW S
  PROVE  (T!IsFiniteSet(S) <=> IsFiniteSet(S)) /\ T!Cardinality(S) = Cardinality(S)
<1>1. T!IsFiniteSet(S) <=> IsFiniteSet(S)
  BY DEF T!IsFiniteSet, IsFiniteSet
<1>2. T!Cardinality(S) = Cardinality(S)
  BY Zenon DEF T!Cardinality, Cardinality
<1>3. QED
  BY <1>1, <1>2

LEMMA CallParts ==
  ASSUME NEW c \in T!Calls
  PROVE  c[1] \in Touched /\ c[2] \in 1 .. Twice[c[1]] /\ c = <<c[1], c[2]>>
<1>1. PICK r \in Touched : c \in {r} \X (1 .. Twice[r])
  BY DEF T!Calls, Touched
<1>2. QED
  BY <1>1

LEMMA CallsOfIs ==
  ASSUME NEW r \in Touched
  PROVE  /\ T!CallsOf(r) = {c \in T!Calls : c[1] = r /\ tpc[c] # "idle"}
         /\ T!CallsOf(r)' = {c \in T!Calls : c[1] = r /\ tpc'[c] # "idle"}
<1>1. {r} \X (1 .. Twice[r]) = {c \in T!Calls : c[1] = r}
  <2>1. ASSUME NEW c \in {r} \X (1 .. Twice[r]) PROVE c \in T!Calls /\ c[1] = r
    BY <2>1 DEF T!Calls, Touched
  <2>2. ASSUME NEW c \in T!Calls, c[1] = r PROVE c \in {r} \X (1 .. Twice[r])
    BY <2>2, CallParts
  <2>3. QED
    BY <2>1, <2>2
<1>2. T!CallsOf(r) = {c \in {r} \X (1 .. Twice[r]) : tpc[c] # "idle"}
  BY DEF T!CallsOf
<1>3. T!CallsOf(r)' = {c \in {r} \X (1 .. Twice[r]) : tpc'[c] # "idle"}
  BY DEF T!CallsOf
<1>4. QED
  BY <1>1, <1>2, <1>3

\* The code's test of two ranges is whether they share a line.
\* (store/coordination.go, lineRangesOverlap)
LEMMA RangesOverlap ==
  ASSUME NEW r \in Touched, NEW s \in Touched
  PROVE  T!Overlap(r, s) <=> /\ Touches[r].operation = "write" /\ Touches[s].operation = "write"
                             /\ Touches[r].file = Touches[s].file
                             /\ Touches[r].worker # Touches[s].worker
                             /\ T!lineRangesOverlap(Touches[r], Touches[s])
<1> DEFINE a == Touches[r]
<1> DEFINE b == Touches[s]
<1>1. /\ a.lo \in Nat /\ a.hi \in Nat /\ (a.hi > 0 => a.lo <= a.hi)
      /\ b.lo \in Nat /\ b.hi \in Nat /\ (b.hi > 0 => b.lo <= b.hi)
  BY TouchesAssumption DEF T!TouchAssumption, Touched
<1>2. ASSUME a.lo # 0, a.hi # 0, b.lo # 0, b.hi # 0
      PROVE  (a.lo .. a.hi) \cap (b.lo .. b.hi) # {} <=> a.lo <= b.hi /\ b.lo <= a.hi
  <2>1. ASSUME (a.lo .. a.hi) \cap (b.lo .. b.hi) # {} PROVE a.lo <= b.hi /\ b.lo <= a.hi
    <3>1. PICK i : i \in a.lo .. a.hi /\ i \in b.lo .. b.hi
      BY <2>1
    <3>2. QED
      BY <1>1, <3>1
  <2>2. ASSUME a.lo <= b.hi, b.lo <= a.hi, a.lo <= b.lo PROVE (a.lo .. a.hi) \cap (b.lo .. b.hi) # {}
    <3>1. b.lo \in a.lo .. a.hi /\ b.lo \in b.lo .. b.hi
      BY <1>1, <1>2, <2>2
    <3>2. QED
      BY <3>1
  <2>3. ASSUME a.lo <= b.hi, b.lo <= a.hi, b.lo <= a.lo PROVE (a.lo .. a.hi) \cap (b.lo .. b.hi) # {}
    <3>1. a.lo \in a.lo .. a.hi /\ a.lo \in b.lo .. b.hi
      BY <1>1, <1>2, <2>3
    <3>2. QED
      BY <3>1
  <2>4. QED
    BY <1>1, <2>1, <2>2, <2>3
<1>3. T!lineRangesOverlap(a, b) <=>
        a.lo = 0 \/ a.hi = 0 \/ b.lo = 0 \/ b.hi = 0 \/ (a.lo .. a.hi) \cap (b.lo .. b.hi) # {}
  BY <1>2 DEF T!lineRangesOverlap
<1>4. T!Overlap(r, s) <=> /\ a.operation = "write" /\ b.operation = "write" /\ a.file = b.file
                          /\ a.worker # b.worker
                          /\ \/ a.lo = 0 \/ a.hi = 0 \/ b.lo = 0 \/ b.hi = 0
                             \/ (a.lo .. a.hi) \cap (b.lo .. b.hi) # {}
  BY DEF T!Overlap, T!WholeFile
<1>5. QED
  BY <1>3, <1>4

LEMMA TouchOverlapSymmetric ==
  ASSUME NEW r, NEW s, T!Overlap(r, s)
  PROVE  T!Overlap(s, r)
<1>1. (Touches[r].lo .. Touches[r].hi) \cap (Touches[s].lo .. Touches[s].hi)
        = (Touches[s].lo .. Touches[s].hi) \cap (Touches[r].lo .. Touches[r].hi)
  OBVIOUS
<1>2. QED
  BY <1>1 DEF T!Overlap

\* A call that has begun keeps its clock.
Persist == \A c \in T!Calls : tpc[c] # "idle" => tpc'[c] # "idle" /\ now'[c] = now[c]

LEMMA NearKeeps ==
  ASSUME Persist, NEW r \in Touched, NEW s \in Touched, Near(r, s)
  PROVE  Near(r, s)'
<1>1. PICK c \in T!CallsOf(r), d \in T!CallsOf(s) : now[c] <= now[d] + Retention
  BY DEF Near
<1>2. c \in T!CallsOf(r)' /\ d \in T!CallsOf(s)' /\ now'[c] <= now'[d] + Retention
  BY <1>1, CallsOfIs DEF Persist
<1>3. T!Overlap(r, s)'
  BY DEF Near, T!Overlap, T!WholeFile
<1>4. QED
  BY <1>2, <1>3 DEF Near

\* A pair that was not together, or crowded, stays so.
LEMMA ExcusedKeeps ==
  ASSUME Persist, NEW r \in Touched, NEW s \in Touched, Excused(r, s)
  PROVE  Excused(r, s)'
<1>1. ASSUME NEW p \in Touched, T!Crowded(p) PROVE T!Crowded(p)'
  <2> DEFINE Wrote(c) == {q \in Touched : /\ Touches[q].operation = "write"
                                          /\ Touches[q].file = Touches[p].file
                                          /\ Touches[q].worker # Touches[p].worker
                                          /\ \E d \in T!CallsOf(q) : now[d] >= now[c] - Retention}
  <2> DEFINE Writes(c) == {q \in Touched : /\ Touches[q].operation = "write"
                                           /\ Touches[q].file = Touches[p].file
                                           /\ Touches[q].worker # Touches[p].worker
                                           /\ \E d \in T!CallsOf(q)' : now'[d] >= now'[c] - Retention}
  <2>1. PICK c \in T!CallsOf(p) : Cardinality(Wrote(c)) > ConflictCap
    <3>1. PICK c \in T!CallsOf(p) : T!Cardinality(Wrote(c)) > ConflictCap
      BY <1>1 DEF T!Crowded, Touched
    <3>2. T!Cardinality(Wrote(c)) = Cardinality(Wrote(c))
      BY TouchCardinality
    <3>3. QED
      BY <3>1, <3>2
  <2>2. c \in T!CallsOf(p)' /\ now'[c] = now[c]
    BY <2>1, CallsOfIs DEF Persist
  <2>3. \A q \in Touched : \A d \in T!CallsOf(q) : d \in T!CallsOf(q)' /\ now'[d] = now[d]
    BY CallsOfIs DEF Persist
  <2>4. Wrote(c) \subseteq Writes(c)
    BY <2>2, <2>3
  <2>5. IsFiniteSet(Touched) /\ ConflictCap \in Nat
    BY TouchesAssumption, TouchCardinality DEF T!TouchAssumption, Touched
  <2>6. IsFiniteSet(Writes(c)) /\ IsFiniteSet(Wrote(c))
    BY <2>5, FS_Subset
  <2>7. Cardinality(Wrote(c)) <= Cardinality(Writes(c)) /\ Cardinality(Wrote(c)) \in Nat /\ Cardinality(Writes(c)) \in Nat
    BY <2>4, <2>6, FS_Subset, FS_CardinalityType
  <2>8. Cardinality(Writes(c)) > ConflictCap
    <3> HIDE DEF Wrote, Writes
    <3> QED
      BY <2>1, <2>5, <2>7
  <2>9. QED
    <3>1. T!Cardinality(Writes(c)) > ConflictCap
      BY <2>8, TouchCardinality
    <3>2. QED
      BY <2>2, <3>1 DEF T!Crowded, Touched
<1>2. ASSUME ~T!Together(r, s) PROVE ~T!Together(r, s)'
  <2>1. PICK c \in T!CallsOf(r) \cup T!CallsOf(s), d \in T!CallsOf(r) \cup T!CallsOf(s) :
          ~(now[c] - now[d] <= Retention - MaxLag)
    BY <1>2 DEF T!Together
  <2>2. /\ c \in T!CallsOf(r)' \cup T!CallsOf(s)' /\ d \in T!CallsOf(r)' \cup T!CallsOf(s)'
        /\ now'[c] = now[c] /\ now'[d] = now[d]
    BY <2>1, CallsOfIs DEF Persist
  <2>3. QED
    BY <2>1, <2>2 DEF T!Together
<1>3. QED
  BY <1>1, <1>2 DEF Excused

LEMMA TouchConstants ==
  /\ MaxTime \in Nat /\ MaxLag \in Nat /\ Retention \in Nat /\ ConflictCap \in Nat \ {0}
  /\ IsFiniteSet(Touched) /\ T!Absent \notin 0 .. MaxTime
  /\ \A p \in Touched : Touches[p].operation \in {"read", "write"}
<1>1. T!Absent \notin 0 .. MaxTime
  BY TouchesAssumption DEF T!TouchAssumption, T!Absent
<1>2. QED
  BY <1>1, TouchesAssumption, TouchCardinality DEF T!TouchAssumption, Touched

LEMMA TouchInit == T!Init => TouchInv
<1>1. SUFFICES ASSUME T!Init PROVE TouchInv
  OBVIOUS
<1>2. TouchTypes
  BY <1>1, TouchConstants DEF T!Init, TouchTypes, Touched
<1>3. \A c \in T!Calls : tpc[c] = "idle" /\ now[c] = 0 /\ conflicts[c] = <<>> /\ sent[c] = 0 /\ ~Recorded(c)
  BY <1>1 DEF T!Init, Recorded
<1>4. \A p \in Touched : createdAt[p] = T!Absent /\ warning[p] = <<>>
  BY <1>1 DEF T!Init, Touched
<1>5. ClocksRead /\ ListsKept /\ SentStored
  BY <1>1, <1>3, TouchConstants DEF T!Init, ClocksRead, ListsKept, SentStored
<1>6. RowsRead /\ RowsPruned /\ ListsNear /\ SecondSaw /\ WarnedNear
  BY <1>3, <1>4 DEF RowsRead, RowsPruned, ListsNear, SecondSaw, WarnedNear
<1>7. QED
  BY <1>2, <1>5, <1>6 DEF TouchInv

\* What a step without a transaction keeps.
LEMMA TouchFrame ==
  ASSUME TouchInv, TouchTypes', Persist, createdAt' = createdAt, conflicts' = conflicts, time' >= time,
         \A c \in T!Calls : (Recorded(c)' <=> Recorded(c))
  PROVE  RowsRead' /\ RowsPruned' /\ ListsNear' /\ SecondSaw' /\ (warning' = warning => WarnedNear')
<1>1. \A c \in T!Calls : Recorded(c) => now'[c] = now[c]
  BY DEF Persist, Recorded
<1>2. RowsRead'
  BY <1>1 DEF TouchInv, RowsRead
<1>3. RowsPruned'
  <2>1. SUFFICES ASSUME NEW c \in T!Calls, Recorded(c), createdAt[c[1]] = T!Absent
                 PROVE  \E d \in T!Calls : d[1] = c[1] /\ Recorded(d)' /\ now'[d] + Retention < time'
    BY DEF RowsPruned
  <2>2. PICK d \in T!Calls : d[1] = c[1] /\ Recorded(d) /\ now[d] + Retention < time
    BY <2>1 DEF TouchInv, RowsPruned
  <2>3. now[d] \in Nat /\ time \in Nat /\ time' \in Nat
    BY TouchConstants DEF TouchInv, TouchTypes
  <2>4. QED
    BY <1>1, <2>2, <2>3, TouchConstants
<1>4. ListsNear'
  <2>1. SUFFICES ASSUME NEW c \in T!Calls, NEW p \in Touched, \E i \in DOMAIN conflicts[c] : conflicts[c][i] = p
                 PROVE  Near(c[1], p)'
    BY DEF ListsNear
  <2>2. PICK r \in Touched : r = c[1]
    BY CallParts
  <2>3. Near(r, p)
    BY <2>1, <2>2 DEF TouchInv, ListsNear
  <2>4. Near(r, p)'
    BY <2>3, NearKeeps
  <2>5. QED
    BY <2>2, <2>4
<1>5. SecondSaw'
  <2>1. SUFFICES ASSUME NEW c \in T!Calls, NEW d \in T!Calls, Recorded(c), Recorded(d), T!Overlap(c[1], d[1])',
                        ~Saw(c, d)', ~Saw(d, c)'
                 PROVE  Excused(c[1], d[1])'
    BY DEF SecondSaw
  <2>2. ~Saw(c, d) /\ ~Saw(d, c) /\ T!Overlap(c[1], d[1])
    BY <2>1 DEF Saw, T!Overlap, T!WholeFile
  <2>3. Excused(c[1], d[1])
    BY <2>1, <2>2 DEF TouchInv, SecondSaw
  <2>4. QED
    BY <2>3, ExcusedKeeps, CallParts
<1>6. ASSUME warning' = warning PROVE WarnedNear'
  <2>1. SUFFICES ASSUME NEW r \in Touched, NEW i \in DOMAIN warning[r]
                 PROVE  \E s \in Touched : Near(r, s)' /\ warning[r][i] = T!conflictWarning(s)'
    BY <1>6 DEF WarnedNear
  <2>2. PICK s \in Touched : Near(r, s) /\ warning[r][i] = T!conflictWarning(s)
    BY DEF TouchInv, WarnedNear
  <2>3. QED
    BY <2>2, NearKeeps DEF T!conflictWarning
<1>7. QED
  BY <1>2, <1>3, <1>4, <1>5, <1>6

LEMMA StartKeeps ==
  ASSUME TouchInv, NEW c \in T!Calls, T!Start(c)
  PROVE  TouchInv'
<1>1. TouchTypes'
  BY TouchConstants DEF TouchInv, TouchTypes, T!Start
<1>2. \A d \in T!Calls : d # c => tpc'[d] = tpc[d] /\ now'[d] = now[d]
  BY DEF TouchInv, TouchTypes, T!Start
<1>3. tpc[c] = "idle" /\ tpc'[c] = "recording" /\ now'[c] = time
  BY DEF TouchInv, TouchTypes, T!Start
<1>4. Persist
  BY <1>2, <1>3 DEF Persist
<1>5. \A d \in T!Calls : (Recorded(d)' <=> Recorded(d))
  BY <1>2, <1>3 DEF Recorded
<1>6. RowsRead' /\ RowsPruned' /\ ListsNear' /\ SecondSaw' /\ WarnedNear'
  <2>1. time' >= time
    BY TouchConstants DEF T!Start, TouchInv, TouchTypes
  <2>2. QED
    BY <1>1, <1>4, <1>5, <2>1, TouchFrame DEF T!Start
<1>7. ClocksRead'
  BY <1>2, <1>3, TouchConstants DEF TouchInv, TouchTypes, ClocksRead, T!Start
<1>8. ListsKept' /\ SentStored'
  BY <1>2, <1>3, <1>5 DEF TouchInv, ListsKept, SentStored, T!Start, T!conflictWarning
<1>9. QED
  BY <1>1, <1>6, <1>7, <1>8 DEF TouchInv

LEMMA DieKeeps ==
  ASSUME TouchInv, NEW c \in T!Calls, T!Die(c)
  PROVE  TouchInv'
<1>1. TouchTypes'
  BY DEF TouchInv, TouchTypes, T!Die
<1>2. \A d \in T!Calls : d # c => tpc'[d] = tpc[d]
  BY DEF TouchInv, TouchTypes, T!Die
<1>3. tpc[c] = "warning" /\ tpc'[c] = "dead"
  BY DEF TouchInv, TouchTypes, T!Die
<1>4. Persist
  BY <1>2, <1>3 DEF Persist, T!Die
<1>5. \A d \in T!Calls : (Recorded(d)' <=> Recorded(d))
  BY <1>2, <1>3 DEF Recorded
<1>6. RowsRead' /\ RowsPruned' /\ ListsNear' /\ SecondSaw' /\ WarnedNear'
  <2>1. time' >= time
    BY TouchConstants DEF T!Die, TouchInv, TouchTypes
  <2>2. QED
    BY <1>1, <1>4, <1>5, <2>1, TouchFrame DEF T!Die
<1>7. ClocksRead'
  BY <1>2, <1>3 DEF TouchInv, ClocksRead, T!Die
<1>8. ListsKept' /\ SentStored'
  BY <1>2, <1>3, <1>5 DEF TouchInv, ListsKept, SentStored, T!Die, T!conflictWarning
<1>9. QED
  BY <1>1, <1>6, <1>7, <1>8 DEF TouchInv

LEMMA TickKeeps ==
  ASSUME TouchInv, T!Tick
  PROVE  TouchInv'
<1>1. TouchTypes' /\ time' = time + 1 /\ time \in Nat
  <2>1. time' = time + 1 /\ time \in Nat /\ time' \in 0 .. MaxTime
    BY TouchConstants DEF TouchInv, TouchTypes, T!Tick
  <2>2. QED
    BY <2>1 DEF TouchInv, TouchTypes, T!Tick
<1>2. Persist /\ (\A d \in T!Calls : (Recorded(d)' <=> Recorded(d)))
  BY DEF T!Tick, Recorded, Persist
<1>3. RowsRead' /\ RowsPruned' /\ ListsNear' /\ SecondSaw' /\ WarnedNear'
  BY <1>1, <1>2, TouchFrame DEF T!Tick
<1>4. ClocksRead'
  <2>1. \A d \in T!Calls : now[d] \in Nat
    BY TouchConstants DEF TouchInv, TouchTypes
  <2>2. QED
    BY <1>1, <2>1, TouchConstants DEF TouchInv, ClocksRead, T!Tick
<1>5. ListsKept' /\ SentStored'
  BY <1>2 DEF TouchInv, ListsKept, SentStored, T!Tick, T!conflictWarning
<1>6. QED
  BY <1>1, <1>3, <1>4, <1>5 DEF TouchInv

\* A warning is stored in the place its conflict has on the list, or found there.
LEMMA WarnKeeps ==
  ASSUME TouchInv, NEW c \in T!Calls, T!Warn(c)
  PROVE  TouchInv'
<1> DEFINE r == c[1]
<1> DEFINE n == sent[c] + 1
<1> DEFINE text == T!conflictWarning(conflicts[c][n])
<1>1. r \in Touched /\ tpc[c] = "warning"
  BY CallParts DEF T!Warn
<1>2. /\ n \in 1 .. Len(conflicts[c]) /\ sent[c] \in Nat /\ Len(conflicts[c]) \in Nat
      /\ conflicts[c] \in Seq(Touched)
  BY <1>1 DEF TouchInv, TouchTypes, ListsKept
<1>3. PICK s \in Touched : s = conflicts[c][n] /\ Near(r, s)
  <2>1. conflicts[c][n] \in Touched /\ n \in DOMAIN conflicts[c]
    BY <1>2
  <2>2. QED
    BY <2>1 DEF TouchInv, ListsNear
<1>4. warning[r] \in Seq({T!conflictWarning(p) : p \in Touched}) /\ text \in {T!conflictWarning(p) : p \in Touched}
  BY <1>1, <1>3 DEF TouchInv, TouchTypes
<1>5. sent[c] <= Len(warning[r]) /\ Len(warning[r]) \in Nat
  <2>1. ASSUME sent[c] # 0 PROVE sent[c] \in DOMAIN warning[r]
    BY <1>2, <2>1 DEF TouchInv, SentStored
  <2>2. QED
    BY <1>2, <1>4, <2>1
<1>6. \/ /\ n > Len(warning[r])
         /\ warning' = [warning EXCEPT ![r] = Append(warning[r], text)]
         /\ sent' = [sent EXCEPT ![c] = n]
         /\ tpc' = [tpc EXCEPT ![c] = T!Progress(conflicts[c], n)]
      \/ /\ n <= Len(warning[r]) /\ warning[r][n] = text
         /\ warning' = warning
         /\ sent' = [sent EXCEPT ![c] = n]
         /\ tpc' = [tpc EXCEPT ![c] = T!Progress(conflicts[c], n)]
      \/ /\ warning' = warning /\ sent' = sent
         /\ tpc' = [tpc EXCEPT ![c] = "refused"]
  BY DEF T!Warn
<1>7. time' = time /\ createdAt' = createdAt /\ now' = now /\ conflicts' = conflicts
  BY DEF T!Warn
<1>8. T!Progress(conflicts[c], n) \in {"done", "warning"}
  BY DEF T!Progress
<1>9. tpc' \in [T!Calls -> {"idle", "recording", "warning", "done", "refused", "dead"}] /\ sent' \in [T!Calls -> Nat]
  <2>1. tpc \in [T!Calls -> {"idle", "recording", "warning", "done", "refused", "dead"}] /\ sent \in [T!Calls -> Nat] /\ n \in Nat
    BY <1>2 DEF TouchInv, TouchTypes
  <2>2. tpc' \in [T!Calls -> {"idle", "recording", "warning", "done", "refused", "dead"}]
    BY <1>6, <1>8, <2>1
  <2>3. sent' \in [T!Calls -> Nat]
    BY <1>6, <2>1
  <2>4. QED
    BY <2>2, <2>3
<1>10. warning' \in [Touched -> Seq({T!conflictWarning(p) : p \in Touched})]
  <2>1. Append(warning[r], text) \in Seq({T!conflictWarning(p) : p \in Touched})
    BY <1>4
  <2>2. warning \in [Touched -> Seq({T!conflictWarning(p) : p \in Touched})]
    BY DEF TouchInv, TouchTypes
  <2> HIDE DEF text
  <2>3. QED
    BY <1>1, <1>6, <2>1, <2>2
<1>11. TouchTypes'
  BY <1>7, <1>9, <1>10 DEF TouchInv, TouchTypes, T!conflictWarning
<1>12. /\ \A d \in T!Calls : d # c => tpc'[d] = tpc[d] /\ sent'[d] = sent[d]
       /\ tpc'[c] \in {"done", "warning", "refused"}
  BY <1>2, <1>6, <1>8 DEF TouchInv, TouchTypes
<1>13. Persist /\ (\A d \in T!Calls : (Recorded(d)' <=> Recorded(d)))
  BY <1>1, <1>7, <1>12 DEF Persist, Recorded
<1>14. RowsRead' /\ RowsPruned' /\ ListsNear' /\ SecondSaw' /\ (warning' = warning => WarnedNear')
  <2>1. time' >= time
    BY <1>7, TouchConstants DEF TouchInv, TouchTypes
  <2>2. QED
    BY <1>7, <1>11, <1>13, <2>1, TouchFrame
<1>15. ClocksRead'
  BY <1>1, <1>7, <1>12 DEF TouchInv, ClocksRead
<1>16. /\ \A p \in Touched : \A i \in DOMAIN warning[p] : i \in DOMAIN warning'[p] /\ warning'[p][i] = warning[p][i]
       /\ \A p \in Touched : \A i \in DOMAIN warning'[p] :
            i \in DOMAIN warning[p] \/ (p = r /\ warning'[p][i] = text)
       /\ sent'[c] = n => n \in DOMAIN warning'[r] /\ warning'[r][n] = text
  <2>1. CASE warning' = [warning EXCEPT ![r] = Append(warning[r], text)] /\ n > Len(warning[r])
    <3> HIDE DEF text
    <3>1. n = Len(warning[r]) + 1
      BY <1>2, <1>5, <2>1
    <3>2. warning'[r] = Append(warning[r], text) /\ \A p \in Touched : p # r => warning'[p] = warning[p]
      BY <1>1, <2>1 DEF TouchInv, TouchTypes
    <3>3. /\ DOMAIN warning[r] = 1 .. Len(warning[r]) /\ DOMAIN Append(warning[r], text) = 1 .. n
          /\ \A i \in 1 .. Len(warning[r]) : Append(warning[r], text)[i] = warning[r][i]
          /\ Append(warning[r], text)[n] = text
      BY <1>4, <3>1
    <3>4. \A i \in 1 .. n : i \in 1 .. Len(warning[r]) \/ i = n
      BY <1>5, <3>1
    <3>5. n \in 1 .. n
      BY <1>2
    <3>6. QED
      BY <3>2, <3>3, <3>4, <3>5, <1>5, <3>1, SMTT(30)
  <2>2. CASE warning' = warning
    <3>1. sent'[c] = n => n <= Len(warning[r]) /\ warning[r][n] = text
      <4>1. sent'[c] = n => sent' # sent
        BY <1>2
      <4>2. CASE n > Len(warning[r]) /\ warning' = [warning EXCEPT ![r] = Append(warning[r], text)]
        <5>1. warning'[r] = Append(warning[r], text)
          BY <1>1, <4>2 DEF TouchInv, TouchTypes
        <5>2. Len(Append(warning[r], text)) = Len(warning[r]) + 1
          BY <1>4
        <5>3. QED
          BY <1>5, <2>2, <5>1, <5>2
      <4>3. QED
        BY <1>6, <4>1, <4>2
    <3>2. QED
      BY <1>2, <1>4, <2>2, <3>1
  <2>3. QED
    BY <1>6, <2>1, <2>2
<1>17. WarnedNear'
  <2>1. SUFFICES ASSUME NEW p \in Touched, NEW i \in DOMAIN warning'[p]
                 PROVE  \E q \in Touched : Near(p, q)' /\ warning'[p][i] = T!conflictWarning(q)'
    BY DEF WarnedNear
  <2>2. CASE i \in DOMAIN warning[p]
    <3>1. PICK q \in Touched : Near(p, q) /\ warning[p][i] = T!conflictWarning(q)
      BY <2>2 DEF TouchInv, WarnedNear
    <3>2. QED
      BY <1>13, <1>16, <2>2, <3>1, NearKeeps DEF T!conflictWarning
  <2>3. CASE p = r /\ warning'[p][i] = text
    <3>1. Near(p, s)'
      BY <1>3, <1>13, <2>3, NearKeeps
    <3>2. QED
      BY <1>3, <2>3, <3>1 DEF T!conflictWarning
  <2>4. QED
    BY <1>16, <2>1, <2>2, <2>3
<1>18. /\ sent'[c] \in {sent[c], n}
       /\ tpc'[c] = "warning" => sent'[c] # Len(conflicts[c])
       /\ tpc'[c] = "done" => sent'[c] = Len(conflicts[c])
  BY <1>1, <1>2, <1>6 DEF TouchInv, TouchTypes, T!Progress
<1>19. ListsKept'
  <2>1. SUFFICES ASSUME NEW d \in T!Calls
                 PROVE  /\ ~Recorded(d)' => conflicts[d] = <<>> /\ sent'[d] = 0
                        /\ sent'[d] <= Len(conflicts[d])
                        /\ tpc'[d] = "warning" => sent'[d] # Len(conflicts[d])
                        /\ tpc'[d] = "done" => sent'[d] = Len(conflicts[d])
    BY <1>7 DEF ListsKept
  <2>2. CASE d = c
    BY <1>2, <1>12, <1>18, <2>2 DEF Recorded
  <2>3. CASE d # c
    BY <1>12, <1>13, <2>3 DEF TouchInv, ListsKept
  <2>4. QED
    BY <2>2, <2>3
<1>20. SentStored'
  <2>1. SUFFICES ASSUME NEW d \in T!Calls, NEW i \in 1 .. sent'[d]
                 PROVE  i \in DOMAIN warning'[d[1]] /\ warning'[d[1]][i] = T!conflictWarning(conflicts[d][i])
    BY <1>7 DEF SentStored, T!conflictWarning
  <2>2. CASE i \in 1 .. sent[d]
    BY <1>16, <2>2, CallParts DEF TouchInv, SentStored
  <2>3. CASE i \notin 1 .. sent[d]
    <3>1. d = c /\ sent'[c] = n /\ i = n
      BY <1>2, <1>12, <1>18, <2>1, <2>3
    <3>2. QED
      BY <1>16, <3>1
  <2>4. QED
    BY <2>2, <2>3
<1>21. QED
  BY <1>11, <1>14, <1>15, <1>17, <1>19, <1>20 DEF TouchInv

\* What the transaction of a call does to the rows, and what it reads of them.
LEMMA RecordReads ==
  ASSUME TouchInv, NEW c \in T!Calls, T!RecordFileTouch(c), NEW r \in Touched, r = c[1],
         NEW cutoff, cutoff = now[c] - Retention
  PROVE  /\ tpc[c] = "recording" /\ time' = time /\ warning' = warning /\ now' = now /\ sent' = sent
         /\ tpc' = [tpc EXCEPT ![c] = T!Progress(conflicts'[c], 0)]
         /\ \A p \in Touched : \/ createdAt'[p] = createdAt[p] /\ ~(createdAt[p] < cutoff)
                               \/ p = r /\ createdAt'[p] = now[c]
                               \/ p # r /\ createdAt'[p] = T!Absent /\ createdAt[p] < cutoff
         /\ createdAt'[r] # T!Absent
         /\ createdAt' \in [Touched -> (0 .. MaxTime) \cup {T!Absent}]
         /\ \/ Touches[r].operation = "read" /\ conflicts' = conflicts
            \/ /\ Touches[r].operation = "write"
               /\ \E first \in T!Newest(T!PeerWrites(r, cutoff)) : \E list \in T!Conflicting(r, first) :
                    conflicts' = [conflicts EXCEPT ![c] = list]
<1> DEFINE pruned == [p \in Touched |-> IF createdAt[p] < cutoff THEN T!Absent ELSE createdAt[p]]
<1>1. now[c] \in 0 .. MaxTime /\ createdAt \in [Touched -> (0 .. MaxTime) \cup {T!Absent}]
  BY DEF TouchInv, TouchTypes
<1>2. createdAt' = IF pruned[r] = T!Absent THEN [pruned EXCEPT ![r] = now[c]] ELSE pruned
  BY DEF T!RecordFileTouch, T!Inserted, Touched
<1>3. now[c] # T!Absent
  BY <1>1, TouchConstants
<1>4. createdAt' \in [Touched -> (0 .. MaxTime) \cup {T!Absent}]
  BY <1>1, <1>2
<1>5. \A p \in Touched : \/ createdAt'[p] = createdAt[p] /\ ~(createdAt[p] < cutoff)
                         \/ p = r /\ createdAt'[p] = now[c]
                         \/ p # r /\ createdAt'[p] = T!Absent /\ createdAt[p] < cutoff
  BY <1>1, <1>2
<1>6. createdAt'[r] # T!Absent
  BY <1>1, <1>2, <1>3
<1>7. /\ tpc[c] = "recording" /\ time' = time /\ warning' = warning /\ now' = now /\ sent' = sent
      /\ tpc' = [tpc EXCEPT ![c] = T!Progress(conflicts'[c], 0)]
  BY DEF T!RecordFileTouch
<1>8. \/ Touches[r].operation = "read" /\ conflicts' = conflicts
      \/ /\ Touches[r].operation = "write"
         /\ \E first \in T!Newest(T!PeerWrites(r, cutoff)) : \E list \in T!Conflicting(r, first) :
              conflicts' = [conflicts EXCEPT ![c] = list]
  BY DEF T!RecordFileTouch
<1>9. QED
  BY <1>4, <1>5, <1>6, <1>7, <1>8

\* The list of a call is of rows that overlap, none older than the retention, and has the
\* worker of every such row unless the query returned only some of them.
\* (store/coordination.go, RecordFileTouch)
LEMMA ListIs ==
  ASSUME TouchInv, NEW r \in Touched, NEW cutoff \in Int, Touches[r].operation = "write",
         NEW first \in T!Newest(T!PeerWrites(r, cutoff)), NEW list \in T!Conflicting(r, first)
  PROVE  /\ list \in Seq(Touched)
         /\ \A i \in DOMAIN list : /\ T!Overlap(r, list[i]) /\ createdAt[list[i]] # T!Absent
                                   /\ createdAt[list[i]] >= cutoff
         /\ \A s \in first : T!Overlap(r, s) => \E i \in DOMAIN list : Touches[list[i]].worker = Touches[s].worker
         /\ first \subseteq T!PeerWrites(r, cutoff)
         /\ first # T!PeerWrites(r, cutoff) => Cardinality(first) = ConflictCap
<1> DEFINE overlapping == {p \in first : T!lineRangesOverlap(Touches[r], Touches[p])}
<1>1. /\ first \subseteq T!PeerWrites(r, cutoff)
      /\ first # T!PeerWrites(r, cutoff) => Cardinality(first) = ConflictCap
  BY TouchCardinality DEF T!Newest
<1>2. \A p \in T!PeerWrites(r, cutoff) :
        /\ p \in Touched /\ createdAt[p] # T!Absent /\ createdAt[p] >= cutoff
        /\ Touches[p].operation = "write" /\ Touches[p].file = Touches[r].file
        /\ Touches[p].worker # Touches[r].worker
  BY DEF T!PeerWrites, T!WritesBy, Touched
<1>3. \A p \in first : p \in overlapping <=> T!Overlap(r, p)
  BY <1>1, <1>2, RangesOverlap
<1>4. overlapping \subseteq Touched
  BY <1>1, <1>2
<1>5. IsFiniteSet(overlapping)
  BY <1>4, TouchConstants, FS_Subset
<1>6. T!Cardinality(overlapping) \in Nat
  BY <1>5, FS_CardinalityType, TouchCardinality
<1>7. /\ list \in T!BoundedSeq(overlapping, T!Cardinality(overlapping))
      /\ \A p \in overlapping : \E i \in DOMAIN list : Touches[list[i]].worker = Touches[p].worker
  BY DEF T!Conflicting
<1>8. PICK m \in 0 .. T!Cardinality(overlapping) : list \in [1 .. m -> overlapping]
  BY <1>7 DEF T!BoundedSeq, T!SeqOf
<1>9. m \in Nat
  BY <1>6, <1>8
<1>10. list \in Seq(Touched) /\ \A i \in DOMAIN list : list[i] \in overlapping
  <2> HIDE DEF overlapping
  <2>1. QED
    BY <1>4, <1>8, <1>9
<1>11. \A i \in DOMAIN list : list[i] \in first /\ list[i] \in overlapping
  BY <1>10
<1>12. QED
  BY <1>1, <1>2, <1>3, <1>7, <1>10, <1>11

\* When the query leaves rows out, the file is crowded.
LEMMA LeftOutCrowds ==
  ASSUME TouchInv, Persist, now' = now, NEW c \in T!Calls, tpc'[c] # "idle", NEW r \in Touched, r = c[1],
         NEW cutoff \in Int, cutoff = now[c] - Retention,
         NEW first \in SUBSET T!PeerWrites(r, cutoff), first # T!PeerWrites(r, cutoff),
         Cardinality(first) = ConflictCap
  PROVE  T!Crowded(r)'
<1> DEFINE rows == T!PeerWrites(r, cutoff)
<1> DEFINE Writes == {q \in Touched : /\ Touches[q].operation = "write"
                                      /\ Touches[q].file = Touches[r].file
                                      /\ Touches[q].worker # Touches[r].worker
                                      /\ \E d \in T!CallsOf(q)' : now'[d] >= now'[c] - Retention}
<1>1. ASSUME NEW q \in rows PROVE q \in Writes
  <2>1. /\ q \in Touched /\ createdAt[q] # T!Absent /\ createdAt[q] >= cutoff
        /\ Touches[q].operation = "write" /\ Touches[q].file = Touches[r].file
        /\ Touches[q].worker # Touches[r].worker
    BY <1>1 DEF T!PeerWrites, T!WritesBy, Touched
  <2>2. PICK d \in T!Calls : d[1] = q /\ Recorded(d) /\ now[d] = createdAt[q]
    BY <2>1 DEF TouchInv, RowsRead
  <2>3. tpc'[d] # "idle"
    BY <2>2 DEF Persist, Recorded
  <2>4. d \in T!CallsOf(q)'
    BY <2>1, <2>2, <2>3, CallsOfIs
  <2>5. QED
    BY <2>1, <2>2, <2>4
<1>2. IsFiniteSet(Writes) /\ IsFiniteSet(rows)
  <2>1. rows \subseteq Touched
    BY <1>1
  <2>2. QED
    BY <2>1, TouchConstants, FS_Subset
<1>3. Cardinality(first) < Cardinality(rows)
  <2>1. IsFiniteSet(first) /\ Cardinality(first) <= Cardinality(rows) /\ Cardinality(first) # Cardinality(rows)
    BY <1>2, FS_Subset
  <2>2. Cardinality(first) \in Nat /\ Cardinality(rows) \in Nat
    BY <1>2, <2>1, FS_CardinalityType
  <2>3. QED
    BY <2>1, <2>2
<1>4. Cardinality(rows) <= Cardinality(Writes)
  <2>1. rows \subseteq Writes
    BY <1>1
  <2>2. QED
    BY <1>2, <2>1, FS_Subset
<1>5. Cardinality(rows) \in Nat /\ Cardinality(Writes) \in Nat
  BY <1>2, FS_CardinalityType
<1>6. T!Cardinality(Writes) > ConflictCap
  <2>1. T!Cardinality(Writes) = Cardinality(Writes)
    BY TouchCardinality
  <2> HIDE DEF Writes, rows
  <2>2. QED
    BY <1>3, <1>4, <1>5, <2>1, TouchConstants
<1>7. c \in T!CallsOf(r)'
  BY CallsOfIs
<1>8. QED
  BY <1>6, <1>7 DEF T!Crowded, Touched

LEMMA RecordKeeps ==
  ASSUME TouchInv, NEW c \in T!Calls, T!RecordFileTouch(c)
  PROVE  TouchInv'
<1>1. PICK r \in Touched : r = c[1]
  BY CallParts
<1>2. now[c] \in Nat /\ time \in Nat /\ now[c] <= time
  BY TouchConstants DEF TouchInv, TouchTypes, ClocksRead
<1>3. PICK cutoff \in Int : cutoff = now[c] - Retention
  BY <1>2, TouchConstants
<1>4. /\ tpc[c] = "recording" /\ time' = time /\ warning' = warning /\ now' = now /\ sent' = sent
      /\ tpc' = [tpc EXCEPT ![c] = T!Progress(conflicts'[c], 0)]
  BY <1>1, <1>3, RecordReads
<1>5. /\ tpc'[c] \in {"done", "warning"} /\ \A d \in T!Calls : d # c => tpc'[d] = tpc[d]
      /\ tpc'[c] = T!Progress(conflicts'[c], 0)
  BY <1>4 DEF TouchInv, TouchTypes, T!Progress
<1>6. Persist
  BY <1>4, <1>5 DEF Persist
<1>7. Recorded(c)' /\ ~Recorded(c) /\ (\A d \in T!Calls : d # c => (Recorded(d)' <=> Recorded(d)))
  BY <1>4, <1>5 DEF Recorded
<1>8. /\ createdAt' \in [Touched -> (0 .. MaxTime) \cup {T!Absent}] /\ createdAt'[r] # T!Absent
      /\ \A p \in Touched : \/ createdAt'[p] = createdAt[p] /\ ~(createdAt[p] < cutoff)
                            \/ p = r /\ createdAt'[p] = now[c]
                            \/ p # r /\ createdAt'[p] = T!Absent /\ createdAt[p] < cutoff
  BY <1>1, <1>3, RecordReads
<1>9. conflicts[c] = <<>> /\ sent[c] = 0
  BY <1>7 DEF TouchInv, ListsKept
<1>10. /\ conflicts' \in [T!Calls -> Seq(Touched)] /\ \A d \in T!Calls : d # c => conflicts'[d] = conflicts[d]
       /\ \A i \in DOMAIN conflicts'[c] : /\ T!Overlap(r, conflicts'[c][i]) /\ createdAt[conflicts'[c][i]] # T!Absent
                                          /\ createdAt[conflicts'[c][i]] >= cutoff
       /\ \A s \in Touched :
            T!Overlap(r, s) /\ createdAt[s] # T!Absent /\ createdAt[s] >= cutoff =>
              T!Crowded(r)' \/ \E i \in DOMAIN conflicts'[c] : Touches[conflicts'[c][i]].worker = Touches[s].worker
  <2>1. conflicts \in [T!Calls -> Seq(Touched)]
    BY DEF TouchInv, TouchTypes
  <2>2. CASE Touches[r].operation = "read" /\ conflicts' = conflicts
    <3>1. \A s \in Touched : ~T!Overlap(r, s)
      BY <2>2 DEF T!Overlap
    <3>2. QED
      BY <1>9, <2>1, <2>2, <3>1
  <2>3. CASE /\ Touches[r].operation = "write"
             /\ \E first \in T!Newest(T!PeerWrites(r, cutoff)) : \E list \in T!Conflicting(r, first) :
                  conflicts' = [conflicts EXCEPT ![c] = list]
    <3>1. PICK first \in T!Newest(T!PeerWrites(r, cutoff)) : \E list \in T!Conflicting(r, first) :
                  conflicts' = [conflicts EXCEPT ![c] = list]
      BY <2>3
    <3>2. PICK list \in T!Conflicting(r, first) : conflicts' = [conflicts EXCEPT ![c] = list]
      BY <3>1
    <3>3. /\ list \in Seq(Touched)
          /\ \A i \in DOMAIN list : /\ T!Overlap(r, list[i]) /\ createdAt[list[i]] # T!Absent
                                    /\ createdAt[list[i]] >= cutoff
          /\ \A s \in first : T!Overlap(r, s) => \E i \in DOMAIN list : Touches[list[i]].worker = Touches[s].worker
          /\ first \subseteq T!PeerWrites(r, cutoff)
          /\ first # T!PeerWrites(r, cutoff) => Cardinality(first) = ConflictCap
      BY <2>3, ListIs
    <3>4. conflicts' \in [T!Calls -> Seq(Touched)] /\ conflicts'[c] = list /\ \A d \in T!Calls : d # c => conflicts'[d] = conflicts[d]
      BY <2>1, <3>2, <3>3
    <3>5. ASSUME NEW s \in Touched, T!Overlap(r, s), createdAt[s] # T!Absent, createdAt[s] >= cutoff
          PROVE  T!Crowded(r)' \/ \E i \in DOMAIN list : Touches[list[i]].worker = Touches[s].worker
      <4>1. createdAt[s] \in 0 .. MaxTime
        BY <3>5 DEF TouchInv, TouchTypes
      <4>2. s \in T!PeerWrites(r, cutoff)
        BY <1>3, <3>5, <4>1, TouchConstants DEF T!PeerWrites, T!WritesBy, T!Overlap, Touched
      <4>3. CASE first = T!PeerWrites(r, cutoff)
        BY <3>3, <3>5, <4>2, <4>3
      <4>4. CASE first # T!PeerWrites(r, cutoff)
        BY <1>1, <1>3, <1>4, <1>5, <1>6, <3>3, <4>4, LeftOutCrowds
      <4>5. QED
        BY <4>3, <4>4
    <3>6. QED
      BY <3>3, <3>4, <3>5
  <2>4. QED
    BY <1>1, <1>3, <2>2, <2>3, RecordReads
<1>11. \A p \in Touched : createdAt[p] # T!Absent => \E d \in T!Calls : d[1] = p /\ d # c /\ Recorded(d) /\ now[d] = createdAt[p]
  BY <1>7 DEF TouchInv, RowsRead
<1>12. TouchTypes'
  <2>1. tpc' \in [T!Calls -> {"idle", "recording", "warning", "done", "refused", "dead"}]
    BY <1>4, <1>5 DEF TouchInv, TouchTypes
  <2>2. QED
    BY <1>4, <1>8, <1>10, <2>1 DEF TouchInv, TouchTypes, T!conflictWarning
<1>13. ClocksRead'
  BY <1>4, <1>5 DEF TouchInv, ClocksRead
<1>14. ListsKept' /\ SentStored'
  <2>1. \A d \in T!Calls : d # c => conflicts'[d] = conflicts[d]
    BY <1>10
  <2>2. Len(conflicts'[c]) \in Nat
    BY <1>10
  <2>3. ListsKept'
    <3>1. SUFFICES ASSUME NEW d \in T!Calls
                   PROVE  /\ ~Recorded(d)' => conflicts'[d] = <<>> /\ sent'[d] = 0
                          /\ sent'[d] <= Len(conflicts'[d])
                          /\ tpc'[d] = "warning" => sent'[d] # Len(conflicts'[d])
                          /\ tpc'[d] = "done" => sent'[d] = Len(conflicts'[d])
      BY DEF ListsKept
    <3>2. CASE d = c
      BY <1>4, <1>5, <1>7, <1>9, <2>2, <3>2 DEF T!Progress
    <3>3. CASE d # c
      BY <1>4, <1>5, <1>7, <2>1, <3>3 DEF TouchInv, ListsKept
    <3>4. QED
      BY <3>2, <3>3
  <2>4. SentStored'
    <3>1. SUFFICES ASSUME NEW d \in T!Calls, NEW i \in 1 .. sent[d]
                   PROVE  i \in DOMAIN warning[d[1]] /\ warning[d[1]][i] = T!conflictWarning(conflicts'[d][i])
      BY <1>4 DEF SentStored, T!conflictWarning
    <3>2. d # c
      BY <1>9, <3>1
    <3>3. QED
      BY <2>1, <3>1, <3>2 DEF TouchInv, SentStored
  <2>5. QED
    BY <2>3, <2>4
<1>15. RowsRead'
  <2>1. SUFFICES ASSUME NEW p \in Touched, createdAt'[p] # T!Absent
                 PROVE  \E d \in T!Calls : d[1] = p /\ Recorded(d)' /\ now[d] = createdAt'[p]
    BY <1>4 DEF RowsRead
  <2>2. CASE createdAt'[p] = createdAt[p]
    BY <1>7, <1>11, <2>1, <2>2
  <2>3. CASE p = r /\ createdAt'[p] = now[c]
    BY <1>1, <1>7, <2>3
  <2>4. QED
    BY <1>8, <2>1, <2>2, <2>3
<1>16. RowsPruned'
  <2>1. SUFFICES ASSUME NEW d \in T!Calls, Recorded(d)', createdAt'[d[1]] = T!Absent
                 PROVE  \E e \in T!Calls : e[1] = d[1] /\ Recorded(e)' /\ now[e] + Retention < time
    BY <1>4 DEF RowsPruned
  <2>2. PICK p \in Touched : p = d[1]
    BY CallParts
  <2>3. d # c /\ p # r /\ Recorded(d)
    BY <1>1, <1>7, <1>8, <2>1, <2>2
  <2>4. CASE createdAt[p] = T!Absent
    <3>1. PICK e \in T!Calls : e[1] = d[1] /\ Recorded(e) /\ now[e] + Retention < time
      BY <2>2, <2>3, <2>4 DEF TouchInv, RowsPruned
    <3>2. QED
      BY <1>7, <3>1
  <2>5. CASE createdAt[p] # T!Absent
    <3>1. PICK e \in T!Calls : e[1] = p /\ e # c /\ Recorded(e) /\ now[e] = createdAt[p]
      BY <1>11, <2>5
    <3>2. createdAt[p] < cutoff
      BY <1>8, <2>1, <2>2, <2>3, <2>5
    <3>3. now[e] \in Nat
      BY TouchConstants DEF TouchInv, TouchTypes
    <3>4. now[e] + Retention < time
      BY <1>2, <1>3, <3>1, <3>2, <3>3, TouchConstants
    <3>5. QED
      BY <1>7, <2>2, <3>1, <3>4
  <2>6. QED
    BY <2>4, <2>5
<1>17. ListsNear'
  <2>1. SUFFICES ASSUME NEW d \in T!Calls, NEW p \in Touched, \E i \in DOMAIN conflicts'[d] : conflicts'[d][i] = p
                 PROVE  Near(d[1], p)'
    BY DEF ListsNear
  <2>2. PICK i \in DOMAIN conflicts'[d] : conflicts'[d][i] = p
    BY <2>1
  <2>3. CASE d = c
    <3>1. T!Overlap(r, p) /\ createdAt[p] # T!Absent /\ createdAt[p] >= cutoff
      BY <1>10, <2>1, <2>2, <2>3
    <3>2. PICK e \in T!Calls : e[1] = p /\ Recorded(e) /\ now[e] = createdAt[p]
      BY <1>11, <3>1
    <3>3. e \in T!CallsOf(p)' /\ c \in T!CallsOf(r)'
      BY <1>1, <1>5, <1>6, <3>2, CallsOfIs DEF Persist, Recorded
    <3>4. now'[c] <= now'[e] + Retention
      <4>1. now[e] \in Nat
        BY TouchConstants DEF TouchInv, TouchTypes
      <4>2. QED
        BY <1>2, <1>3, <1>4, <3>1, <3>2, <4>1, TouchConstants
    <3>5. T!Overlap(r, p)'
      BY <3>1 DEF T!Overlap, T!WholeFile
    <3>6. Near(r, p)'
      BY <3>3, <3>4, <3>5 DEF Near
    <3>7. QED
      BY <1>1, <2>2, <2>3, <3>6
  <2>4. CASE d # c
    <3>1. PICK q \in Touched : q = d[1]
      BY CallParts
    <3>2. Near(q, p)
      BY <1>10, <2>1, <2>2, <2>4, <3>1 DEF TouchInv, ListsNear
    <3>3. Near(q, p)'
      BY <1>6, <3>2, NearKeeps
    <3>4. QED
      BY <2>2, <3>1, <3>3
  <2>5. QED
    BY <2>3, <2>4
<1>18. ASSUME NEW d \in T!Calls, d # c, Recorded(d), T!Overlap(r, d[1])
       PROVE  Saw(c, d)' \/ ~T!Together(r, d[1])' \/ T!Crowded(r)'
  <2>1. PICK s \in Touched : s = d[1]
    BY CallParts
  <2>2. ASSUME NEW e \in T!Calls, e[1] = s, Recorded(e), now[c] > now[e] + (Retention - MaxLag)
        PROVE  ~T!Together(r, s)'
    <3>1. e \in T!CallsOf(s)' /\ c \in T!CallsOf(r)'
      BY <1>1, <1>5, <1>6, <2>2, CallsOfIs DEF Persist, Recorded
    <3>2. now[e] \in Nat
      BY TouchConstants DEF TouchInv, TouchTypes
    <3>3. ~(now'[c] - now'[e] <= Retention - MaxLag)
      BY <1>2, <1>4, <2>2, <3>2, TouchConstants
    <3>4. QED
      BY <3>1, <3>3 DEF T!Together
  <2>3. CASE createdAt[s] = T!Absent
    <3>1. PICK e \in T!Calls : e[1] = s /\ Recorded(e) /\ now[e] + Retention < time
      BY <1>18, <2>1, <2>3 DEF TouchInv, RowsPruned
    <3>2. time <= now[c] + MaxLag
      BY <1>4 DEF TouchInv, ClocksRead
    <3>3. now[e] \in Nat
      BY TouchConstants DEF TouchInv, TouchTypes
    <3>4. now[c] > now[e] + (Retention - MaxLag)
      BY <1>2, <3>1, <3>2, <3>3, TouchConstants
    <3>5. QED
      BY <2>1, <2>2, <3>1, <3>4
  <2>4. CASE createdAt[s] # T!Absent /\ createdAt[s] < cutoff
    <3>1. PICK e \in T!Calls : e[1] = s /\ Recorded(e) /\ now[e] = createdAt[s]
      BY <1>11, <2>4
    <3>2. now[e] \in Nat
      BY TouchConstants DEF TouchInv, TouchTypes
    <3>3. now[c] > now[e] + (Retention - MaxLag)
      BY <1>2, <1>3, <2>4, <3>1, <3>2, TouchConstants
    <3>4. QED
      BY <2>1, <2>2, <3>1, <3>3
  <2>5. CASE createdAt[s] # T!Absent /\ createdAt[s] >= cutoff
    BY <1>10, <1>18, <2>1, <2>5 DEF Saw
  <2>6. createdAt[s] \in 0 .. MaxTime \/ createdAt[s] = T!Absent
    BY DEF TouchInv, TouchTypes
  <2>7. QED
    BY <1>3, <2>3, <2>4, <2>5, <2>6, TouchConstants
<1>19. SecondSaw'
  <2>1. SUFFICES ASSUME NEW a \in T!Calls, NEW b \in T!Calls, Recorded(a)', Recorded(b)', T!Overlap(a[1], b[1])'
                 PROVE  Saw(a, b)' \/ Saw(b, a)' \/ Excused(a[1], b[1])'
    BY DEF SecondSaw
  <2>2. T!Overlap(a[1], b[1])
    BY <2>1 DEF T!Overlap, T!WholeFile
  <2>3. CASE a = c
    <3>1. b # c
      BY <2>2, <2>3 DEF T!Overlap
    <3>2. QED
      BY <1>1, <1>7, <1>18, <2>1, <2>2, <2>3, <3>1 DEF Excused
  <2>4. CASE a # c /\ b = c
    <3>1. T!Overlap(b[1], a[1])
      BY <2>2, TouchOverlapSymmetric
    <3>2. Saw(c, a)' \/ ~T!Together(r, a[1])' \/ T!Crowded(r)'
      BY <1>1, <1>7, <1>18, <2>1, <2>4, <3>1
    <3>3. T!Together(r, a[1])' <=> T!Together(a[1], r)'
      <4>1. T!CallsOf(r)' \cup T!CallsOf(a[1])' = T!CallsOf(a[1])' \cup T!CallsOf(r)'
        OBVIOUS
      <4>2. QED
        BY <4>1 DEF T!Together
    <3>4. QED
      BY <1>1, <2>4, <3>2, <3>3 DEF Excused
  <2>5. CASE a # c /\ b # c
    <3>1. Recorded(a) /\ Recorded(b)
      BY <1>7, <2>1, <2>5
    <3>2. Saw(a, b) \/ Saw(b, a) \/ Excused(a[1], b[1])
      BY <2>2, <3>1 DEF TouchInv, SecondSaw
    <3>3. (Saw(a, b)' <=> Saw(a, b)) /\ (Saw(b, a)' <=> Saw(b, a))
      BY <1>10, <2>5 DEF Saw
    <3>4. Excused(a[1], b[1]) => Excused(a[1], b[1])'
      BY <1>6, ExcusedKeeps, CallParts
    <3>5. QED
      BY <3>2, <3>3, <3>4
  <2>6. QED
    BY <2>3, <2>4, <2>5
<1>20. WarnedNear'
  <2>1. SUFFICES ASSUME NEW q \in Touched, NEW i \in DOMAIN warning[q]
                 PROVE  \E s \in Touched : Near(q, s)' /\ warning[q][i] = T!conflictWarning(s)'
    BY <1>4 DEF WarnedNear
  <2>2. PICK s \in Touched : Near(q, s) /\ warning[q][i] = T!conflictWarning(s)
    BY DEF TouchInv, WarnedNear
  <2>3. QED
    BY <1>6, <2>2, NearKeeps DEF T!conflictWarning
<1>21. QED
  BY <1>12, <1>13, <1>14, <1>15, <1>16, <1>17, <1>19, <1>20 DEF TouchInv

LEMMA TouchStep == TouchInv /\ [T!Next]_T!vars => TouchInv'
<1>1. SUFFICES ASSUME TouchInv, [T!Next]_T!vars PROVE TouchInv'
  OBVIOUS
<1>2. CASE T!Tick
  BY <1>1, <1>2, TickKeeps
<1>3. CASE \E c \in T!Calls : T!Start(c) \/ T!RecordFileTouch(c) \/ T!Warn(c) \/ T!Die(c)
  BY <1>1, <1>3, StartKeeps, RecordKeeps, WarnKeeps, DieKeeps
<1>4. CASE UNCHANGED T!vars
  <2>1. /\ time' = time /\ createdAt' = createdAt /\ warning' = warning /\ tpc' = tpc /\ now' = now
        /\ conflicts' = conflicts /\ sent' = sent
    BY <1>4 DEF T!vars
  <2>2. TouchTypes'
    BY <1>1, <2>1 DEF TouchInv, TouchTypes, T!conflictWarning
  <2>3. Persist /\ (\A d \in T!Calls : (Recorded(d)' <=> Recorded(d)))
    BY <2>1 DEF Persist, Recorded
  <2>4. time' >= time
    BY <1>1, <2>1, TouchConstants DEF TouchInv, TouchTypes
  <2>5. RowsRead' /\ RowsPruned' /\ ListsNear' /\ SecondSaw' /\ WarnedNear'
    BY <1>1, <2>1, <2>2, <2>3, <2>4, TouchFrame
  <2>6. ClocksRead' /\ ListsKept' /\ SentStored'
    BY <1>1, <2>1, <2>3 DEF TouchInv, ClocksRead, ListsKept, SentStored, T!conflictWarning
  <2>7. QED
    BY <2>2, <2>5, <2>6 DEF TouchInv
<1>5. QED
  BY <1>1, <1>2, <1>3, <1>4 DEF T!Next

\* Of two overlapping touches the second to commit has the first on its list, through
\* pruning, calls sent twice and calls that die.
THEOREM TouchInvariance == T!Spec => []TouchInv
<1>1. QED
  BY TouchInit, TouchStep, PTL DEF T!Spec

\* Writes overlap exactly when their workers were warned of it, for any touches, number of
\* calls, retention and cap of the query.
\* (coordination/service.go, Touch; store/coordination.go, RecordFileTouch)
THEOREM TouchWarningsExactHolds == T!Spec => []TouchWarningsExact
<1>1. TouchInv => TouchWarningsExact
  <2>1. SUFFICES ASSUME TouchInv PROVE T!BothWarned /\ T!WarningsTrue
    BY DEF TouchWarningsExact, T!WarningsExact
  <2>2. T!WarningsTrue
    <3>1. SUFFICES ASSUME NEW r \in Touched, NEW i \in DOMAIN warning[r]
                   PROVE  \E s \in Touched :
                            /\ T!Overlap(r, s) /\ T!conflictWarning(s) = warning[r][i]
                            /\ \E c \in T!CallsOf(r), d \in T!CallsOf(s) : now[c] - now[d] <= Retention
      BY DEF T!WarningsTrue, Touched
    <3>2. PICK s \in Touched : Near(r, s) /\ warning[r][i] = T!conflictWarning(s)
      BY <2>1, <3>1 DEF TouchInv, WarnedNear
    <3>3. PICK c \in T!CallsOf(r), d \in T!CallsOf(s) : now[c] <= now[d] + Retention
      BY <3>2 DEF Near
    <3>4. now[c] \in Nat /\ now[d] \in Nat
      BY <2>1, <3>3, CallsOfIs, TouchConstants DEF TouchInv, TouchTypes
    <3>5. now[c] - now[d] <= Retention
      BY <3>3, <3>4, TouchConstants
    <3>6. QED
      BY <3>2, <3>3, <3>5 DEF Near
  <2>3. T!BothWarned
    <3>1. SUFFICES ASSUME NEW r \in Touched, NEW s \in Touched, T!Answered(r), T!Answered(s),
                          T!Overlap(r, s), ~Excused(r, s)
                   PROVE  T!PairWarned(r, s)
      BY DEF T!BothWarned, Touched, Excused
    <3>2. ASSUME NEW p \in Touched, T!Answered(p)
          PROVE  \E c \in T!Calls : c[1] = p /\ tpc[c] = "done"
      <4>1. PICK n \in 1 .. Twice[p] : tpc[<<p, n>>] = "done"
        BY <3>2 DEF T!Answered
      <4>2. <<p, n>> \in T!Calls
        BY <4>1 DEF T!Calls, Touched
      <4>3. QED
        BY <4>1, <4>2
    <3>3. PICK c \in T!Calls : c[1] = r /\ tpc[c] = "done"
      BY <3>1, <3>2
    <3>4. PICK d \in T!Calls : d[1] = s /\ tpc[d] = "done"
      BY <3>1, <3>2
    <3>5. ASSUME NEW a \in T!Calls, NEW b \in T!Calls, tpc[a] = "done", Saw(a, b)
          PROVE  \E i \in DOMAIN warning[a[1]] : warning[a[1]][i].worker = Touches[b[1]].worker
      <4>1. PICK i \in DOMAIN conflicts[a] : Touches[conflicts[a][i]].worker = Touches[b[1]].worker
        BY <3>5 DEF Saw
      <4>2. i \in 1 .. sent[a]
        BY <2>1, <3>5, <4>1 DEF TouchInv, TouchTypes, ListsKept
      <4>3. i \in DOMAIN warning[a[1]] /\ warning[a[1]][i] = T!conflictWarning(conflicts[a][i])
        BY <2>1, <4>2 DEF TouchInv, SentStored
      <4>4. QED
        BY <4>1, <4>3 DEF T!conflictWarning
    <3>6. Saw(c, d) \/ Saw(d, c)
      BY <2>1, <3>1, <3>3, <3>4 DEF TouchInv, SecondSaw, Recorded
    <3>7. QED
      BY <3>3, <3>4, <3>5, <3>6 DEF T!PairWarned
  <2>4. QED
    BY <2>2, <2>3
<1>2. QED
  BY <1>1, TouchInvariance, PTL
=============================================================================
