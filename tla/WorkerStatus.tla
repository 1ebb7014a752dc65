---------------------------- MODULE WorkerStatus ----------------------------
(***************************************************************************)
(* A worker row says its status twice: the legacy status field and the     *)
(* lifecycle.  Commands set the first through ApplyStatusAt, which derives *)
(* the second; every save and every read derives the first from the second *)
(* again, so that the lifecycle is what counts.                            *)
(*                                                                         *)
(* A terminal timestamp is modelled by whether it is set.                  *)
(***************************************************************************)

Statuses == {"pending", "running", "idle", "done", "failed"}
Terminal == {"done", "failed"}

NoLifecycle == [session |-> "none"]
lifecycleOf(session, reason, runtime) ==
  [session |-> session, reason |-> reason, runtime |-> runtime, lost |-> FALSE, ended |-> "no"]

-----------------------------------------------------------------------------
(* internal/lifecycle.                                                     *)

IsTerminal(lc) == lc.session \in Terminal

\* A dead runtime that was lost shows as stale, unless the session has ended.
DeriveStatus(lc) ==
  CASE IsTerminal(lc) -> lc.session
    [] ~IsTerminal(lc) /\ lc.lost -> "stale"
    [] ~IsTerminal(lc) /\ ~lc.lost -> lc.session

ClearTerminalMarkersForNonTerminal(lc) ==
  IF IsTerminal(lc) THEN lc ELSE [lc EXCEPT !.ended = "no"]

-----------------------------------------------------------------------------
(* internal/store.                                                         *)

\* The reason of an orchestrator's session outlives its status.
preserveOrchestrator(previous) ==
  previous # NoLifecycle /\ previous.reason = "orchestrating"

lifecycleFromWorkerStatusWithPrevious(status, previous) ==
  LET reason(r) == IF preserveOrchestrator(previous) THEN "orchestrating" ELSE r IN
  CASE status = "running" -> lifecycleOf("working", reason("task_in_progress"), "live")
    [] status = "done"    -> lifecycleOf("done", reason("completed"), "stopped")
    [] status = "failed"  -> lifecycleOf("failed", reason("failed"), "stopped")
    [] status = "idle"    -> lifecycleOf("idle", reason(""), "stopped")
    [] OTHER -> lifecycleOf("pending",
                  IF previous = NoLifecycle THEN "" ELSE previous.reason, "unknown")

\* There is no legacy status for stale: it is told as running.
workerStatusFromLifecycle(lc) ==
  LET shown == DeriveStatus(lc) IN
  IF shown \in {"stale", "working"} THEN "running" ELSE shown

\* Mutant: only the legacy field is set.
ApplyLegacyStatus(w, status) == [w EXCEPT !.status = status]

\* ApplyStatusAt.
ApplyStatusAt(w, status) ==
  LET ended == CASE status = "done" -> "completed"
                 [] status = "failed" -> "terminated"
                 [] OTHER -> "no"
  IN  [w EXCEPT !.status = status,
                !.lifecycle = [lifecycleFromWorkerStatusWithPrevious(status, w.lifecycle)
                                 EXCEPT !.ended = ended]]

\* normalizeWorkerLifecycleForSave, and for a read, which is the same.
Normalized(w) ==
  LET lc == IF w.lifecycle = NoLifecycle
            THEN lifecycleFromWorkerStatusWithPrevious(w.status, NoLifecycle)
            ELSE w.lifecycle
      kept == ClearTerminalMarkersForNonTerminal(lc)
  IN  [w EXCEPT !.lifecycle = kept, !.status = workerStatusFromLifecycle(kept)]
=============================================================================
