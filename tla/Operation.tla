------------------------------ MODULE Operation ------------------------------
(***************************************************************************)
(* internal/operation: the logical operation every record belongs to,      *)
(* derived from the rows of the ledger and stored nowhere.  A worker row   *)
(* has the worker's parent and issue (None when empty), the thread it is   *)
(* bound to and that thread's host.                                        *)
(*                                                                         *)
(* ResolveWorkers is the code's memoised search, which visits the workers  *)
(* in the order a Go map happens to give; ResolutionOf says what it is     *)
(* meant to find.                                                          *)
(***************************************************************************)
EXTENDS Naturals, Sequences, FiniteSets, FiniteSetsExt

CONSTANTS
  Workers,    \* worker IDs
  Issues,     \* issue references that parse
  BadIssue,   \* one that does not
  None

OperationAssumption == None \notin Workers \cup Issues /\ BadIssue \notin Issues

Absent == [status |-> "absent"]
Rows(ledger) == {w \in Workers : ledger[w] # Absent}

\* Kind and value of an operation key.  NormalizeIssueRef folds the case of an
\* issue, so that an issue stands for all its spellings.
IssueKey(i) == <<"issue", i>>
WorkerKey(w) == <<"worker", w>>
Keys == {IssueKey(i) : i \in Issues} \cup {WorkerKey(w) : w \in Workers}
NoKey == <<"none", None>>

Resolved(key) == [state |-> "resolved", key |-> key]
Degraded(state) == [state |-> state, key |-> NoKey]

\* NormalizeIssueRef.
NormalizeIssueRef(i) == IF i \in Issues THEN Resolved(IssueKey(i)) ELSE Degraded("invalid_issue")

-----------------------------------------------------------------------------
(* ResolveWorkers.                                                         *)

\* Mutant: above the worker asked for, the search looks for the root only.
EndsAtRoot(ledger, memo, lineage, id) ==
  \/ id \in DOMAIN memo
  \/ ledger[id].issue # None /\ lineage = << >>
  \/ \E i \in DOMAIN lineage : lineage[i] = id
  \/ ledger[id].parent \notin Rows(ledger)

\* The search stops at id when it is known, has an issue, is being visited, or has
\* no parent row to go to.
Ends(ledger, memo, lineage, id) ==
  \/ id \in DOMAIN memo
  \/ ledger[id].issue # None
  \/ \E i \in DOMAIN lineage : lineage[i] = id
  \/ ledger[id].parent \notin Rows(ledger)

\* What it finds there.
Found(ledger, memo, lineage, id) ==
  CASE id \in DOMAIN memo -> memo[id]
    [] id \notin DOMAIN memo /\ ledger[id].issue # None -> NormalizeIssueRef(ledger[id].issue)
    [] OTHER -> IF \E i \in DOMAIN lineage : lineage[i] = id THEN Degraded("parent_cycle")
                ELSE IF ledger[id].parent = None THEN Resolved(WorkerKey(id))
                ELSE Degraded("missing_parent")

\* The workers visited from id, up to the one where the search ends.
Lineage(ledger, memo, id) ==
  LET up[n \in 0 .. Cardinality(Workers)] ==
        IF n = 0 THEN << id >>
        ELSE LET s == up[n - 1]
                 last == s[Len(s)]
             IN  IF Ends(ledger, memo, SubSeq(s, 1, Len(s) - 1), last) THEN s
                 ELSE Append(s, ledger[last].parent)
  IN  up[Cardinality(Workers)]

\* resolve(id): every worker of the lineage is remembered with what was found.
Resolve(ledger, memo, id) ==
  LET s == Lineage(ledger, memo, id)
      result == Found(ledger, memo, SubSeq(s, 1, Len(s) - 1), s[Len(s)])
      visited == {s[i] : i \in DOMAIN s}
  IN  [w \in DOMAIN memo \cup visited |-> IF w \in DOMAIN memo THEN memo[w] ELSE result]

\* ResolveWorkers over the rows in the given order.
ResolveWorkers(ledger, order) ==
  LET memo[n \in 0 .. Len(order)] ==
        IF n = 0 THEN [w \in {} |-> Degraded("unlinked")]
        ELSE IF order[n] \in Rows(ledger) THEN Resolve(ledger, memo[n - 1], order[n])
        ELSE memo[n - 1]
  IN  memo[Len(order)]

\* Every order a Go map may give.
Orders == {s \in [1 .. Cardinality(Workers) -> Workers] : \A i, j \in DOMAIN s : s[i] = s[j] => i = j}

-----------------------------------------------------------------------------
(* What a resolution is meant to be (docs/design.md:158): the nearest      *)
(* worker of the lineage with an issue decides; without one the root does; *)
(* a lineage that breaks off or closes on itself has no key.               *)

\* The worker n parents above w, or None where the lineage ends before.
Ancestor(ledger, w, n) ==
  LET up[k \in 0 .. n] == IF k = 0 THEN w
                          ELSE IF up[k - 1] \in Rows(ledger) THEN ledger[up[k - 1]].parent ELSE None
  IN  up[n]

ResolutionOf(ledger, w) ==
  LET N == Cardinality(Workers)
      up(n) == Ancestor(ledger, w, n)
      withIssue == {n \in 0 .. N : up(n) \in Rows(ledger) /\ ledger[up(n)].issue # None}
      roots == {n \in 0 .. N : up(n) \in Rows(ledger) /\ ledger[up(n)].parent = None}
  IN  IF withIssue # {} THEN NormalizeIssueRef(ledger[up(Min(withIssue))].issue)
      ELSE IF roots # {} THEN Resolved(WorkerKey(up(Min(roots))))
      ELSE IF \A n \in 0 .. N : up(n) \in Rows(ledger) THEN Degraded("parent_cycle")
      ELSE Degraded("missing_parent")

-----------------------------------------------------------------------------
(* Derive.                                                                 *)

\* recordKeys: a record's own issue decides, else the operations of its workers.
recordKeys(issue, ids, resolution) ==
  IF issue # None
  THEN (IF issue \in Issues THEN {IssueKey(issue)} ELSE {})
  ELSE {resolution[w].key : w \in {x \in ids \cap DOMAIN resolution : resolution[x].state = "resolved"}}

\* matchingTaskWorkers: the workers bound to the task's thread on its host.
matchingTaskWorkers(ledger, task) ==
  {w \in Rows(ledger) : ledger[w].thread = task.thread /\ ledger[w].host = task.host /\ task.host # None}

\* The workers a record is linked to: a claim's or a gate's owner, a message's
\* sender and recipient, a task's workers.
LinkedWorkers(ledger, record) ==
  IF record.kind = "codex_task" THEN matchingTaskWorkers(ledger, record) ELSE record.workers

RecordKeys(ledger, record, resolution) ==
  recordKeys(IF record.kind = "claim" THEN record.issue ELSE None,
             LinkedWorkers(ledger, record), resolution)

\* The view: the groups by their key, and what belongs to none.
Derive(ledger, records, resolution) ==
  LET own(w) == IF resolution[w].state = "resolved" THEN {resolution[w].key} ELSE {}
      keys == UNION {own(w) : w \in Rows(ledger)}
                \cup UNION {RecordKeys(ledger, r, resolution) : r \in records}
  IN  [groups   |-> [k \in keys |->
                       [workers |-> {w \in Rows(ledger) : k \in own(w)},
                        records |-> {r \in records : k \in RecordKeys(ledger, r, resolution)}]],
       unscoped |-> [workers |-> {w \in Rows(ledger) : own(w) = {}},
                     records |-> {r \in records : RecordKeys(ledger, r, resolution) = {}}]]

operationViewHasKey(view, key) == key \in DOMAIN view.groups
=============================================================================
