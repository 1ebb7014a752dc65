-------------------------------- MODULE Relay --------------------------------
(***************************************************************************)
(* The cross-host relay: the Cloudflare coordinator's message, attempt and *)
(* receipt tables (coordinator/src/index.js), every host's journalled      *)
(* receiver (internal/relay: Journal, Runner, RunHost), the `codex queue`  *)
(* processes it starts, and the observers who attest receipts.             *)
(*                                                                         *)
(* A host may crash between any two steps of Runner.Once; a failed journal *)
(* write is the same event, since Once returns and the next poll re-reads  *)
(* the journal.  A call to the coordinator returns, or is given up by the  *)
(* client (15 s timeout); a given-up request may have been lost, may have  *)
(* been processed, or may be processed at any later time, any number of    *)
(* times.  Every coordinator mutation is one transactional D1 batch whose  *)
(* SQL guards decide; the SELECT before a batch only short-cuts replays.   *)
(***************************************************************************)
EXTENDS Naturals, FiniteSets

CONSTANTS
  Hosts, Tasks, Msgs,
  HostOf,        \* the host a task is enrolled on
  Task,          \* the destination task of a message
  Sender,        \* the host that sent a message
  MaxAttempts,   \* bound: claim request IDs a host may generate
  AttemptQuota,  \* limits.attemptsPerHost
  SenderQuota,   \* limits.messagesPerSender
  ActiveSenderQuota, ActiveTargetQuota,
  NoMsg,         \* a NULL message_id in the attempts table
  NoRow          \* no row in the attempts table

ASSUME RelayAssumption ==
  /\ HostOf \in [Tasks -> Hosts]
  /\ Task \in [Msgs -> Tasks]
  /\ Sender \in [Msgs -> Hosts]
  /\ MaxAttempts \in Nat
  /\ NoMsg \notin Msgs /\ NoRow \notin Msgs /\ NoMsg # NoRow

Attempts == 1 .. MaxAttempts
Target(m) == HostOf[Task[m]]

VARIABLES
  \* the coordinator's D1 tables
  enabled,    \* tasks.enabled
  state,      \* messages.state, or "absent"
  created,    \* messages.created_at
  attemptId,  \* messages.attempt_id, 0 when NULL
  attempts,   \* attempts.message_id by host and request ID
  receipts,   \* receipts reported by receivers
  clock,      \* the coordinator's clock
  \* each host's journal (relay.db) and the running Once
  local,      \* enrolled.enabled
  issued,     \* request IDs NewID has produced: the newest row's ID
  phase,      \* the newest row's phase; "done" rows are never read again,
              \* and no row is added while one is open
  held,       \* the newest row's message
  receipt,    \* the newest row's receipt state
  pc,         \* where Once is; "idle" outside its uninterruptible windows
  \* outside the two programs
  lateClaims,   \* claims and
  lateReceipts, \* receipts given up by their client, still in the network
  started,    \* `codex queue` processes started for a message
  accepted,   \* prompts queued by those processes
  compacted   \* messages whose terminal record was deleted

central == <<enabled, state, created, attemptId, attempts, receipts, clock>>
row     == <<phase, held, receipt>>
host    == <<local, issued, row, pc>>
codex   == <<started, accepted>>
late    == <<lateClaims, lateReceipts>>
vars == <<central, host, codex, late, compacted>>

Phases == {"done", "claiming", "ready", "dispatching", "reporting"}
Receipt == [host : Hosts, id : Attempts, msg : Msgs,
            state : {"submitted", "uncertain"}]
ClaimRequest == [host : Hosts, id : Attempts]
States == {"absent", "queued", "dispatching", "submitted", "uncertain",
           "acknowledged", "completed"}

TypeOK ==
  /\ enabled \in [Tasks -> BOOLEAN]
  /\ state \in [Msgs -> States]
  /\ created \in [Msgs -> Nat]
  /\ attemptId \in [Msgs -> 0 .. MaxAttempts]
  /\ attempts \in [Hosts -> [Attempts -> Msgs \cup {NoMsg, NoRow}]]
  /\ receipts \subseteq Receipt
  /\ clock \in Nat
  /\ local \in [Tasks -> BOOLEAN]
  /\ issued \in [Hosts -> 0 .. MaxAttempts]
  /\ phase \in [Hosts -> Phases]
  /\ held \in [Hosts -> Msgs \cup {NoMsg}]
  /\ receipt \in [Hosts -> {"none", "submitted", "uncertain"}]
  /\ pc \in [Hosts -> {"idle", "checked", "dispatch", "running"}]
  /\ lateClaims \subseteq ClaimRequest
  /\ lateReceipts \subseteq Receipt
  /\ started \in [Msgs -> Nat]
  /\ accepted \in [Msgs -> Nat]
  /\ compacted \subseteq Msgs

Init ==
  /\ enabled = [t \in Tasks |-> FALSE]
  /\ state = [m \in Msgs |-> "absent"]
  /\ created = [m \in Msgs |-> 0]
  /\ attemptId = [m \in Msgs |-> 0]
  /\ attempts = [h \in Hosts |-> [a \in Attempts |-> NoRow]]
  /\ receipts = {}
  /\ clock = 0
  /\ local = [t \in Tasks |-> FALSE]
  /\ issued = [h \in Hosts |-> 0]
  /\ phase = [h \in Hosts |-> "done"]
  /\ held = [h \in Hosts |-> NoMsg]
  /\ receipt = [h \in Hosts |-> "none"]
  /\ pc = [h \in Hosts |-> "idle"]
  /\ lateClaims = {}
  /\ lateReceipts = {}
  /\ started = [m \in Msgs |-> 0]
  /\ accepted = [m \in Msgs |-> 0]
  /\ compacted = {}

-----------------------------------------------------------------------------
(* Enrollment writes, one table at a time: RelayEnrollment models the      *)
(* commands that make them and their order.                                *)

SetCentral(t, on) ==
  /\ enabled' = [enabled EXCEPT ![t] = on]
  /\ UNCHANGED <<state, created, attemptId, attempts, receipts, clock,
                 host, codex, late, compacted>>

\* Mutant: Enroll does not take the journal lock.
SetLocalUnlocked(t, on) ==
  /\ local' = [local EXCEPT ![t] = on]
  /\ UNCHANGED <<central, issued, row, pc, codex, late, compacted>>

\* Journal.Enroll runs under the journal's file lock, so never inside Once.
SetLocal(t, on) ==
  /\ pc[HostOf[t]] = "idle"
  /\ local' = [local EXCEPT ![t] = on]
  /\ UNCHANGED <<central, issued, row, pc, codex, late, compacted>>

-----------------------------------------------------------------------------
(* The coordinator.                                                        *)

Retained == {m \in Msgs : state[m] # "absent"}
Active == {m \in Retained : state[m] # "completed"}

\* POST /v1/messages.  A replay of a stored message changes nothing; a retry
\* after compaction is ruled out by the documented replay horizon.
Send(m) ==
  /\ state[m] = "absent"
  /\ m \notin compacted
  /\ enabled[Task[m]]
  /\ Cardinality({k \in Retained : Sender[k] = Sender[m]}) < SenderQuota
  /\ Cardinality({k \in Active : Sender[k] = Sender[m]}) < ActiveSenderQuota
  /\ Cardinality({k \in Active : Target(k) = Target(m)}) < ActiveTargetQuota
  /\ state' = [state EXCEPT ![m] = "queued"]
  /\ created' = [created EXCEPT ![m] = clock]
  /\ clock' = clock + 1
  /\ UNCHANGED <<enabled, attemptId, attempts, receipts, host, codex, late,
                 compacted>>

\* Mutant: a claim is not limited to messages for the claiming host.
EligibleAnyHost(h) ==
  {m \in Msgs : state[m] = "queued" /\ enabled[Task[m]]}

\* /v1/ready and /v1/claim select among the host's own queued messages.
Eligible(h) ==
  {m \in Msgs : Target(m) = h /\ state[m] = "queued" /\ enabled[Task[m]]}

\* ORDER BY m.created_at, m.id LIMIT 1
Oldest(h) ==
  {m \in Eligible(h) : \A k \in Eligible(h) : created[m] <= created[k]}

Rows(h) == {a \in Attempts : attempts[h][a] # NoRow}

\* The batch of POST /v1/claim when request ID a of host h has no attempt yet:
\* it records the oldest eligible message, or the fact that there was none.
NewLease(h, a) ==
  /\ attempts[h][a] = NoRow
  /\ Cardinality(Rows(h)) < AttemptQuota
  /\ \/ /\ Oldest(h) = {}
        /\ attempts' = [attempts EXCEPT ![h][a] = NoMsg]
        /\ UNCHANGED <<state, attemptId>>
     \/ \E m \in Oldest(h) :
          /\ attempts' = [attempts EXCEPT ![h][a] = m]
          /\ state' = [state EXCEPT ![m] = "dispatching"]
          /\ attemptId' = [attemptId EXCEPT ![m] = a]

\* POST /v1/claim: a known request ID replays its attempt.
CoordinatorClaim(h, a) ==
  /\ \/ attempts[h][a] # NoRow /\ UNCHANGED <<attempts, state, attemptId>>
     \/ NewLease(h, a)
  /\ UNCHANGED <<enabled, created, receipts, clock>>

\* Mutant: the batch has no guard on the message's current state.
ReceiptUnguarded(r) ==
  /\ receipts' = receipts \cup {r}
  /\ state' = [state EXCEPT ![r.msg] = r.state]
  /\ UNCHANGED <<enabled, created, attemptId, attempts, clock>>

\* Mutant: a stored receipt is not replayed.
ReceiptNotReplayed(r) ==
  /\ r \notin receipts
  /\ state[r.msg] = "dispatching" /\ Target(r.msg) = r.host
  /\ receipts' = receipts \cup {r}
  /\ state' = [state EXCEPT ![r.msg] = r.state]
  /\ UNCHANGED <<enabled, created, attemptId, attempts, clock>>

\* POST /v1/receipts from a receiver: a stored receipt is replayed, and a new
\* one is stored only together with the state transition it stands for.
CoordinatorReceipt(r) ==
  /\ \/ r \in receipts /\ UNCHANGED <<receipts, state>>
     \/ /\ r \notin receipts
        /\ state[r.msg] = "dispatching" /\ Target(r.msg) = r.host
        /\ receipts' = receipts \cup {r}
        /\ state' = [state EXCEPT ![r.msg] = r.state]
  /\ UNCHANGED <<enabled, created, attemptId, attempts, clock>>

\* `cs relay receipt --status acknowledged|completed` on the destination host;
\* the evidence is honest: the observer saw the prompt in the task.  It may
\* come before the receiver's own report, while the message is dispatching.
Acknowledge(m) ==
  /\ state[m] \in {"dispatching", "submitted", "uncertain"}
  /\ accepted[m] > 0
  /\ state' = [state EXCEPT ![m] = "acknowledged"]
  /\ UNCHANGED <<enabled, created, attemptId, attempts, receipts, clock,
                 host, codex, late, compacted>>

Complete(m) ==
  /\ state[m] = "acknowledged"
  /\ state' = [state EXCEPT ![m] = "completed"]
  /\ UNCHANGED <<enabled, created, attemptId, attempts, receipts, clock,
                 host, codex, late, compacted>>

\* The daily compactRelay, 30 days after a message completed: no request
\* about it is still travelling by then, but a host that was away so long may
\* still hold it.
Compact(m) ==
  /\ state[m] = "completed"
  /\ state' = [state EXCEPT ![m] = "absent"]
  /\ attemptId' = [attemptId EXCEPT ![m] = 0]
  /\ attempts' = [h \in Hosts |-> [a \in Attempts |->
                    IF attempts[h][a] = m THEN NoRow ELSE attempts[h][a]]]
  /\ receipts' = {r \in receipts : r.msg # m}
  /\ lateReceipts' = {r \in lateReceipts : r.msg # m}
  /\ lateClaims' = {r \in lateClaims : attempts[r.host][r.id] # m}
  /\ compacted' = compacted \cup {m}
  /\ UNCHANGED <<enabled, created, clock, host, codex>>

CompactEmpty(h, a) ==
  /\ attempts[h][a] = NoMsg
  /\ attempts' = [attempts EXCEPT ![h][a] = NoRow]
  /\ lateClaims' = lateClaims \ {[host |-> h, id |-> a]}
  /\ UNCHANGED <<enabled, state, created, attemptId, receipts, clock, host,
                 codex, lateReceipts, compacted>>

-----------------------------------------------------------------------------
(* Runner.Once on host h.                                                  *)

\* Journal.save of the newest row.
Save(h, p, m, r) ==
  /\ phase' = [phase EXCEPT ![h] = p]
  /\ held' = [held EXCEPT ![h] = m]
  /\ receipt' = [receipt EXCEPT ![h] = r]

Close(h) == Save(h, "done", NoMsg, "none")

At(h, p) == pc[h] = "idle" /\ phase[h] = p

\* No open row and GET /v1/ready says yes: journal a fresh claim request.
Open(h) ==
  /\ At(h, "done")
  /\ Eligible(h) # {}
  /\ issued[h] < MaxAttempts
  /\ issued' = [issued EXCEPT ![h] = @ + 1]
  /\ Save(h, "claiming", NoMsg, "none")
  /\ UNCHANGED <<central, local, pc, codex, late, compacted>>

\* Mutant: an empty claim leaves its row open.
ClaimKeepsEmptyRow(h) ==
  /\ At(h, "claiming")
  /\ CoordinatorClaim(h, issued[h])
  /\ LET m == attempts'[h][issued[h]]
     IN  Save(h, IF m = NoMsg THEN "claiming" ELSE "ready", m, "none")
  /\ UNCHANGED <<local, issued, pc, codex, late, compacted>>

\* Mailbox.Claim answers.  No message closes the row; a message of another
\* host or attempt is refused and the row stays as it is.
Claim(h) ==
  /\ At(h, "claiming")
  /\ CoordinatorClaim(h, issued[h])
  /\ LET m == attempts'[h][issued[h]]
     IN  \/ m = NoMsg /\ Close(h)
         \/ /\ m \in Msgs
            /\ Target(m) = h /\ attemptId'[m] = issued[h]
            /\ Save(h, "ready", m, "none")
  /\ UNCHANGED <<local, issued, pc, codex, late, compacted>>

ClaimGivenUp(h) ==
  /\ At(h, "claiming")
  /\ lateClaims' = lateClaims \cup {[host |-> h, id |-> issued[h]]}
  /\ UNCHANGED <<central, host, codex, lateReceipts, compacted>>

\* Mailbox.Inspect answers: only a message still dispatching under this
\* attempt is executed; one that moved on closes the row.  A deleted or
\* changed message is an error that leaves the row ready.
Inspect(h) ==
  LET m == held[h] IN
  /\ At(h, "ready")
  /\ state[m] # "absent" /\ attemptId[m] = issued[h]
  /\ \/ /\ state[m] = "dispatching"
        /\ pc' = [pc EXCEPT ![h] = "checked"]
        /\ UNCHANGED row
     \/ /\ state[m] \in {"submitted", "acknowledged", "completed", "uncertain"}
        /\ Close(h)
        /\ UNCHANGED pc
  /\ UNCHANGED <<central, local, issued, codex, late, compacted>>

\* Local enrollment refuses, or the "dispatching" phase is journalled before
\* Codex is touched.
Decide(h) ==
  /\ pc[h] = "checked"
  /\ IF local[Task[held[h]]]
     THEN /\ Save(h, "dispatching", held[h], "none")
          /\ pc' = [pc EXCEPT ![h] = "dispatch"]
     ELSE /\ Save(h, "reporting", held[h], "uncertain")
          /\ pc' = [pc EXCEPT ![h] = "idle"]
  /\ UNCHANGED <<central, local, issued, codex, late, compacted>>

\* CodexQueue.Submit starts `codex queue --thread --message`.
StartSubmit(h) ==
  /\ pc[h] = "dispatch"
  /\ started' = [started EXCEPT ![held[h]] = @ + 1]
  /\ pc' = [pc EXCEPT ![h] = "running"]
  /\ UNCHANGED <<central, local, issued, row, accepted, late, compacted>>

\* The process prints its submission ID, or fails or times out at any moment;
\* either way the outcome is journalled before it is reported.
SubmitReturns(h) ==
  /\ pc[h] = "running"
  /\ \/ /\ accepted[held[h]] = started[held[h]]
        /\ Save(h, "reporting", held[h], "submitted")
     \/ Save(h, "reporting", held[h], "uncertain")
  /\ pc' = [pc EXCEPT ![h] = "idle"]
  /\ UNCHANGED <<central, local, issued, codex, late, compacted>>

\* Mutant: a restarted receiver tries the submission again.
RecoverByRetrying(h) ==
  /\ At(h, "dispatching")
  /\ Save(h, "ready", held[h], "none")
  /\ UNCHANGED <<central, local, issued, pc, codex, late, compacted>>

\* Mutant: a restarted receiver drops the interrupted delivery.
RecoverByDropping(h) ==
  /\ At(h, "dispatching")
  /\ Close(h)
  /\ UNCHANGED <<central, local, issued, pc, codex, late, compacted>>

\* Once finds "dispatching" in the journal: a crash hid the outcome.
Recover(h) ==
  /\ At(h, "dispatching")
  /\ Save(h, "reporting", held[h], "uncertain")
  /\ UNCHANGED <<central, local, issued, pc, codex, late, compacted>>

\* The row's receipt; its own request ID is fixed with the row, so the
\* attempt's ID stands for it.
ReceiptOf(h) == [host |-> h, id |-> issued[h], msg |-> held[h],
                 state |-> receipt[h]]

\* Mailbox.Report answers with success; HTTP 409 leaves the row reporting.
Report(h) ==
  /\ At(h, "reporting")
  /\ CoordinatorReceipt(ReceiptOf(h))
  /\ Close(h)
  /\ UNCHANGED <<local, issued, pc, codex, late, compacted>>

ReportGivenUp(h) ==
  /\ At(h, "reporting")
  /\ lateReceipts' = lateReceipts \cup {ReceiptOf(h)}
  /\ UNCHANGED <<central, host, codex, lateClaims, compacted>>

\* The process dies, or a journal write fails, inside one of Once's windows.
Crash(h) ==
  /\ pc[h] # "idle"
  /\ pc' = [pc EXCEPT ![h] = "idle"]
  /\ UNCHANGED <<central, local, issued, row, codex, late, compacted>>

-----------------------------------------------------------------------------
(* The network and Codex.                                                  *)

LateClaim(r) ==
  /\ CoordinatorClaim(r.host, r.id)
  /\ UNCHANGED <<host, codex, late, compacted>>

LateReceipt(r) ==
  /\ CoordinatorReceipt(r)
  /\ UNCHANGED <<host, codex, late, compacted>>

\* A started process queues the prompt; it may outlive the receiver.
Accept(m) ==
  /\ accepted[m] < started[m]
  /\ accepted' = [accepted EXCEPT ![m] = @ + 1]
  /\ UNCHANGED <<central, host, started, late, compacted>>

-----------------------------------------------------------------------------
HostStep(h) ==
  \/ Open(h) \/ Claim(h) \/ ClaimGivenUp(h) \/ Inspect(h) \/ Decide(h)
  \/ StartSubmit(h) \/ SubmitReturns(h) \/ Recover(h) \/ Report(h)
  \/ ReportGivenUp(h) \/ Crash(h)

MessageStep(m) ==
  \/ Send(m) \/ Acknowledge(m) \/ Complete(m) \/ Compact(m) \/ Accept(m)

Next ==
  \/ \E h \in Hosts : HostStep(h)
  \/ \E m \in Msgs : MessageStep(m)
  \/ \E t \in Tasks, on \in BOOLEAN : SetCentral(t, on) \/ SetLocal(t, on)
  \/ \E h \in Hosts, a \in Attempts : CompactEmpty(h, a)
  \/ \E r \in lateClaims : LateClaim(r)
  \/ \E r \in lateReceipts : LateReceipt(r)

Spec == Init /\ [][Next]_vars

\* RunHost polls for ever and is restarted after a crash, the network does
\* not fail every call, and a host does not crash at the same point for ever.
HostFairness(h) ==
  /\ WF_vars(Open(h)) /\ WF_vars(Claim(h)) /\ WF_vars(Inspect(h))
  /\ SF_vars(Decide(h)) /\ WF_vars(StartSubmit(h))
  /\ WF_vars(SubmitReturns(h)) /\ WF_vars(Recover(h)) /\ WF_vars(Report(h))

FairSpec == Spec /\ \A h \in Hosts : HostFairness(h)

-----------------------------------------------------------------------------
(* Safety.                                                                 *)

\* Codex never queues a message twice, whatever crashes, lost answers, late
\* requests and restarts happen on the way (Runner.Once: "never automatically
\* repeats a Codex submission after it might have started").
AtMostOnce == \A m \in Msgs : accepted[m] <= 1

\* A message leased to a host is never stranded there: as long as the
\* coordinator shows it dispatching, the host's journal holds an open row for
\* that very attempt, so some later poll will execute or report it.
NoStranding ==
  \A m \in Msgs :
    state[m] = "dispatching" =>
      LET h == Target(m) IN
      /\ phase[h] # "done"
      /\ issued[h] = attemptId[m]
      /\ phase[h] # "claiming" => held[h] = m

\* Once local enrollment is revoked no submission starts, although Once checks
\* enrollment several steps before it starts the process: the journal lock
\* keeps `cs relay register` out of that window.
RevocationBars ==
  [][\A m \in Msgs : started'[m] # started[m] => local[Task[m]]]_vars

\* The relay implements the abstract mailbox.
Status ==
  [m \in Msgs |-> IF state[m] # "absent" THEN state[m]
                  ELSE IF m \in compacted THEN "forgotten" ELSE "unsent"]
Box == INSTANCE Mailbox WITH status <- Status, delivered <- accepted
ImplementsMailbox == Box!MSpec

-----------------------------------------------------------------------------
(* The inductive invariant behind them.                                    *)

Holding == {"ready", "dispatching", "reporting"}

\* The journal row and the point Once has reached agree.
RowShape ==
  \A h \in Hosts :
    /\ phase[h] # "done" => issued[h] # 0
    /\ (phase[h] \in Holding) <=> (held[h] # NoMsg)
    /\ (phase[h] = "reporting") <=> (receipt[h] # "none")
    /\ pc[h] = "checked" => phase[h] = "ready"
    /\ pc[h] \in {"dispatch", "running"} => phase[h] = "dispatching"

\* The attempts table and messages.attempt_id point at each other.
LeaseOwned ==
  /\ \A m \in Msgs :
       state[m] = "dispatching" =>
         attemptId[m] # 0 /\ attempts[Target(m)][attemptId[m]] = m
  /\ \A h \in Hosts, a \in Attempts :
       /\ a > issued[h] => attempts[h][a] = NoRow
       /\ attempts[h][a] \in Msgs =>
            LET m == attempts[h][a] IN
            /\ Target(m) = h /\ attemptId[m] = a
            /\ state[m] \notin {"absent", "queued"}

\* A row that holds a message holds the message its attempt leased, unless
\* the coordinator has compacted it since.
RowOwnsLease ==
  \A h \in Hosts :
    phase[h] \in Holding =>
      \/ attempts[h][issued[h]] = held[h]
      \/ held[h] \in compacted

\* Requests still travelling belong to attempts the coordinator or the
\* journal knows.
LateKnown ==
  /\ \A r \in lateClaims :
       /\ r.id <= issued[r.host]
       /\ \/ attempts[r.host][r.id] # NoRow
          \/ phase[r.host] = "claiming" /\ issued[r.host] = r.id
  /\ \A r \in lateReceipts : r.state = "submitted" => accepted[r.msg] = 1

\* A submission has not started while the journal may still lead to one.
NotStarted(m) ==
  \/ state[m] = "queued"
  \/ state[m] = "absent" /\ m \notin compacted
  \/ \E h \in Hosts :
       \/ held[h] = m /\ (phase[h] = "ready" \/ pc[h] = "dispatch")
       \/ phase[h] = "claiming" /\ attempts[h][issued[h]] = m

StartedOnce ==
  \A m \in Msgs :
    /\ started[m] <= 1
    /\ accepted[m] <= started[m]
    /\ NotStarted(m) => started[m] = 0
    /\ \A h \in Hosts : pc[h] = "running" /\ held[h] = m => started[m] = 1

\* A positive status rests on a prompt Codex really queued.
EvidenceIsReal ==
  /\ \A h \in Hosts :
       receipt[h] = "submitted" => accepted[held[h]] = 1
  /\ \A m \in Msgs :
       state[m] \in {"submitted", "acknowledged", "completed"}
         => accepted[m] = 1
  /\ \A m \in compacted : state[m] = "absent" /\ accepted[m] = 1
  /\ \A r \in receipts :
       state[r.msg] \notin {"absent", "queued", "dispatching"}

IInv ==
  /\ TypeOK /\ RowShape /\ LeaseOwned /\ RowOwnsLease /\ LateKnown
  /\ StartedOnce /\ EvidenceIsReal /\ NoStranding

-----------------------------------------------------------------------------
(* Liveness, under FairSpec.                                               *)

\* An observer acknowledged the message before the receiver's receipt was
\* stored: the coordinator refuses that receipt from then on.
Overtaken(m) ==
  /\ state[m] \in {"acknowledged", "completed"}
  /\ \A r \in receipts : r.msg # m

\* The row of a host that was away until its message was compacted.
Forgotten(h) == held[h] \in compacted

\* A journalled receipt is delivered and its row closed, through crashes, lost
\* answers and late copies, unless an observer was faster than the receipt or
\* the host away past the retention.
\* (docs/cross-host-relay.md: "the receiver automatically retries its durable
\* pending claim and receipt after connectivity returns")
ReceiptDrains ==
  \A h \in Hosts :
    (phase[h] = "reporting") ~>
      (phase[h] # "reporting" \/ Overtaken(held[h]) \/ Forgotten(h))

\* The quoted sentence without the exceptions.  TLC finds the receipt that an
\* early acknowledgement overtook: it is refused at every poll.
ReceiptAlwaysDrains ==
  \A h \in Hosts : (phase[h] = "reporting") ~> (phase[h] # "reporting")

\* A lease is resolved: dispatching is left for submitted, uncertain or
\* acknowledged, through crashes and lost answers.
LeaseResolves ==
  \A m \in Msgs : (state[m] = "dispatching") ~> (state[m] # "dispatching")

\* What keeps a host from every later delivery: Once serves its open row only.
Blocked(h) ==
  \/ phase[h] = "reporting" /\ Overtaken(held[h])
  \/ Forgotten(h)
  \/ /\ phase[h] = "claiming" /\ attempts[h][issued[h]] = NoRow
     /\ Cardinality(Rows(h)) >= AttemptQuota
  \/ phase[h] = "done" /\ issued[h] = MaxAttempts  \* the model's bound

\* A message for an enabled task stays queued for ever only if its host is
\* blocked for ever, by a receipt that was overtaken or forgotten or by its
\* full attempts table: no other row and no other history does that.
QueuedIsClaimed ==
  \A m \in Msgs :
    <>[](state[m] = "queued" /\ enabled[Task[m]]) => <>[]Blocked(Target(m))
=============================================================================
