----------------------------- MODULE RelayProofs -----------------------------
(***************************************************************************)
(* Proofs about Relay for every set of hosts, tasks and messages, every    *)
(* quota and every number of attempts: the inductive invariant IInv, and   *)
(* from it type correctness, at-most-once delivery, leases that are never  *)
(* stranded, local revocation, and the refinement of Mailbox.              *)
(*                                                                         *)
(* One lemma per action shows that the action keeps IInv, with one step    *)
(* per conjunct.                                                           *)
(***************************************************************************)
EXTENDS Relay, TLAPS

-----------------------------------------------------------------------------
\* Arithmetic the provers need in isolation.
LEMMA OneBelow ==
  ASSUME NEW x \in Nat, NEW y \in Nat, x <= y, y <= 1, x > 0 PROVE x = 1
OBVIOUS

\* The same, for a count strictly below one.
LEMMA NoneBelow ==
  ASSUME NEW x \in Nat, NEW y \in Nat, x < y, y <= 1 PROVE x = 0 /\ y = 1
OBVIOUS

\* A fresh claim request has an ID no attempt or late claim has used.
LEMMA OpenStep == ASSUME NEW h \in Hosts, IInv, Open(h) PROVE IInv'
<1> USE RelayAssumption DEF RelayAssumption, IInv, TypeOK, Open, central, host,
      row, codex, late, At, Save, Close
<1>1. TypeOK' BY DEF States, Phases, RowShape, Holding, Attempts, ClaimRequest, Receipt, ReceiptOf
<1>2. RowShape' BY DEF RowShape, Holding, Phases
<1>3. LeaseOwned' BY DEF LeaseOwned, Attempts, Target
<1>4. RowOwnsLease' BY DEF RowOwnsLease, RowShape, Holding, LeaseOwned, Phases
<1>5. LateKnown' BY DEF LateKnown, Attempts, ClaimRequest, Receipt, ReceiptOf
<1>6. StartedOnce'
  <2>1. /\ issued[h] + 1 \in Attempts /\ issued'[h] = issued[h] + 1
        /\ attempts[h][issued[h] + 1] = NoRow
    BY DEF LeaseOwned, Attempts
  <2>2. ASSUME NEW m \in Msgs, NotStarted(m)' PROVE NotStarted(m)
    BY <2>1, <2>2 DEF NotStarted, RowShape
  <2> QED BY <2>2 DEF StartedOnce
<1>7. EvidenceIsReal' BY DEF EvidenceIsReal, RowShape, StartedOnce
<1>8. NoStranding' BY DEF NoStranding, RowShape, LeaseOwned
<1> QED BY <1>1, <1>2, <1>3, <1>4, <1>5, <1>6, <1>7, <1>8

\* A claim left in the network belongs to the row that is still claiming.
LEMMA ClaimGivenUpStep == ASSUME NEW h \in Hosts, IInv, ClaimGivenUp(h) PROVE IInv'
<1> USE RelayAssumption DEF RelayAssumption, IInv, TypeOK, ClaimGivenUp, central, host,
      row, codex, late, At, Save, Close
<1>1. TypeOK'
  <2>1. issued[h] # 0
    BY DEF RowShape, Phases
  <2>2. [host |-> h, id |-> issued[h]] \in ClaimRequest
    BY <2>1 DEF ClaimRequest, Attempts
  <2>3. lateClaims' \subseteq ClaimRequest
    BY <2>2
  <2> QED BY <2>3
<1>2. RowShape' BY DEF RowShape, Holding, Phases
<1>3. LeaseOwned' BY DEF LeaseOwned, Attempts, Target
<1>4. RowOwnsLease' BY DEF RowOwnsLease, RowShape, Holding, LeaseOwned, Phases
<1>5. LateKnown'
  <2> DEFINE q == [host |-> h, id |-> issued[h]]
  <2>1. q.host = h /\ q.id = issued[h]
    OBVIOUS
  <2>2. \A r \in lateClaims' : r \in lateClaims \/ r = q
    OBVIOUS
  <2> QED BY <2>1, <2>2 DEF LateKnown
<1>6. StartedOnce' BY DEF StartedOnce, NotStarted, RowShape, EvidenceIsReal, LeaseOwned
<1>7. EvidenceIsReal' BY DEF EvidenceIsReal, RowShape, StartedOnce
<1>8. NoStranding' BY DEF NoStranding, RowShape, LeaseOwned
<1> QED BY <1>1, <1>2, <1>3, <1>4, <1>5, <1>6, <1>7, <1>8

\* A row is closed only when its message is no longer dispatching.
LEMMA InspectStep == ASSUME NEW h \in Hosts, IInv, Inspect(h) PROVE IInv'
<1> USE RelayAssumption DEF RelayAssumption, IInv, TypeOK, Inspect, central, host,
      row, codex, late, At, Save, Close
<1>0. /\ held[h] \in Msgs /\ phase[h] = "ready"
      /\ held[h] # NoMsg
  BY DEF RowShape, Holding
<1>1. TypeOK'
  <2>0. held' \in [Hosts -> Msgs \cup {NoMsg}]
    OBVIOUS
  <2>1. phase' \in [Hosts -> Phases]
    BY DEF Phases
  <2>2. receipt' \in [Hosts -> {"none", "submitted", "uncertain"}]
    OBVIOUS
  <2>3. pc' \in [Hosts -> {"idle", "checked", "dispatch", "running"}]
    OBVIOUS
  <2>4. UNCHANGED <<central, local, issued, codex, late, compacted>>
    OBVIOUS
  <2> HIDE DEF Inspect
  <2> QED BY <2>0, <2>1, <2>2, <2>3, <2>4
<1>2. RowShape' BY DEF RowShape, Holding, Phases
<1>3. LeaseOwned' BY DEF LeaseOwned, Attempts, Target
<1>4. RowOwnsLease' BY DEF RowOwnsLease, RowShape, Holding, LeaseOwned, Phases
<1>5. LateKnown'
  <2>1. \A r \in lateClaims : r.host \in Hosts
    BY DEF ClaimRequest
  <2> QED BY <1>0, <2>1 DEF LateKnown
<1>6. StartedOnce' BY DEF StartedOnce, NotStarted, RowShape, EvidenceIsReal, LeaseOwned
<1>7. EvidenceIsReal' BY DEF EvidenceIsReal, RowShape, StartedOnce
<1>8. NoStranding'
  <2>1. \A g \in Hosts \ {h} : phase'[g] = phase[g] /\ held'[g] = held[g]
    OBVIOUS
  <2>2. \A m \in Msgs : Target(m) \in Hosts
    BY DEF Target
  <2> QED BY <1>0, <2>1, <2>2 DEF NoStranding, Phases
<1> QED BY <1>1, <1>2, <1>3, <1>4, <1>5, <1>6, <1>7, <1>8

\* The row goes to dispatching, or to reporting an uncertain outcome.
LEMMA DecideStep == ASSUME NEW h \in Hosts, IInv, Decide(h) PROVE IInv'
<1> USE RelayAssumption DEF RelayAssumption, IInv, TypeOK, Decide, central, host,
      row, codex, late, At, Save, Close
<1>0. /\ held[h] \in Msgs /\ phase[h] = "ready"
      /\ held[h] # NoMsg
  BY DEF RowShape, Holding
<1>1. TypeOK'
  <2>1. phase' \in [Hosts -> Phases]
    BY DEF Phases
  <2>2. held' \in [Hosts -> Msgs \cup {NoMsg}]
    BY <1>0
  <2>3. receipt' \in [Hosts -> {"none", "submitted", "uncertain"}]
    OBVIOUS
  <2> QED BY <2>1, <2>2, <2>3
<1>2. RowShape' BY DEF RowShape, Holding, Phases
<1>3. LeaseOwned' BY DEF LeaseOwned, Attempts, Target
<1>4. RowOwnsLease'
  <2>1. /\ \A g \in Hosts \ {h} : phase'[g] = phase[g] /\ held'[g] = held[g]
        /\ held'[h] = held[h]
    OBVIOUS
  <2> QED BY <1>0, <2>1 DEF RowOwnsLease, Holding
<1>5. LateKnown'
  <2>1. \A r \in lateClaims : r.host \in Hosts
    BY DEF ClaimRequest
  <2> QED BY <1>0, <2>1 DEF LateKnown
<1>6. StartedOnce'
  <2>1. \A g \in Hosts \ {h} : /\ phase'[g] = phase[g] /\ held'[g] = held[g]
                               /\ pc'[g] = pc[g]
    OBVIOUS
  <2>2. /\ held'[h] = held[h] /\ pc'[h] # "running"
        /\ phase'[h] \notin {"ready", "claiming"}
    BY <1>0
  <2>3. UNCHANGED <<state, compacted, attempts, issued, started, accepted>>
    OBVIOUS
  <2> HIDE DEF Decide, At, Save, Close, TypeOK
  <2>4. ASSUME NEW m \in Msgs PROVE NotStarted(m)' => NotStarted(m)
    <3>1. ASSUME NEW g \in Hosts,
                 \/ held'[g] = m /\ (phase'[g] = "ready" \/ pc'[g] = "dispatch")
                 \/ phase'[g] = "claiming" /\ attempts[g][issued[g]] = m
          PROVE  NotStarted(m)
      BY <3>1, <1>0, <2>1, <2>2 DEF NotStarted
    <3> QED BY <2>3, <3>1 DEF NotStarted
  <2>5. ASSUME NEW m \in Msgs, NEW g \in Hosts, pc'[g] = "running", held'[g] = m
        PROVE  started[m] = 1
    BY <2>5, <2>1, <2>2 DEF StartedOnce
  <2> QED BY <2>3, <2>4, <2>5 DEF StartedOnce
<1>7. EvidenceIsReal'
  <2>1. \A g \in Hosts \ {h} : receipt'[g] = receipt[g] /\ held'[g] = held[g]
    OBVIOUS
  <2>2. receipt'[h] # "submitted"
    BY <1>0
  <2>3. UNCHANGED <<state, compacted, accepted, receipts>>
    OBVIOUS
  <2> HIDE DEF Decide, At, Save, Close, TypeOK
  <2> QED BY <2>1, <2>2, <2>3 DEF EvidenceIsReal
<1>8. NoStranding'
  <2>1. \A g \in Hosts \ {h} : phase'[g] = phase[g] /\ held'[g] = held[g]
    OBVIOUS
  <2>2. \A m \in Msgs : Target(m) \in Hosts
    BY DEF Target
  <2>3. held'[h] = held[h] /\ phase'[h] \notin {"done", "claiming"}
    BY <1>0
  <2>4. UNCHANGED <<state, attemptId, issued>>
    OBVIOUS
  <2> HIDE DEF Decide
  <2> QED BY <1>0, <2>1, <2>2, <2>3, <2>4 DEF NoStranding, Target
<1> QED BY <1>1, <1>2, <1>3, <1>4, <1>5, <1>6, <1>7, <1>8

\* No other host or row can submit the message that is being started.
LEMMA StartSubmitStep == ASSUME NEW h \in Hosts, IInv, StartSubmit(h) PROVE IInv'
<1> USE RelayAssumption DEF RelayAssumption, IInv, TypeOK, StartSubmit, central, host,
      row, codex, late, At, Save, Close
<1>1. TypeOK' BY DEF States, Phases, RowShape, Holding
<1>2. RowShape' BY DEF RowShape, Holding, Phases
<1>3. LeaseOwned' BY DEF LeaseOwned, Attempts, Target
<1>4. RowOwnsLease' BY DEF RowOwnsLease, RowShape, Holding, LeaseOwned, Phases
<1>5. LateKnown' BY DEF LateKnown
<1>6. StartedOnce'
  <2> DEFINE m == held[h]
  <2>1. m \in Msgs /\ started[m] = 0 /\ m \notin compacted
    BY DEF StartedOnce, NotStarted, RowShape, Holding, EvidenceIsReal
  <2>2. /\ issued[h] \in Attempts /\ attempts[h][issued[h]] = m
        /\ Target(m) = h /\ state[m] \notin {"absent", "queued"}
    BY <2>1 DEF RowOwnsLease, RowShape, Holding, Attempts, LeaseOwned
  <2>3. \A g \in Hosts : /\ phase[g] \in Holding /\ held[g] = m => g = h
                         /\ phase[g] = "claiming" => attempts[g][issued[g]] # m
    BY <2>1, <2>2 DEF RowOwnsLease, RowShape, Holding, Attempts, LeaseOwned
  <2>4. ~NotStarted(m)'
    BY <2>1, <2>2, <2>3 DEF NotStarted, RowShape, Holding
  <2>5. ASSUME NEW k \in Msgs, k # m, NotStarted(k)' PROVE NotStarted(k)
    BY <2>5 DEF NotStarted
  <2> QED BY <2>1, <2>4, <2>5 DEF StartedOnce
<1>7. EvidenceIsReal' BY DEF EvidenceIsReal, RowShape, StartedOnce
<1>8. NoStranding' BY DEF NoStranding, RowShape, LeaseOwned
<1> QED BY <1>1, <1>2, <1>3, <1>4, <1>5, <1>6, <1>7, <1>8

\* Submitted is journalled only for a prompt Codex queued.
LEMMA SubmitReturnsStep == ASSUME NEW h \in Hosts, IInv, SubmitReturns(h) PROVE IInv'
<1> USE RelayAssumption DEF RelayAssumption, IInv, TypeOK, SubmitReturns, central, host,
      row, codex, late, At, Save, Close
<1>0. /\ held[h] \in Msgs /\ phase[h] = "dispatching"
      /\ held[h] # NoMsg
  BY DEF RowShape, Holding
<1>1. TypeOK'
  <2>1. phase' \in [Hosts -> Phases]
    BY DEF Phases
  <2>2. held' \in [Hosts -> Msgs \cup {NoMsg}]
    BY <1>0
  <2>3. receipt' \in [Hosts -> {"none", "submitted", "uncertain"}]
    OBVIOUS
  <2> QED BY <2>1, <2>2, <2>3
<1>2. RowShape' BY DEF RowShape, Holding, Phases
<1>3. LeaseOwned' BY DEF LeaseOwned, Attempts, Target
<1>4. RowOwnsLease'
  <2>1. \A g \in Hosts \ {h} : phase'[g] = phase[g] /\ held'[g] = held[g]
    OBVIOUS
  <2>2. held'[h] = held[h]
    BY <1>0
  <2>3. UNCHANGED <<attempts, issued, compacted>>
    OBVIOUS
  <2> HIDE DEF SubmitReturns, At, Save, Close, TypeOK
  <2> QED BY <1>0, <2>1, <2>2, <2>3 DEF RowOwnsLease, Holding
<1>5. LateKnown'
  <2>1. \A r \in lateClaims : r.host \in Hosts
    BY DEF ClaimRequest
  <2> QED BY <1>0, <2>1 DEF LateKnown
<1>6. StartedOnce' BY DEF StartedOnce, NotStarted, RowShape, EvidenceIsReal, LeaseOwned
<1>7. EvidenceIsReal'
  <2>1. started[held[h]] = 1
    BY <1>0 DEF StartedOnce
  <2>2. \A g \in Hosts \ {h} : receipt'[g] = receipt[g] /\ held'[g] = held[g]
    OBVIOUS
  <2>3. receipt'[h] = "submitted" => accepted[held'[h]] = 1
    BY <1>0, <2>1
  <2>4. UNCHANGED <<state, compacted, accepted, receipts>>
    OBVIOUS
  <2> HIDE DEF SubmitReturns, At, Save, Close, TypeOK
  <2> QED BY <2>2, <2>3, <2>4 DEF EvidenceIsReal
<1>8. NoStranding'
  <2>1. \A g \in Hosts \ {h} : phase'[g] = phase[g] /\ held'[g] = held[g]
    OBVIOUS
  <2>2. \A m \in Msgs : Target(m) \in Hosts
    BY DEF Target
  <2> QED BY <1>0, <2>1, <2>2 DEF NoStranding, Phases
<1> QED BY <1>1, <1>2, <1>3, <1>4, <1>5, <1>6, <1>7, <1>8

\* After a crash the outcome is uncertain, and the row keeps its lease.
LEMMA RecoverStep == ASSUME NEW h \in Hosts, IInv, Recover(h) PROVE IInv'
<1> USE RelayAssumption DEF RelayAssumption, IInv, TypeOK, Recover, central, host,
      row, codex, late, At, Save, Close
<1>1. TypeOK' BY DEF States, Phases, RowShape, Holding
<1>2. RowShape' BY DEF RowShape, Holding, Phases
<1>3. LeaseOwned' BY DEF LeaseOwned, Attempts, Target
<1>4. RowOwnsLease' BY DEF RowOwnsLease, RowShape, Holding, LeaseOwned, Phases
<1>5. LateKnown' BY DEF LateKnown
<1>6. StartedOnce' BY DEF StartedOnce, NotStarted, RowShape, EvidenceIsReal, LeaseOwned
<1>7. EvidenceIsReal' BY DEF EvidenceIsReal, RowShape, StartedOnce
<1>8. NoStranding' BY DEF NoStranding, RowShape, LeaseOwned
<1> QED BY <1>1, <1>2, <1>3, <1>4, <1>5, <1>6, <1>7, <1>8

\* A receipt left in the network repeats what the journal holds.
LEMMA ReportGivenUpStep == ASSUME NEW h \in Hosts, IInv, ReportGivenUp(h) PROVE IInv'
<1> USE RelayAssumption DEF RelayAssumption, IInv, TypeOK, ReportGivenUp, central, host,
      row, codex, late, At, Save, Close
<1>1. TypeOK' BY DEF States, Phases, RowShape, Holding, Attempts, ClaimRequest, Receipt, ReceiptOf
<1>2. RowShape' BY DEF RowShape, Holding, Phases
<1>3. LeaseOwned' BY DEF LeaseOwned, Attempts, Target
<1>4. RowOwnsLease' BY DEF RowOwnsLease, RowShape, Holding, LeaseOwned, Phases
<1>5. LateKnown'
  <2> DEFINE q == ReceiptOf(h)
  <2>1. q.msg = held[h] /\ q.state = receipt[h]
    BY DEF ReceiptOf
  <2>2. \A r \in lateReceipts' : r \in lateReceipts \/ r = q
    OBVIOUS
  <2> QED BY <2>1, <2>2 DEF LateKnown, EvidenceIsReal
<1>6. StartedOnce' BY DEF StartedOnce, NotStarted, RowShape, EvidenceIsReal, LeaseOwned
<1>7. EvidenceIsReal' BY DEF EvidenceIsReal, RowShape, StartedOnce
<1>8. NoStranding' BY DEF NoStranding, RowShape, LeaseOwned
<1> QED BY <1>1, <1>2, <1>3, <1>4, <1>5, <1>6, <1>7, <1>8

\* A crash loses only the point Once had reached, never the journal.
LEMMA CrashStep == ASSUME NEW h \in Hosts, IInv, Crash(h) PROVE IInv'
<1> USE RelayAssumption DEF RelayAssumption, IInv, TypeOK, Crash, central, host,
      row, codex, late, At, Save, Close
<1>1. TypeOK' BY DEF States, Phases, RowShape, Holding
<1>2. RowShape' BY DEF RowShape, Holding, Phases
<1>3. LeaseOwned' BY DEF LeaseOwned, Attempts, Target
<1>4. RowOwnsLease' BY DEF RowOwnsLease, RowShape, Holding, LeaseOwned, Phases
<1>5. LateKnown' BY DEF LateKnown
<1>6. StartedOnce' BY DEF StartedOnce, NotStarted, RowShape, EvidenceIsReal, LeaseOwned
<1>7. EvidenceIsReal' BY DEF EvidenceIsReal, RowShape, StartedOnce
<1>8. NoStranding' BY DEF NoStranding, RowShape, LeaseOwned
<1> QED BY <1>1, <1>2, <1>3, <1>4, <1>5, <1>6, <1>7, <1>8

\* A new message has no attempt, row or receipt.
LEMMA SendStep == ASSUME NEW m \in Msgs, IInv, Send(m) PROVE IInv'
<1> USE RelayAssumption DEF RelayAssumption, IInv, TypeOK, Send, central, host,
      row, codex, late, At, Save, Close
<1>1. TypeOK' BY DEF States, Phases, RowShape, Holding
<1>2. RowShape' BY DEF RowShape, Holding, Phases
<1>3. LeaseOwned'
  <2>1. \A g \in Hosts, b \in Attempts : attempts[g][b] # m
    BY DEF LeaseOwned
  <2> QED BY <2>1 DEF LeaseOwned, Attempts, Target
<1>4. RowOwnsLease' BY DEF RowOwnsLease, RowShape, Holding, LeaseOwned, Phases
<1>5. LateKnown' BY DEF LateKnown
<1>6. StartedOnce' BY DEF StartedOnce, NotStarted, RowShape, EvidenceIsReal, LeaseOwned
<1>7. EvidenceIsReal' BY DEF EvidenceIsReal, RowShape, StartedOnce
<1>8. NoStranding' BY DEF NoStranding, RowShape, LeaseOwned
<1> QED BY <1>1, <1>2, <1>3, <1>4, <1>5, <1>6, <1>7, <1>8

\* An attested message was queued by Codex.
LEMMA AcknowledgeStep == ASSUME NEW m \in Msgs, IInv, Acknowledge(m) PROVE IInv'
<1> USE RelayAssumption DEF RelayAssumption, IInv, TypeOK, Acknowledge, central, host,
      row, codex, late, At, Save, Close
<1>1. TypeOK' BY DEF States, Phases, RowShape, Holding
<1>2. RowShape' BY DEF RowShape, Holding, Phases
<1>3. LeaseOwned' BY DEF LeaseOwned, Attempts, Target
<1>4. RowOwnsLease' BY DEF RowOwnsLease, RowShape, Holding, LeaseOwned, Phases
<1>5. LateKnown' BY DEF LateKnown
<1>6. StartedOnce' BY DEF StartedOnce, NotStarted, RowShape, EvidenceIsReal, LeaseOwned
<1>7. EvidenceIsReal'
  <2>1. accepted[m] <= started[m] /\ started[m] <= 1
    BY DEF StartedOnce
  <2>2. accepted[m] = 1
    BY <2>1, OneBelow
  <2> QED BY <2>2 DEF EvidenceIsReal
<1>8. NoStranding' BY DEF NoStranding, RowShape, LeaseOwned
<1> QED BY <1>1, <1>2, <1>3, <1>4, <1>5, <1>6, <1>7, <1>8

\* Completion follows acknowledgement.
LEMMA CompleteStep == ASSUME NEW m \in Msgs, IInv, Complete(m) PROVE IInv'
<1> USE RelayAssumption DEF RelayAssumption, IInv, TypeOK, Complete, central, host,
      row, codex, late, At, Save, Close
<1>1. TypeOK' BY DEF States, Phases, RowShape, Holding
<1>2. RowShape' BY DEF RowShape, Holding, Phases
<1>3. LeaseOwned' BY DEF LeaseOwned, Attempts, Target
<1>4. RowOwnsLease' BY DEF RowOwnsLease, RowShape, Holding, LeaseOwned, Phases
<1>5. LateKnown' BY DEF LateKnown
<1>6. StartedOnce' BY DEF StartedOnce, NotStarted, RowShape, EvidenceIsReal, LeaseOwned
<1>7. EvidenceIsReal' BY DEF EvidenceIsReal, RowShape, StartedOnce
<1>8. NoStranding' BY DEF NoStranding, RowShape, LeaseOwned
<1> QED BY <1>1, <1>2, <1>3, <1>4, <1>5, <1>6, <1>7, <1>8

\* Compaction removes a message together with its attempt and receipts.
LEMMA CompactStep == ASSUME NEW m \in Msgs, IInv, Compact(m) PROVE IInv'
<1> USE RelayAssumption DEF RelayAssumption, IInv, TypeOK, Compact, central, host,
      row, codex, late, At, Save, Close
<1>1. TypeOK' BY DEF States, Phases, RowShape, Holding
<1>2. RowShape' BY DEF RowShape, Holding, Phases
<1>3. LeaseOwned'
  <2>1. \A k \in Msgs : state'[k] = "dispatching" => state[k] = "dispatching" /\ k # m
    OBVIOUS
  <2>2. \A k \in Msgs : Target(k) \in Hosts
    BY DEF Target
  <2>3. \A k \in Msgs : state'[k] = "dispatching" =>
          attemptId'[k] # 0 /\ attempts'[Target(k)][attemptId'[k]] = k
    BY <2>1, <2>2 DEF LeaseOwned, Attempts
  <2>4. ASSUME NEW g \in Hosts, NEW b \in Attempts
        PROVE  /\ b > issued[g] => attempts'[g][b] = NoRow
               /\ attempts'[g][b] \in Msgs =>
                    LET k == attempts'[g][b] IN
                    /\ Target(k) = g /\ attemptId'[k] = b
                    /\ state'[k] \notin {"absent", "queued"}
    BY DEF LeaseOwned
  <2>5. issued' = issued
    OBVIOUS
  <2> HIDE DEF Compact
  <2> QED BY <2>3, <2>4, <2>5 DEF LeaseOwned, Target
<1>4. RowOwnsLease'
  BY DEF RowOwnsLease, RowShape, Attempts, Phases, Holding
<1>5. LateKnown'
  <2>1. ASSUME NEW r \in lateClaims'
        PROVE  /\ r.host \in Hosts /\ r.id \in Attempts /\ r \in lateClaims
               /\ attempts'[r.host][r.id] = attempts[r.host][r.id]
    BY <2>1 DEF ClaimRequest
  <2> QED BY <2>1 DEF LateKnown
<1>6. StartedOnce'
  <2>1. ASSUME NEW k \in Msgs, NotStarted(k)' PROVE NotStarted(k)
    <3>1. \A g \in Hosts : phase[g] = "claiming" /\ attempts'[g][issued[g]] = k
             => attempts[g][issued[g]] = k
      BY DEF RowShape, Attempts
    <3> QED BY <2>1, <3>1 DEF NotStarted
  <2> QED BY <2>1 DEF StartedOnce
<1>7. EvidenceIsReal' BY DEF EvidenceIsReal, RowShape, StartedOnce
<1>8. NoStranding' BY DEF NoStranding, RowShape, LeaseOwned
<1> QED BY <1>1, <1>2, <1>3, <1>4, <1>5, <1>6, <1>7, <1>8

\* A process that queues its prompt does so for the first time.
LEMMA AcceptStep == ASSUME NEW m \in Msgs, IInv, Accept(m) PROVE IInv'
<1> USE RelayAssumption DEF RelayAssumption, IInv, TypeOK, Accept, central, host,
      row, codex, late, At, Save, Close
<1>1. TypeOK' BY DEF States, Phases, RowShape, Holding
<1>2. RowShape' BY DEF RowShape, Holding, Phases
<1>3. LeaseOwned' BY DEF LeaseOwned, Attempts, Target
<1>4. RowOwnsLease' BY DEF RowOwnsLease, RowShape, Holding, LeaseOwned, Phases
<1>5. LateKnown'
  <2>1. accepted[m] < started[m] /\ started[m] <= 1
    BY DEF StartedOnce
  <2>2. accepted[m] = 0
    BY <2>1, NoneBelow
  <2> QED BY <2>2 DEF LateKnown, Receipt
<1>6. StartedOnce' BY DEF StartedOnce, NotStarted, RowShape, EvidenceIsReal, LeaseOwned
<1>7. EvidenceIsReal' BY DEF EvidenceIsReal, RowShape, StartedOnce
<1>8. NoStranding' BY DEF NoStranding, RowShape, LeaseOwned
<1> QED BY <1>1, <1>2, <1>3, <1>4, <1>5, <1>6, <1>7, <1>8

\* Central enrollment touches no lease.
LEMMA SetCentralStep == ASSUME NEW t \in Tasks, NEW on \in BOOLEAN, IInv, SetCentral(t, on) PROVE IInv'
<1> USE RelayAssumption DEF RelayAssumption, IInv, TypeOK, SetCentral, central, host,
      row, codex, late, At, Save, Close
<1>1. TypeOK' BY DEF States, Phases, RowShape, Holding
<1>2. RowShape' BY DEF RowShape, Holding, Phases
<1>3. LeaseOwned' BY DEF LeaseOwned, Attempts, Target
<1>4. RowOwnsLease' BY DEF RowOwnsLease, RowShape, Holding, LeaseOwned, Phases
<1>5. LateKnown' BY DEF LateKnown
<1>6. StartedOnce' BY DEF StartedOnce, NotStarted, RowShape, EvidenceIsReal, LeaseOwned
<1>7. EvidenceIsReal' BY DEF EvidenceIsReal, RowShape, StartedOnce
<1>8. NoStranding' BY DEF NoStranding, RowShape, LeaseOwned
<1> QED BY <1>1, <1>2, <1>3, <1>4, <1>5, <1>6, <1>7, <1>8

\* Local enrollment touches no lease.
LEMMA SetLocalStep == ASSUME NEW t \in Tasks, NEW on \in BOOLEAN, IInv, SetLocal(t, on) PROVE IInv'
<1> USE RelayAssumption DEF RelayAssumption, IInv, TypeOK, SetLocal, central, host,
      row, codex, late, At, Save, Close
<1>1. TypeOK' BY DEF States, Phases, RowShape, Holding
<1>2. RowShape' BY DEF RowShape, Holding, Phases
<1>3. LeaseOwned' BY DEF LeaseOwned, Attempts, Target
<1>4. RowOwnsLease' BY DEF RowOwnsLease, RowShape, Holding, LeaseOwned, Phases
<1>5. LateKnown' BY DEF LateKnown
<1>6. StartedOnce' BY DEF StartedOnce, NotStarted, RowShape, EvidenceIsReal, LeaseOwned
<1>7. EvidenceIsReal' BY DEF EvidenceIsReal, RowShape, StartedOnce
<1>8. NoStranding' BY DEF NoStranding, RowShape, LeaseOwned
<1> QED BY <1>1, <1>2, <1>3, <1>4, <1>5, <1>6, <1>7, <1>8

\* An empty attempt leases nothing.
LEMMA CompactEmptyStep == ASSUME NEW h \in Hosts, NEW a \in Attempts, IInv, CompactEmpty(h, a) PROVE IInv'
<1> USE RelayAssumption DEF RelayAssumption, IInv, TypeOK, CompactEmpty, central, host,
      row, codex, late, At, Save, Close
<1>1. TypeOK' BY DEF States, Phases, RowShape, Holding
<1>2. RowShape' BY DEF RowShape, Holding, Phases
<1>3. LeaseOwned' BY DEF LeaseOwned, Attempts, Target
<1>4. RowOwnsLease' BY DEF RowOwnsLease, RowShape, Holding, LeaseOwned, Phases
<1>5. LateKnown'
  <2>1. ASSUME NEW r \in lateClaims'
        PROVE  /\ r.host \in Hosts /\ r.id \in Attempts /\ r \in lateClaims
               /\ attempts'[r.host][r.id] = attempts[r.host][r.id]
    <3>1. r = [host |-> r.host, id |-> r.id] /\ r.host \in Hosts
          /\ r.id \in Attempts
      BY <2>1 DEF ClaimRequest
    <3> QED BY <3>1
  <2> QED BY <2>1 DEF LateKnown
<1>6. StartedOnce' BY DEF StartedOnce, NotStarted, RowShape, EvidenceIsReal, LeaseOwned
<1>7. EvidenceIsReal' BY DEF EvidenceIsReal, RowShape, StartedOnce
<1>8. NoStranding' BY DEF NoStranding, RowShape, LeaseOwned
<1> QED BY <1>1, <1>2, <1>3, <1>4, <1>5, <1>6, <1>7, <1>8

-----------------------------------------------------------------------------
(* The steps that go through the coordinator.                              *)

\* The three things POST /v1/claim can do: replay an attempt, record that
\* nothing was eligible, or lease a queued message of that host.
LEMMA LeaseCases ==
  ASSUME NEW h \in Hosts, NEW a \in Attempts, CoordinatorClaim(h, a)
  PROVE  /\ UNCHANGED <<enabled, created, receipts, clock>>
         /\ \/ attempts[h][a] # NoRow /\ UNCHANGED <<attempts, state, attemptId>>
            \/ /\ attempts[h][a] = NoRow
               /\ attempts' = [attempts EXCEPT ![h][a] = NoMsg]
               /\ UNCHANGED <<state, attemptId>>
            \/ \E m \in Msgs :
                 /\ attempts[h][a] = NoRow
                 /\ Target(m) = h /\ state[m] = "queued"
                 /\ attempts' = [attempts EXCEPT ![h][a] = m]
                 /\ state' = [state EXCEPT ![m] = "dispatching"]
                 /\ attemptId' = [attemptId EXCEPT ![m] = a]
BY DEF CoordinatorClaim, NewLease, Oldest, Eligible

\* What remains true of the host's row when an attempt of it is recorded at
\* the coordinator, before (or without) the host hearing of it.
LEMMA LeaseKeepsInv ==
  ASSUME IInv, NEW h \in Hosts, NEW a \in Attempts,
         \/ attempts[h][a] # NoRow
         \/ phase[h] = "claiming" /\ issued[h] = a,
         CoordinatorClaim(h, a), UNCHANGED <<host, codex, late, compacted>>
  PROVE  IInv'
<1> USE RelayAssumption DEF RelayAssumption, IInv, TypeOK, host, row, codex, late
<1> DEFINE Lease(m) ==
      /\ Target(m) = h /\ state[m] = "queued"
      /\ attempts' = [attempts EXCEPT ![h][a] = m]
      /\ state' = [state EXCEPT ![m] = "dispatching"]
      /\ attemptId' = [attemptId EXCEPT ![m] = a]
<1>1. UNCHANGED <<enabled, created, receipts, clock>>
  BY LeaseCases
<1>2. CASE UNCHANGED <<attempts, state, attemptId>>
  <2>1. UNCHANGED vars
    BY <1>1, <1>2 DEF vars, central
  <2> QED BY <2>1 DEF vars, central, RowShape, LeaseOwned, RowOwnsLease,
             LateKnown, StartedOnce, NotStarted, EvidenceIsReal, NoStranding
<1>3. CASE /\ attempts[h][a] = NoRow
           /\ attempts' = [attempts EXCEPT ![h][a] = NoMsg]
           /\ UNCHANGED <<state, attemptId>>
  <2>1. TypeOK' BY <1>1, <1>3
  <2>2. RowShape' BY DEF RowShape
  <2>3. LeaseOwned' BY <1>3 DEF LeaseOwned, Attempts, Target
  <2>4. RowOwnsLease' BY <1>3 DEF RowOwnsLease, Holding
  <2>5. LateKnown'
    <3>1. \A r \in lateClaims : r.host \in Hosts /\ r.id \in Attempts
      BY DEF ClaimRequest
    <3> QED BY <1>3, <3>1 DEF LateKnown
  <2>6. StartedOnce'
    <3>1. ASSUME NEW m \in Msgs PROVE NotStarted(m)' => NotStarted(m)
      BY <1>3 DEF NotStarted, Attempts
    <3> QED BY <3>1 DEF StartedOnce
  <2>7. EvidenceIsReal' BY <1>1, <1>3 DEF EvidenceIsReal
  <2>8. NoStranding' BY <1>3 DEF NoStranding
  <2> QED BY <2>1, <2>2, <2>3, <2>4, <2>5, <2>6, <2>7, <2>8
<1>4. ASSUME attempts[h][a] = NoRow, NEW m \in Msgs, Lease(m) PROVE IInv'
  <2>0. phase[h] = "claiming" /\ issued[h] = a
    BY <1>4
  <2>1. TypeOK' BY <1>1, <1>4 DEF States, Attempts
  <2>2. RowShape' BY DEF RowShape
  <2>3. LeaseOwned'
    <3>1. \A g \in Hosts, b \in Attempts : attempts[g][b] # m
      BY <1>4 DEF LeaseOwned
    <3>2. \A k \in Msgs : state'[k] = "dispatching" =>
             attemptId'[k] # 0 /\ attempts'[Target(k)][attemptId'[k]] = k
      BY <1>4, <2>0, <3>1 DEF LeaseOwned, Attempts, Target
    <3>3. ASSUME NEW g \in Hosts, NEW b \in Attempts
          PROVE  /\ b > issued[g] => attempts'[g][b] = NoRow
                 /\ attempts'[g][b] \in Msgs =>
                      LET k == attempts'[g][b] IN
                      /\ Target(k) = g /\ attemptId'[k] = b
                      /\ state'[k] \notin {"absent", "queued"}
      <4>1. CASE g = h /\ b = a
        BY <1>4, <2>0, <4>1
      <4>2. CASE ~(g = h /\ b = a)
        <5>1. attempts'[g][b] = attempts[g][b] /\ attempts[g][b] # m
          BY <1>4, <3>1, <4>2
        <5>2. \A k \in Msgs : k # m => state'[k] = state[k] /\ attemptId'[k] = attemptId[k]
          BY <1>4
        <5> QED BY <5>1, <5>2 DEF LeaseOwned
      <4> QED BY <4>1, <4>2
    <3> QED BY <3>2, <3>3 DEF LeaseOwned, Target
  <2>4. RowOwnsLease' BY <1>4, <2>0 DEF RowOwnsLease, Holding
  <2>5. LateKnown'
    <3>1. \A r \in lateClaims : r.host \in Hosts /\ r.id \in Attempts
      BY DEF ClaimRequest
    <3> QED BY <1>4, <3>1 DEF LateKnown
  <2>6. StartedOnce'
    <3>1. started[m] = 0
      BY <1>4 DEF StartedOnce, NotStarted
    <3>2. ASSUME NEW k \in Msgs, k # m PROVE NotStarted(k)' => NotStarted(k)
      BY <1>4, <3>2 DEF NotStarted, Attempts
    <3> QED BY <3>1, <3>2 DEF StartedOnce
  <2>7. EvidenceIsReal'
    <3>1. m \notin compacted /\ \A r \in receipts : r.msg # m /\ r.msg \in Msgs
      BY <1>4 DEF EvidenceIsReal, Receipt
    <3> QED BY <1>1, <1>4, <3>1 DEF EvidenceIsReal
  <2>8. NoStranding' BY <1>4, <2>0 DEF NoStranding, Target
  <2> QED BY <2>1, <2>2, <2>3, <2>4, <2>5, <2>6, <2>7, <2>8
<1> HIDE DEF IInv
<1> QED BY <1>2, <1>3, <1>4, LeaseCases

\* A late claim replays its attempt or leases for the row still waiting.
LEMMA LateClaimStep == ASSUME NEW r \in lateClaims, IInv, LateClaim(r) PROVE IInv'
<1>1. /\ r.host \in Hosts /\ r.id \in Attempts
      /\ \/ attempts[r.host][r.id] # NoRow
         \/ phase[r.host] = "claiming" /\ issued[r.host] = r.id
  BY DEF IInv, TypeOK, ClaimRequest, LateKnown
<1> QED BY <1>1, LeaseKeepsInv DEF LateClaim

\* A claim that is answered is the coordinator's step, as if its answer were
\* lost, followed by the host's own write of its row.
LEMMA ClaimStep == ASSUME NEW h \in Hosts, IInv, Claim(h) PROVE IInv'
<1> USE RelayAssumption DEF RelayAssumption, IInv, TypeOK, host, row, codex,
        late, At, Save, Close
<1> DEFINE a == issued[h]
           n == attempts'[h][a]
<1>0. /\ pc[h] = "idle" /\ phase[h] = "claiming" /\ a \in Attempts
      /\ CoordinatorClaim(h, a)
      /\ UNCHANGED <<local, issued, pc, codex, late, compacted>>
  BY DEF Claim, RowShape, Attempts
<1>1. UNCHANGED <<enabled, created, receipts, clock>>
  BY <1>0, LeaseCases
<1> HIDE DEF Claim
<1>2. ASSUME n = NoMsg, Close(h) PROVE IInv'
  <2>1. /\ UNCHANGED <<state, attemptId>> /\ attempts[h][a] \in {NoRow, NoMsg}
        /\ attempts' = [attempts EXCEPT ![h][a] = NoMsg]
    BY <1>0, <1>2, LeaseCases
  <2> HIDE DEF n
  <2>2. \A k \in Msgs : state[k] = "dispatching" => Target(k) # h
    BY <1>0, <2>1 DEF LeaseOwned, NoStranding
  <2>3. /\ phase' = [phase EXCEPT ![h] = "done"]
        /\ held' = [held EXCEPT ![h] = NoMsg]
        /\ receipt' = [receipt EXCEPT ![h] = "none"]
    BY <1>2
  <2>a. TypeOK'
    <3>1. phase' \in [Hosts -> Phases]
      BY <2>3 DEF Phases
    <3>2. /\ held' \in [Hosts -> Msgs \cup {NoMsg}]
          /\ receipt' \in [Hosts -> {"none", "submitted", "uncertain"}]
      BY <2>3
    <3> QED BY <1>0, <1>1, <2>1, <3>1, <3>2
  <2>b. RowShape' BY <1>0, <2>3 DEF RowShape, Holding
  <2>c. LeaseOwned' BY <1>0, <2>1 DEF LeaseOwned, Attempts, Target
  <2>d. RowOwnsLease' BY <1>0, <2>1, <2>3 DEF RowOwnsLease, Holding
  <2>e. LateKnown'
    <3>1. \A r \in lateClaims : r.host \in Hosts /\ r.id \in Attempts
      BY DEF ClaimRequest
    <3> QED BY <1>0, <2>1, <2>3, <3>1 DEF LateKnown
  <2>f. StartedOnce'
    <3>1. ASSUME NEW k \in Msgs PROVE NotStarted(k)' => NotStarted(k)
      BY <1>0, <2>1, <2>3 DEF NotStarted
    <3>2. \A g \in Hosts : pc[g] = "running" => held'[g] = held[g]
      BY <1>0, <2>3
    <3> QED BY <1>0, <3>1, <3>2 DEF StartedOnce
  <2>g. EvidenceIsReal' BY <1>0, <1>1, <2>1, <2>3 DEF EvidenceIsReal
  <2>h. NoStranding' BY <1>0, <2>1, <2>2, <2>3 DEF NoStranding, Target
  <2> QED BY <2>a, <2>b, <2>c, <2>d, <2>e, <2>f, <2>g, <2>h
<1>3. ASSUME n \in Msgs, Target(n) = h, Save(h, "ready", n, "none") PROVE IInv'
  <2> DEFINE Leased(k) ==
        /\ \/ state[k] = "queued" /\ attempts[h][a] = NoRow
           \/ state[k] # "queued" /\ attempts[h][a] = k
        /\ state' = [state EXCEPT ![k] = IF @ = "queued" THEN "dispatching" ELSE @]
        /\ attempts' = [attempts EXCEPT ![h][a] = k]
        /\ attemptId' = [attemptId EXCEPT ![k] = a]
  <2>1. Leased(n)
    <3>1. CASE attempts[h][a] # NoRow /\ UNCHANGED <<attempts, state, attemptId>>
      <4>1. attempts[h][a] = n /\ attemptId[n] = a /\ state[n] # "queued"
        BY <1>0, <1>3, <3>1 DEF LeaseOwned
      <4> QED BY <1>0, <1>3, <3>1, <4>1
    <3>2. ASSUME attempts[h][a] = NoRow, NEW m \in Msgs, state[m] = "queued",
                 attempts' = [attempts EXCEPT ![h][a] = m],
                 state' = [state EXCEPT ![m] = "dispatching"],
                 attemptId' = [attemptId EXCEPT ![m] = a]
          PROVE  Leased(n)
      BY <1>0, <3>2
    <3> QED BY <1>0, <1>3, <3>1, <3>2, LeaseCases
  <2> HIDE DEF n
  <2>3. /\ phase' = [phase EXCEPT ![h] = "ready"]
        /\ held' = [held EXCEPT ![h] = n]
        /\ receipt' = [receipt EXCEPT ![h] = "none"]
    BY <1>3
  <2>a. TypeOK'
    <3>1. phase' \in [Hosts -> Phases]
      BY <2>3 DEF Phases
    <3>2. /\ held' \in [Hosts -> Msgs \cup {NoMsg}]
          /\ receipt' \in [Hosts -> {"none", "submitted", "uncertain"}]
      BY <1>3, <2>3
    <3>3. state' \in [Msgs -> States] /\ attemptId' \in [Msgs -> 0 .. MaxAttempts]
      BY <1>0, <1>3, <2>1 DEF States, Attempts
    <3>4. attempts' \in [Hosts -> [Attempts -> Msgs \cup {NoMsg, NoRow}]]
      BY <1>0, <1>3, <2>1
    <3> QED BY <1>0, <1>1, <3>1, <3>2, <3>3, <3>4
  <2>b. RowShape' BY <1>0, <1>3, <2>3 DEF RowShape, Holding
  <2>c. LeaseOwned'
    <3>1. \A g \in Hosts, b \in Attempts :
            attempts[g][b] = n => g = h /\ b = a
      BY <1>0, <1>3, <2>1 DEF LeaseOwned
    <3>2. \A k \in Msgs : state'[k] = "dispatching" =>
             attemptId'[k] # 0 /\ attempts'[Target(k)][attemptId'[k]] = k
      BY <1>0, <1>3, <2>1, <3>1 DEF LeaseOwned, Attempts, Target
    <3>3. ASSUME NEW g \in Hosts, NEW b \in Attempts
          PROVE  /\ b > issued[g] => attempts'[g][b] = NoRow
                 /\ attempts'[g][b] \in Msgs =>
                      LET k == attempts'[g][b] IN
                      /\ Target(k) = g /\ attemptId'[k] = b
                      /\ state'[k] \notin {"absent", "queued"}
      <4>1. CASE g = h /\ b = a
        BY <1>0, <1>3, <2>1, <4>1 DEF LeaseOwned, Attempts
      <4>2. CASE ~(g = h /\ b = a)
        <5>1. attempts'[g][b] = attempts[g][b] /\ attempts[g][b] # n
          BY <1>0, <2>1, <3>1, <4>2
        <5> QED BY <5>1, <2>1 DEF LeaseOwned
      <4> QED BY <4>1, <4>2
    <3> QED BY <1>0, <3>2, <3>3 DEF LeaseOwned, Target
  <2>d. RowOwnsLease' BY <1>0, <1>3, <2>1, <2>3 DEF RowOwnsLease, Holding
  <2>e. LateKnown'
    <3>1. \A r \in lateClaims : r.host \in Hosts /\ r.id \in Attempts
      BY DEF ClaimRequest
    <3> QED BY <1>0, <1>3, <2>1, <2>3, <3>1 DEF LateKnown
  <2>f. StartedOnce'
    <3>0. started[n] = 0
      BY <1>0, <1>3, <2>1 DEF StartedOnce, NotStarted
    <3>1. ASSUME NEW k \in Msgs, k # n PROVE NotStarted(k)' => NotStarted(k)
      BY <1>0, <2>1, <2>3, <3>1 DEF NotStarted
    <3>2. \A g \in Hosts : pc[g] = "running" => held'[g] = held[g]
      BY <1>0, <2>3
    <3> QED BY <1>0, <3>0, <3>1, <3>2 DEF StartedOnce
  <2>g. EvidenceIsReal'
    <3>1. \A r \in receipts : r.msg \in Msgs
      BY DEF Receipt
    <3> QED BY <1>0, <1>1, <1>3, <2>1, <2>3, <3>1 DEF EvidenceIsReal
  <2>h. NoStranding'
    <3>1. \A k \in Msgs : state'[k] = "dispatching" /\ Target(k) = h => k = n
      BY <1>0, <1>3, <2>1 DEF NoStranding, LeaseOwned
    <3> QED BY <1>0, <1>3, <2>1, <2>3, <3>1 DEF NoStranding, Target
  <2> QED BY <2>a, <2>b, <2>c, <2>d, <2>e, <2>f, <2>g, <2>h
<1> HIDE DEF IInv, Save, Close
<1> QED BY <1>2, <1>3 DEF Claim

\* What POST /v1/receipts leaves behind, replayed or not: the message is no
\* longer dispatching, and nothing but its state and the receipts changed.
LEMMA ReceiptEffect ==
  ASSUME IInv, NEW r \in Receipt, CoordinatorReceipt(r)
  PROVE  /\ UNCHANGED <<enabled, created, attemptId, attempts, clock>>
         /\ state'[r.msg] \notin {"absent", "queued", "dispatching"}
         /\ state' = state \/ /\ state[r.msg] = "dispatching"
                              /\ state' = [state EXCEPT ![r.msg] = r.state]
         /\ receipts' \subseteq receipts \cup {r}
<1>1. CASE r \in receipts /\ UNCHANGED <<receipts, state>>
  BY <1>1 DEF CoordinatorReceipt, IInv, EvidenceIsReal
<1>2. CASE /\ state[r.msg] = "dispatching" /\ receipts' = receipts \cup {r}
           /\ state' = [state EXCEPT ![r.msg] = r.state]
  BY <1>2 DEF CoordinatorReceipt, IInv, TypeOK, Receipt
<1> QED BY <1>1, <1>2 DEF CoordinatorReceipt

\* The part of the invariant about the coordinator after a receipt, from a
\* host that journalled it or from the network.
LEMMA ReceiptKeepsTables ==
  ASSUME IInv, NEW r \in Receipt, CoordinatorReceipt(r),
         r.state = "submitted" => accepted[r.msg] = 1,
         UNCHANGED <<issued, pc, codex, late, compacted>>
  PROVE  /\ state' \in [Msgs -> States] /\ receipts' \subseteq Receipt
         /\ LeaseOwned'
         /\ \A m \in Msgs : state'[m] \in {"submitted", "acknowledged", "completed"}
                              => accepted[m] = 1
         /\ \A m \in compacted : state'[m] = "absent"
         /\ \A q \in receipts' :
              state'[q.msg] \notin {"absent", "queued", "dispatching"}
         /\ \A m \in Msgs : /\ state'[m] \in {"absent", "queued"} <=>
                               state[m] \in {"absent", "queued"}
                            /\ state'[m] = "queued" => state[m] = "queued"
                            /\ state'[m] = "dispatching" => state[m] = "dispatching"
<1> USE ReceiptEffect DEF IInv, TypeOK, codex, late
<1>1. r.msg \in Msgs /\ r.state \in {"submitted", "uncertain"}
  BY DEF Receipt
<1>2. state' \in [Msgs -> States] /\ receipts' \subseteq Receipt
  BY <1>1 DEF States
<1>3. \A m \in Msgs : m # r.msg => state'[m] = state[m]
  BY <1>1
<1>4. \A m \in Msgs : /\ state'[m] \in {"absent", "queued"} <=>
                         state[m] \in {"absent", "queued"}
                      /\ state'[m] = "queued" => state[m] = "queued"
                      /\ state'[m] = "dispatching" => state[m] = "dispatching"
  BY <1>1, <1>3
<1>5. LeaseOwned'
  <2>1. UNCHANGED <<attempts, attemptId, issued>>
    OBVIOUS
  <2> HIDE ReceiptEffect
  <2> QED BY <1>4, <2>1 DEF LeaseOwned, Target
<1>6. \A m \in Msgs : state'[m] \in {"submitted", "acknowledged", "completed"}
                        => accepted[m] = 1
  BY <1>1, <1>3 DEF EvidenceIsReal
<1>7. \A m \in compacted : state'[m] = "absent"
  BY <1>1, <1>3 DEF EvidenceIsReal
<1>8. \A q \in receipts' :
        state'[q.msg] \notin {"absent", "queued", "dispatching"}
  <2>1. \A q \in receipts : q.msg \in Msgs
    BY DEF Receipt
  <2> QED BY <2>1, <1>3 DEF EvidenceIsReal
<1> QED BY <1>2, <1>4, <1>5, <1>6, <1>7, <1>8

\* A late receipt settles its message and leaves every journal alone.
LEMMA LateReceiptStep ==
  ASSUME NEW r \in lateReceipts, IInv, LateReceipt(r) PROVE IInv'
<1>1. r \in Receipt /\ (r.state = "submitted" => accepted[r.msg] = 1)
  BY DEF IInv, TypeOK, LateKnown
<1>2. CoordinatorReceipt(r) /\ UNCHANGED <<host, codex, late, compacted>>
  BY DEF LateReceipt
<1> USE DEF host, row, codex, late
<1>3. UNCHANGED <<enabled, created, attemptId, attempts, clock>>
  BY <1>1, <1>2, ReceiptEffect
<1>4. /\ state' \in [Msgs -> States] /\ receipts' \subseteq Receipt
      /\ LeaseOwned'
      /\ \A m \in Msgs : state'[m] \in {"submitted", "acknowledged", "completed"}
                           => accepted[m] = 1
      /\ \A m \in compacted : state'[m] = "absent"
      /\ \A q \in receipts' :
           state'[q.msg] \notin {"absent", "queued", "dispatching"}
      /\ \A m \in Msgs : /\ state'[m] \in {"absent", "queued"} <=>
                            state[m] \in {"absent", "queued"}
                         /\ state'[m] = "queued" => state[m] = "queued"
                         /\ state'[m] = "dispatching" => state[m] = "dispatching"
  BY <1>1, <1>2, ReceiptKeepsTables
<1>5. TypeOK' BY <1>2, <1>3, <1>4 DEF IInv, TypeOK
<1>6. RowShape' /\ RowOwnsLease' /\ LateKnown'
  BY <1>2, <1>3 DEF IInv, RowShape, RowOwnsLease, LateKnown
<1>7. StartedOnce'
  BY <1>2, <1>3, <1>4 DEF IInv, TypeOK, StartedOnce, NotStarted
<1>8. EvidenceIsReal' BY <1>2, <1>4 DEF IInv, EvidenceIsReal
<1>9. NoStranding' BY <1>2, <1>3, <1>4 DEF IInv, NoStranding, Target
<1> QED BY <1>4, <1>5, <1>6, <1>7, <1>8, <1>9 DEF IInv

\* A reported row is closed, and its message is no longer dispatching.
LEMMA ReportStep == ASSUME NEW h \in Hosts, IInv, Report(h) PROVE IInv'
<1> DEFINE r == ReceiptOf(h)
<1> USE RelayAssumption DEF RelayAssumption, host, row, codex, late
<1>0. /\ pc[h] = "idle" /\ phase[h] = "reporting" /\ CoordinatorReceipt(r)
      /\ phase' = [phase EXCEPT ![h] = "done"]
      /\ held' = [held EXCEPT ![h] = NoMsg]
      /\ receipt' = [receipt EXCEPT ![h] = "none"]
      /\ UNCHANGED <<local, issued, pc, codex, late, compacted>>
  BY DEF Report, At, Close, Save
<1>1. /\ r \in Receipt /\ r.msg = held[h] /\ held[h] \in Msgs
      /\ r.state = "submitted" => accepted[r.msg] = 1
  BY <1>0 DEF IInv, TypeOK, RowShape, Holding, Receipt, ReceiptOf, Attempts,
              EvidenceIsReal
<1> HIDE DEF r
<1>3. /\ UNCHANGED <<enabled, created, attemptId, attempts, clock>>
      /\ state'[held[h]] # "dispatching"
  BY <1>0, <1>1, ReceiptEffect
<1>4. /\ state' \in [Msgs -> States] /\ receipts' \subseteq Receipt
      /\ LeaseOwned'
      /\ \A m \in Msgs : state'[m] \in {"submitted", "acknowledged", "completed"}
                           => accepted[m] = 1
      /\ \A m \in compacted : state'[m] = "absent"
      /\ \A q \in receipts' :
           state'[q.msg] \notin {"absent", "queued", "dispatching"}
      /\ \A m \in Msgs : /\ state'[m] \in {"absent", "queued"} <=>
                            state[m] \in {"absent", "queued"}
                         /\ state'[m] = "queued" => state[m] = "queued"
                         /\ state'[m] = "dispatching" => state[m] = "dispatching"
  BY <1>0, <1>1, ReceiptKeepsTables
<1>5. TypeOK'
  <2>1. phase' \in [Hosts -> Phases]
    BY <1>0 DEF IInv, TypeOK, Phases
  <2>2. /\ held' \in [Hosts -> Msgs \cup {NoMsg}]
        /\ receipt' \in [Hosts -> {"none", "submitted", "uncertain"}]
    BY <1>0 DEF IInv, TypeOK
  <2> QED BY <1>0, <1>3, <1>4, <2>1, <2>2 DEF IInv, TypeOK
<1>6. RowShape' BY <1>0 DEF IInv, TypeOK, RowShape, Holding
<1>7. RowOwnsLease' BY <1>0, <1>3 DEF IInv, TypeOK, RowOwnsLease, Holding
<1>8. LateKnown'
  <2>1. \A q \in lateClaims : q.host \in Hosts
    BY DEF IInv, TypeOK, ClaimRequest
  <2> QED BY <1>0, <1>3, <2>1 DEF IInv, TypeOK, LateKnown
<1>9. StartedOnce'
  <2>1. ASSUME NEW m \in Msgs PROVE NotStarted(m)' => NotStarted(m)
    BY <1>0, <1>3, <1>4 DEF IInv, TypeOK, NotStarted
  <2>2. \A g \in Hosts : pc[g] = "running" => held'[g] = held[g]
    BY <1>0 DEF IInv, TypeOK
  <2> QED BY <1>0, <2>1, <2>2 DEF IInv, StartedOnce
<1>10. EvidenceIsReal' BY <1>0, <1>4 DEF IInv, TypeOK, EvidenceIsReal
<1>11. NoStranding'
  <2>1. \A m \in Msgs : state'[m] = "dispatching" => Target(m) \in Hosts \ {h}
    <3>1. \A m \in Msgs : Target(m) \in Hosts
      BY DEF Target
    <3>2. \A m \in Msgs : state[m] = "dispatching" /\ Target(m) = h => m = held[h]
      BY <1>0 DEF IInv, NoStranding
    <3> QED BY <1>3, <1>4, <3>1, <3>2
  <2> QED BY <1>0, <1>3, <1>4, <2>1 DEF IInv, TypeOK, NoStranding, Target
<1> QED BY <1>4, <1>5, <1>6, <1>7, <1>8, <1>9, <1>10, <1>11 DEF IInv

-----------------------------------------------------------------------------
(* The invariant and what follows from it.                                 *)

\* Nothing has happened yet: every table and journal is empty.
LEMMA InitInv == Init => IInv
<1> SUFFICES ASSUME Init PROVE IInv
  OBVIOUS
<1> USE RelayAssumption DEF RelayAssumption, Init
<1>1. TypeOK BY DEF TypeOK, States, Phases
<1>2. RowShape /\ RowOwnsLease BY DEF RowShape, RowOwnsLease, Holding
<1>3. LeaseOwned BY DEF LeaseOwned
<1>4. LateKnown /\ NoStranding BY DEF LateKnown, NoStranding
<1>5. StartedOnce BY DEF StartedOnce
<1>6. EvidenceIsReal BY DEF EvidenceIsReal
<1> QED BY <1>1, <1>2, <1>3, <1>4, <1>5, <1>6 DEF IInv

\* Every step of the relay, of a host, of the network or of Codex, and every
\* stuttering step keeps the invariant.
LEMMA NextInv == IInv /\ [Next]_vars => IInv'
<1> SUFFICES ASSUME IInv, [Next]_vars PROVE IInv'
  OBVIOUS
<1>1. ASSUME NEW h \in Hosts, HostStep(h) PROVE IInv'
  BY <1>1, OpenStep, ClaimStep, ClaimGivenUpStep, InspectStep, DecideStep,
     StartSubmitStep, SubmitReturnsStep, RecoverStep, ReportStep,
     ReportGivenUpStep, CrashStep DEF HostStep
<1>2. ASSUME NEW m \in Msgs, MessageStep(m) PROVE IInv'
  BY <1>2, SendStep, AcknowledgeStep, CompleteStep, CompactStep, AcceptStep
     DEF MessageStep
<1>3. ASSUME NEW t \in Tasks, NEW on \in BOOLEAN,
             SetCentral(t, on) \/ SetLocal(t, on)
      PROVE  IInv'
  BY <1>3, SetCentralStep, SetLocalStep
<1>4. ASSUME NEW h \in Hosts, NEW a \in Attempts, CompactEmpty(h, a) PROVE IInv'
  BY <1>4, CompactEmptyStep
<1>5. ASSUME NEW r \in lateClaims, LateClaim(r) PROVE IInv'
  BY <1>5, LateClaimStep
<1>6. ASSUME NEW r \in lateReceipts, LateReceipt(r) PROVE IInv'
  BY <1>6, LateReceiptStep
<1>7. CASE UNCHANGED vars
  BY <1>7 DEF vars, central, host, row, codex, late, IInv, TypeOK, RowShape,
     LeaseOwned, RowOwnsLease, LateKnown, StartedOnce, NotStarted,
     EvidenceIsReal, NoStranding
<1> QED BY <1>1, <1>2, <1>3, <1>4, <1>5, <1>6, <1>7 DEF Next

\* The inductive invariant holds of every relay, whatever the hosts, tasks,
\* messages, quotas, crashes, lost answers and late requests.
THEOREM Invariance == Spec => []IInv
BY InitInv, NextInv, PTL DEF Spec

\* Type correctness: every table, journal row and request in flight keeps its
\* type.
THEOREM Typing == Spec => []TypeOK
<1>1. IInv => TypeOK
  BY DEF IInv
<1> QED BY <1>1, Invariance, PTL

\* At-most-once delivery: Codex queues no message twice, although a receiver
\* may crash after its `codex queue` process started (Runner.Once).
THEOREM Delivery == Spec => []AtMostOnce
<1>1. IInv => AtMostOnce
  <2>1. ASSUME IInv, NEW m \in Msgs PROVE accepted[m] <= 1
    <3>1. accepted[m] \in Nat /\ started[m] \in Nat
      BY <2>1 DEF IInv, TypeOK
    <3>2. accepted[m] <= started[m] /\ started[m] <= 1
      BY <2>1 DEF IInv, StartedOnce
    <3> QED BY <3>1, <3>2
  <2> QED BY <2>1 DEF AtMostOnce
<1> QED BY <1>1, Invariance, PTL

\* A dispatching message is always backed by an open journal row of its host
\* for that very attempt.
THEOREM LeaseIsJournalled == Spec => []NoStranding
<1>1. IInv => NoStranding
  BY DEF IInv
<1> QED BY <1>1, Invariance, PTL

-----------------------------------------------------------------------------
(* Local revocation.                                                       *)

\* Between the enrollment check and the start of the process the task stays
\* enrolled: the journal lock keeps Journal.Enroll out.
Permitted ==
  \A h \in Hosts : pc[h] = "dispatch" => local[Task[held[h]]]

\* The message about to be submitted belongs to the host that holds it, so
\* the lock that guards its enrollment is that host's.
LEMMA HeldIsMine ==
  ASSUME IInv, NEW h \in Hosts, pc[h] = "dispatch"
  PROVE  held[h] \in Msgs /\ Target(held[h]) = h
<1> USE DEF IInv
<1>1. held[h] \in Msgs /\ phase[h] \in Holding /\ issued[h] \in Attempts
  BY DEF RowShape, TypeOK, Holding, Attempts
<1>2. started[held[h]] = 0
  BY <1>1 DEF StartedOnce, NotStarted
<1>3. held[h] \notin compacted
  <2>1. /\ accepted[held[h]] \in Nat /\ started[held[h]] \in Nat
        /\ accepted[held[h]] <= started[held[h]]
    BY <1>1 DEF TypeOK, StartedOnce
  <2>2. accepted[held[h]] # 1
    BY <1>2, <2>1
  <2> QED BY <2>2 DEF EvidenceIsReal
<1> QED BY <1>1, <1>3 DEF RowOwnsLease, LeaseOwned

\* Only Decide reaches "dispatch", and it has just read the enrollment; no
\* other step changes the row, and no enrollment write happens meanwhile.
LEMMA PermittedStep == IInv /\ Permitted /\ [Next]_vars => Permitted'
<1> SUFFICES ASSUME IInv, Permitted, [Next]_vars, NEW g \in Hosts,
                    pc'[g] = "dispatch"
             PROVE  (local[Task[held[g]]])'
  BY DEF Permitted
<1> USE DEF IInv, TypeOK, host, row
<1>1. ASSUME NEW h \in Hosts, HostStep(h) PROVE (local[Task[held[g]]])'
  <2>1. local' = local
    BY <1>1 DEF HostStep, Open, Claim, ClaimGivenUp, Inspect, Decide, StartSubmit,
       SubmitReturns, Recover, Report, ReportGivenUp, Crash
  <2>2. CASE g # h
    <3>1. pc'[g] = pc[g] /\ held'[g] = held[g]
      BY <1>1, <2>2 DEF HostStep, Open, Claim, ClaimGivenUp, Inspect, Decide,
         StartSubmit, SubmitReturns, Recover, Report, ReportGivenUp, Crash,
         Save, Close
    <3> QED BY <2>1, <3>1 DEF Permitted
  <2>3. CASE g = h
    <3>1. CASE Decide(h)
      BY <2>1, <2>3, <3>1 DEF Decide, Save
    <3>2. CASE ~Decide(h)
      <4>1. pc[h] = "dispatch" /\ held'[h] = held[h]
        BY <1>1, <2>3, <3>2 DEF HostStep, Open, Claim, ClaimGivenUp, Inspect,
           StartSubmit, SubmitReturns, Recover, Report, ReportGivenUp, Crash,
           Save, Close, At
      <4> QED BY <2>1, <2>3, <4>1 DEF Permitted
    <3> QED BY <3>1, <3>2
  <2> QED BY <2>2, <2>3
<1>2. ASSUME NEW t \in Tasks, NEW on \in BOOLEAN, SetLocal(t, on)
      PROVE  (local[Task[held[g]]])'
  <2>1. pc[g] = "dispatch" /\ held' = held
    BY <1>2 DEF SetLocal
  <2>2. Task[held[g]] # t
    BY <1>2, <2>1, HeldIsMine DEF SetLocal, Target
  <2> QED BY <1>2, <2>1, <2>2 DEF SetLocal, Permitted
<1>3. CASE UNCHANGED <<local, held, pc>>
  BY <1>3 DEF Permitted
<1>4. ASSUME NEW m \in Msgs, MessageStep(m) PROVE UNCHANGED <<local, held, pc>>
  BY <1>4 DEF MessageStep, Send, Acknowledge, Complete, Compact, Accept
<1>5. ASSUME \/ \E t \in Tasks, on \in BOOLEAN : SetCentral(t, on)
             \/ \E h \in Hosts, a \in Attempts : CompactEmpty(h, a)
             \/ \E r \in lateClaims : LateClaim(r)
             \/ \E r \in lateReceipts : LateReceipt(r)
             \/ UNCHANGED vars
      PROVE  UNCHANGED <<local, held, pc>>
  BY <1>5 DEF SetCentral, CompactEmpty, LateClaim, LateReceipt, vars
<1> QED BY <1>1, <1>2, <1>3, <1>4, <1>5 DEF Next

\* No submission starts for a task whose local enrollment is revoked, although
\* Once reads the enrollment several steps earlier.
THEOREM Revocation == Spec => RevocationBars
<1> DEFINE Allowed == \A m \in Msgs : started'[m] # started[m] => local[Task[m]]
<1>1. Init => Permitted
  BY DEF Init, Permitted
<1>2. IInv /\ Permitted /\ [Next]_vars => [Allowed]_vars
  <2> SUFFICES ASSUME IInv, Permitted, Next PROVE Allowed
    OBVIOUS
  <2> USE DEF codex
  <2>1. ASSUME NEW h \in Hosts, HostStep(h) PROVE Allowed
    <3>1. CASE StartSubmit(h)
      <4>1. local[Task[held[h]]]
        BY <3>1 DEF StartSubmit, Permitted
      <4>2. started' = [started EXCEPT ![held[h]] = @ + 1]
        BY <3>1 DEF StartSubmit
      <4> QED BY <4>1, <4>2 DEF IInv, TypeOK
    <3>2. CASE ~StartSubmit(h)
      BY <2>1, <3>2 DEF HostStep, Open, Claim, ClaimGivenUp, Inspect, Decide,
         SubmitReturns, Recover, Report, ReportGivenUp, Crash
    <3> QED BY <3>1, <3>2
  <2>2. ASSUME NEW m \in Msgs, MessageStep(m) PROVE Allowed
    BY <2>2 DEF MessageStep, Send, Acknowledge, Complete, Compact, Accept
  <2>3. ASSUME NEW t \in Tasks, NEW on \in BOOLEAN,
               SetCentral(t, on) \/ SetLocal(t, on)
        PROVE  Allowed
    BY <2>3 DEF SetCentral, SetLocal
  <2>4. ASSUME \/ \E h \in Hosts, a \in Attempts : CompactEmpty(h, a)
               \/ \E r \in lateClaims : LateClaim(r)
               \/ \E r \in lateReceipts : LateReceipt(r)
        PROVE  Allowed
    BY <2>4 DEF CompactEmpty, LateClaim, LateReceipt
  <2> QED BY <2>1, <2>2, <2>3, <2>4 DEF Next
<1> QED BY <1>1, <1>2, PermittedStep, Invariance, PTL DEF Spec, RevocationBars

-----------------------------------------------------------------------------
(* The relay implements the abstract mailbox.                              *)

\* A message that stays in the table keeps its status; the others too.
LEMMA StatusMoves ==
  ASSUME NEW m \in Msgs, NEW s, s # "absent", state \in [Msgs -> States],
         state' = [state EXCEPT ![m] = s], compacted' = compacted
  PROVE  Status' = [Status EXCEPT ![m] = s]
BY DEF Status

\* The receiver's steps: a claim may lease one message, a report may settle
\* one, and everything else is invisible to the users of the mailbox.
LEMMA LeaseRefines ==
  ASSUME IInv, NEW h \in Hosts, NEW a \in Attempts, CoordinatorClaim(h, a),
         UNCHANGED <<codex, compacted>>
  PROVE  [Box!MNext]_Box!mvars
<1> USE DEF codex, Box!mvars
<1>1. CASE UNCHANGED state
  BY <1>1 DEF Status
<1>2. ASSUME NEW m \in Msgs, state[m] = "queued",
             state' = [state EXCEPT ![m] = "dispatching"]
      PROVE  Box!MNext
  <2>1. Status[m] = "queued" /\ Status' = [Status EXCEPT ![m] = "dispatching"]
    BY <1>2, StatusMoves DEF IInv, TypeOK, Status
  <2> QED BY <2>1 DEF Box!MNext, Box!Lease, Box!Move
<1> QED BY <1>1, <1>2, LeaseCases

\* A receipt settles one dispatching message, or is a replay.
LEMMA ReceiptRefines ==
  ASSUME IInv, NEW r \in Receipt, CoordinatorReceipt(r),
         r.state = "submitted" => accepted[r.msg] = 1,
         UNCHANGED <<codex, compacted>>
  PROVE  [Box!MNext]_Box!mvars
<1> USE DEF codex, Box!mvars
<1>0. r.msg \in Msgs /\ r.state \in {"submitted", "uncertain"}
  BY DEF Receipt
<1>1. CASE UNCHANGED state
  BY <1>1 DEF Status
<1>2. ASSUME state[r.msg] = "dispatching",
             state' = [state EXCEPT ![r.msg] = r.state]
      PROVE  Box!MNext
  <2>1. /\ Status[r.msg] = "dispatching"
        /\ Status' = [Status EXCEPT ![r.msg] = r.state]
    BY <1>0, <1>2, StatusMoves DEF IInv, TypeOK, Status
  <2>2. CASE r.state = "submitted"
    BY <1>0, <2>1, <2>2 DEF Box!MNext, Box!Confirm, Box!Move
  <2>3. CASE r.state = "uncertain"
    BY <1>0, <2>1, <2>3 DEF Box!MNext, Box!Doubt, Box!Move
  <2> QED BY <1>0, <2>2, <2>3
<1> QED BY <1>1, <1>2, ReceiptEffect

\* Every other step about one message is one step of the mailbox.
LEMMA MessageRefines ==
  ASSUME IInv, NEW m \in Msgs, MessageStep(m)
  PROVE  [Box!MNext]_Box!mvars
<1> USE DEF codex, IInv
<1>0. accepted[m] \in Nat /\ started[m] \in Nat
      /\ accepted[m] <= started[m] /\ started[m] <= 1
  BY DEF TypeOK, StartedOnce
<1>1. CASE Send(m)
  <2>1. Status[m] = "unsent" /\ Status' = [Status EXCEPT ![m] = "queued"]
    BY <1>1, StatusMoves DEF Send, TypeOK, Status
  <2> QED BY <1>1, <2>1 DEF Send, Box!MNext, Box!Post, Box!Move
<1>2. CASE Acknowledge(m)
  <2>1. accepted[m] = 1
    BY <1>0, <1>2, OneBelow DEF Acknowledge
  <2>2. /\ Status[m] \in {"dispatching", "submitted", "uncertain"}
        /\ Status' = [Status EXCEPT ![m] = "acknowledged"]
    BY <1>2, StatusMoves, RelayAssumption DEF Acknowledge, TypeOK, Status,
       RelayAssumption
  <2> QED BY <1>2, <2>1, <2>2 DEF Acknowledge, Box!MNext, Box!Attest, Box!Move
<1>3. CASE Complete(m)
  <2>1. /\ Status[m] = "acknowledged"
        /\ Status' = [Status EXCEPT ![m] = "completed"]
    BY <1>3, StatusMoves DEF Complete, TypeOK, Status
  <2> QED BY <1>3, <2>1 DEF Complete, Box!MNext, Box!Finish, Box!Move
<1>4. CASE Compact(m)
  <2>1. /\ Status[m] = "completed"
        /\ Status' = [Status EXCEPT ![m] = "forgotten"]
    BY <1>4 DEF Compact, TypeOK, Status
  <2> QED BY <1>4, <2>1 DEF Compact, Box!MNext, Box!Forget, Box!Move
<1>5. CASE Accept(m)
  <2>1. accepted[m] = 0 /\ started[m] = 1
    BY <1>0, <1>5, NoneBelow DEF Accept
  <2>2. state[m] \in {"dispatching", "uncertain"}
    BY <2>1 DEF TypeOK, States, StartedOnce, NotStarted, EvidenceIsReal
  <2>3. Status[m] \in {"dispatching", "uncertain"} /\ Status' = Status
    BY <1>5, <2>2 DEF Accept, central, Status
  <2>4. accepted' = [accepted EXCEPT ![m] = 1]
    BY <1>5, <2>1 DEF Accept
  <2> QED BY <2>1, <2>3, <2>4 DEF Box!MNext, Box!Deliver
<1> QED BY <1>1, <1>2, <1>3, <1>4, <1>5 DEF MessageStep

\* Every step of the relay is a step of the mailbox or changes nothing in it.
LEMMA StepRefines == IInv /\ [Next]_vars => [Box!MNext]_Box!mvars
<1> SUFFICES ASSUME IInv, [Next]_vars PROVE [Box!MNext]_Box!mvars
  OBVIOUS
<1> USE DEF codex, central
<1>1. CASE UNCHANGED <<state, compacted, accepted>>
  BY <1>1 DEF Status, Box!mvars
<1>2. ASSUME NEW h \in Hosts, HostStep(h) PROVE [Box!MNext]_Box!mvars
  <2>1. CASE Claim(h)
    <3>1. issued[h] \in Attempts
      BY <2>1 DEF Claim, At, IInv, TypeOK, RowShape, Attempts
    <3> QED BY <2>1, <3>1, LeaseRefines DEF Claim
  <2>2. CASE Report(h)
    <3>1. /\ ReceiptOf(h) \in Receipt
          /\ ReceiptOf(h).state = "submitted" => accepted[ReceiptOf(h).msg] = 1
      BY <2>2 DEF Report, At, IInv, TypeOK, RowShape, Holding, Receipt,
         ReceiptOf, Attempts, EvidenceIsReal
    <3> QED BY <2>2, <3>1, ReceiptRefines DEF Report
  <2>3. CASE ~Claim(h) /\ ~Report(h)
    BY <1>1, <1>2, <2>3 DEF HostStep, Open, ClaimGivenUp, Inspect, Decide,
       StartSubmit, SubmitReturns, Recover, ReportGivenUp, Crash
  <2> QED BY <2>1, <2>2, <2>3
<1>3. ASSUME NEW r \in lateClaims, LateClaim(r) PROVE [Box!MNext]_Box!mvars
  <2>1. r.host \in Hosts /\ r.id \in Attempts
    BY DEF IInv, TypeOK, ClaimRequest
  <2> QED BY <1>3, <2>1, LeaseRefines DEF LateClaim
<1>4. ASSUME NEW r \in lateReceipts, LateReceipt(r) PROVE [Box!MNext]_Box!mvars
  <2>1. r \in Receipt /\ (r.state = "submitted" => accepted[r.msg] = 1)
    BY DEF IInv, TypeOK, LateKnown
  <2> QED BY <1>4, <2>1, ReceiptRefines DEF LateReceipt
<1>5. ASSUME \/ \E t \in Tasks, on \in BOOLEAN : SetCentral(t, on) \/ SetLocal(t, on)
             \/ \E h \in Hosts, a \in Attempts : CompactEmpty(h, a)
             \/ UNCHANGED vars
      PROVE  UNCHANGED <<state, compacted, accepted>>
  BY <1>5 DEF SetCentral, SetLocal, CompactEmpty, vars
<1> QED BY <1>1, <1>2, <1>3, <1>4, <1>5, MessageRefines DEF Next

\* The relay, with its journals, crashes and lost answers, does only what the
\* abstract mailbox allows.
THEOREM Refinement == Spec => ImplementsMailbox
<1>1. Init => Box!MInit
  BY DEF Init, Box!MInit, Status
<1> QED BY <1>1, StepRefines, Invariance, PTL DEF Spec, ImplementsMailbox, Box!MSpec

=============================================================================
