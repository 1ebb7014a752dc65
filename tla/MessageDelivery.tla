--------------------------- MODULE MessageDelivery ---------------------------
(***************************************************************************)
(* How the durable deliveries of one worker reach its Codex task: the turns*)
(* `cs send` and csd run (each polls the ledger and steers what is queued, *)
(* client.go and the two steering policies), and the owning Codex host,    *)
(* which injects an envelope and confirms it, or runs deliver-followup.    *)
(*                                                                         *)
(* Every ledger access is one transaction and nothing is held between two, *)
(* so each is an action.  Deliveries are numbered in the order their       *)
(* messages were created.                                                  *)
(***************************************************************************)
EXTENDS Naturals, FiniteSets

CONSTANTS
  MaxDeliveries,
  Turns,     \* processes that run a turn of the worker
  Natives,   \* confirm, failure and deliver-followup commands
  Faults,    \* TRUE: crashes, failed turns, lost updates, unknown outcomes
  NoDelivery

ASSUME DeliveryAssumption ==
  MaxDeliveries \in Nat /\ Faults \in BOOLEAN /\ NoDelivery \notin Nat

Deliveries == 1 .. MaxDeliveries

VARIABLES
  outcome,    \* state and last_error of a delivery, "absent" before its message
  pc,         \* where a turn's process is
  included,   \* deliveries in the prompt of `cs send`
  attempted,  \* the steering policy's attempted set
  batch,      \* deliveries Source returned and not yet acknowledged, or
              \* included ones not yet marked
  npc,        \* where a native command is
  item,       \* the delivery it is about
  \* outside the program
  injected    \* how often the task received the text: 0, 1, or 2 for more

turn   == <<pc, included, attempted, batch>>
native == <<npc, item>>
vars == <<outcome, turn, native, injected>>

\* "failed" is a queued delivery with a last_error.
Pending == {"queued", "failed"}
Settled == {"steered", "delivered"}

Init ==
  /\ outcome = [d \in Deliveries |-> "absent"]
  /\ pc = [t \in Turns |-> "off"]
  /\ included = [t \in Turns |-> {}]
  /\ attempted = [t \in Turns |-> {}]
  /\ batch = [t \in Turns |-> {}]
  /\ npc = [n \in Natives |-> "off"] /\ item = [n \in Natives |-> NoDelivery]
  /\ injected = [d \in Deliveries |-> 0]

\* ListQueuedMessages
Queued == {d \in Deliveries : outcome[d] \in Pending}

UpdateDelivery(d, o) == outcome' = [outcome EXCEPT ![d] = o]

Inject(D) == injected' = [d \in Deliveries |->
                IF d \in D /\ injected[d] < 2 THEN injected[d] + 1 ELSE injected[d]]

\* The loops over a batch take the oldest message first.
IsNext(t, d) == d \in batch[t] /\ \A e \in batch[t] : d <= e

\* CreateMessage commits the next message.
Arrive ==
  /\ \E d \in Deliveries :
       /\ outcome[d] = "absent" /\ \A e \in 1 .. d - 1 : outcome[e] # "absent"
       /\ UpdateDelivery(d, "queued")
  /\ UNCHANGED <<turn, native, injected>>

-----------------------------------------------------------------------------
(* A turn: `cs send`, or csd's first turn of a worker.                     *)

\* cs send reads the queue; the prompt will carry what it found.
Load(t) ==
  /\ pc[t] = "off"
  /\ pc' = [pc EXCEPT ![t] = "loaded"]
  /\ included' = [included EXCEPT ![t] = Queued]
  /\ UNCHANGED <<outcome, attempted, batch, native, injected>>

\* Mutant: the policy does not exclude what the prompt carries.
StartSendWithoutExcluding(t) ==
  /\ pc[t] = "loaded"
  /\ pc' = [pc EXCEPT ![t] = "turn"]
  /\ Inject(included[t])
  /\ UNCHANGED <<outcome, included, attempted, batch, native>>

\* The turn starts with the prompt; the policy excludes what it carries.
StartSend(t) ==
  /\ pc[t] = "loaded"
  /\ pc' = [pc EXCEPT ![t] = "turn"]
  /\ attempted' = [attempted EXCEPT ![t] = included[t]]
  /\ Inject(included[t])
  /\ UNCHANGED <<outcome, included, batch, native>>

\* csd starts a turn whose prompt carries no message.
StartSpawn(t) ==
  /\ pc[t] = "off"
  /\ pc' = [pc EXCEPT ![t] = "turn"]
  /\ UNCHANGED <<outcome, included, attempted, batch, native, injected>>

\* Mutant: Source answers once per turn.
PollOnce(t) ==
  /\ pc[t] = "turn" /\ batch[t] = {} /\ attempted[t] = included[t]
  /\ batch' = [batch EXCEPT ![t] = Queued \ attempted[t]]
  /\ UNCHANGED <<outcome, pc, included, attempted, native, injected>>

\* Source, on the ticker.
Poll(t) ==
  /\ pc[t] = "turn" /\ batch[t] = {}
  /\ batch' = [batch EXCEPT ![t] = Queued \ attempted[t]]
  /\ UNCHANGED <<outcome, pc, included, attempted, native, injected>>

\* TurnSteer for the next delivery of the batch: the task has the text; it
\* has not; or the call fails although it has.
Steer(t) ==
  /\ pc[t] = "turn"
  /\ \E d \in batch[t] :
       /\ IsNext(t, d)
       /\ \/ pc' = [pc EXCEPT ![t] = "sent"] /\ Inject({d})
          \/ pc' = [pc EXCEPT ![t] = "error"] /\ UNCHANGED injected
          \/ Faults /\ pc' = [pc EXCEPT ![t] = "error"] /\ Inject({d})
  /\ UNCHANGED <<outcome, included, attempted, batch, native>>

\* Mutant: the error of the call is not looked at.
AcknowledgeIgnoringError(t) ==
  /\ pc[t] \in {"sent", "error"}
  /\ \E d \in batch[t] :
       /\ IsNext(t, d)
       /\ UpdateDelivery(d, "steered")
       /\ attempted' = [attempted EXCEPT ![t] = @ \cup {d}]
       /\ batch' = [batch EXCEPT ![t] = @ \ {d}]
  /\ pc' = [pc EXCEPT ![t] = "turn"]
  /\ UNCHANGED <<included, native, injected>>

\* Acknowledge overwrites the delivery and drops the update's error.
Acknowledge(t) ==
  /\ pc[t] \in {"sent", "error"}
  /\ \E d \in batch[t] :
       /\ IsNext(t, d)
       /\ \/ UpdateDelivery(d, IF pc[t] = "sent" THEN "steered" ELSE "failed")
          \/ Faults /\ UNCHANGED outcome
       /\ attempted' = [attempted EXCEPT ![t] = @ \cup {d}]
       /\ batch' = [batch EXCEPT ![t] = @ \ {d}]
  /\ pc' = [pc EXCEPT ![t] = "turn"]
  /\ UNCHANGED <<included, native, injected>>

\* Mutant: the deliveries are marked whatever became of the turn.
FinishAlwaysMarking(t) ==
  /\ pc[t] \in {"loaded", "turn"} /\ batch[t] = {}
  /\ pc' = [pc EXCEPT ![t] = "marking"]
  /\ batch' = [batch EXCEPT ![t] = included[t]]
  /\ UNCHANGED <<outcome, included, attempted, native, injected>>

\* The turn completes between two polls; cs send then marks its deliveries.
Finish(t) ==
  /\ pc[t] = "turn" /\ batch[t] = {}
  /\ pc' = [pc EXCEPT ![t] = "marking"]
  /\ batch' = [batch EXCEPT ![t] = included[t]]
  /\ UNCHANGED <<outcome, included, attempted, native, injected>>

\* markMessagesDelivered, one transaction per delivery.
Mark(t) ==
  /\ pc[t] = "marking"
  /\ \E d \in batch[t] : /\ IsNext(t, d)
                        /\ UpdateDelivery(d, "delivered")
                        /\ batch' = [batch EXCEPT ![t] = @ \ {d}]
  /\ UNCHANGED <<pc, included, attempted, native, injected>>

\* The process forgets everything.
Off(t) ==
  /\ pc' = [pc EXCEPT ![t] = "off"]
  /\ included' = [included EXCEPT ![t] = {}]
  /\ attempted' = [attempted EXCEPT ![t] = {}]
  /\ batch' = [batch EXCEPT ![t] = {}]
  /\ UNCHANGED <<outcome, native, injected>>

Exit(t) == pc[t] = "marking" /\ batch[t] = {} /\ Off(t)

\* A crash, a failed turn, a failed worker update or a failed mark.
Abort(t) == Faults /\ pc[t] # "off" /\ Off(t)

TurnStep(t) == \/ Load(t) \/ StartSend(t) \/ StartSpawn(t) \/ Poll(t)
               \/ Steer(t) \/ Acknowledge(t) \/ Finish(t) \/ Mark(t)
               \/ Exit(t) \/ Abort(t)

-----------------------------------------------------------------------------
(* The Codex host that owns an external task.                              *)

\* `cs message` answers with an envelope for a queued delivery.
Envelope(n) ==
  /\ npc[n] = "off"
  /\ \E d \in Queued : item' = [item EXCEPT ![n] = d]
  /\ npc' = [npc EXCEPT ![n] = "envelope"]
  /\ UNCHANGED <<outcome, turn, injected>>

\* The host's native tool injects the prompt, or fails.
HostInjects(n) ==
  /\ npc[n] = "envelope"
  /\ \/ npc' = [npc EXCEPT ![n] = "confirm"] /\ Inject({item[n]})
     \/ npc' = [npc EXCEPT ![n] = "fail"] /\ UNCHANGED injected
  /\ UNCHANGED <<outcome, turn, item>>

Done(n) == /\ npc' = [npc EXCEPT ![n] = "off"]
           /\ item' = [item EXCEPT ![n] = NoDelivery]

\* confirm-* and *-failed read the delivery; one that is no longer queued is
\* left alone (a repeated confirmation) or refused (a failure).
ReadDelivery(n) ==
  /\ npc[n] \in {"confirm", "fail"}
  /\ IF item[n] \in Queued
     THEN /\ npc' = [npc EXCEPT ![n] =
                       IF @ = "confirm" THEN "write steered" ELSE "write failed"]
          /\ UNCHANGED item
     ELSE Done(n)
  /\ UNCHANGED <<outcome, turn, injected>>

\* deliver-followup: read the delivery, submit it to codex queue; an unknown
\* outcome is not recorded.
ReadFollowup(n) ==
  /\ npc[n] = "off"
  /\ \E d \in Queued : item' = [item EXCEPT ![n] = d]
  /\ npc' = [npc EXCEPT ![n] = "submit"]
  /\ UNCHANGED <<outcome, turn, injected>>

\* Mutant: an unknown outcome is recorded as a success.
SubmitAssumingSuccess(n) ==
  /\ npc[n] = "submit"
  /\ npc' = [npc EXCEPT ![n] = "write steered"]
  /\ Inject({item[n]}) \/ UNCHANGED injected
  /\ UNCHANGED <<outcome, turn, item>>

\* codexqueue.Submit: codex exits without an error, the task has the text.
QueueAccepts(n) ==
  /\ npc' = [npc EXCEPT ![n] = "write steered"]
  /\ Inject({item[n]})
  /\ UNCHANGED item

\* classifySubmitError takes any exit status for a definite failure.  It is one when
\* codex itself exits; ssh also ends with a status when the connection breaks after
\* the codex on the other side has taken the text.
QueueFails(n) ==
  /\ npc' = [npc EXCEPT ![n] = "write failed"]
  /\ UNCHANGED item
  /\ UNCHANGED injected \/ (Faults /\ Inject({item[n]}))

\* The version check fails or is too old, or the deadline passes before or after
\* codex has taken the text: nothing is recorded.
QueueUncertain(n) ==
  /\ Faults /\ Done(n)
  /\ Inject({item[n]}) \/ UNCHANGED injected

Submit(n) ==
  /\ npc[n] = "submit"
  /\ QueueAccepts(n) \/ QueueFails(n) \/ QueueUncertain(n)
  /\ UNCHANGED <<outcome, turn>>

\* UpdateDelivery in a later transaction than the read.
WriteDelivery(n) ==
  /\ npc[n] \in {"write steered", "write failed"}
  /\ UpdateDelivery(item[n],
       IF npc[n] = "write steered" THEN "steered" ELSE "failed")
  /\ Done(n)
  /\ UNCHANGED <<turn, injected>>

\* The command or its operator stops.
Quit(n) ==
  /\ Faults /\ npc[n] # "off"
  /\ Done(n)
  /\ UNCHANGED <<outcome, turn, injected>>

NativeStep(n) == \/ Envelope(n) \/ HostInjects(n) \/ ReadDelivery(n)
                 \/ ReadFollowup(n) \/ Submit(n) \/ WriteDelivery(n) \/ Quit(n)

Next == \/ Arrive
        \/ \E t \in Turns : TurnStep(t)
        \/ \E n \in Natives : NativeStep(n)

\* A running turn keeps its ticker, and its calls return.
TurnFairness(t) == WF_vars(Poll(t)) /\ WF_vars(Steer(t)) /\ WF_vars(Acknowledge(t))

Spec == Init /\ [][Next]_vars
FairSpec == Spec /\ \A t \in Turns : TurnFairness(t)

-----------------------------------------------------------------------------
(* Properties                                                              *)

TypeOK ==
  /\ outcome \in [Deliveries -> Pending \cup Settled \cup {"absent"}]
  /\ pc \in [Turns -> {"off", "loaded", "turn", "sent", "error", "marking"}]
  /\ included \in [Turns -> SUBSET Deliveries]
  /\ attempted \in [Turns -> SUBSET Deliveries]
  /\ batch \in [Turns -> SUBSET Deliveries]
  /\ npc \in [Natives -> {"off", "envelope", "confirm", "fail", "submit",
                          "write steered", "write failed"}]
  /\ item \in [Natives -> Deliveries \cup {NoDelivery}]
  /\ injected \in [Deliveries -> 0 .. 2]

\* The ledger never reports a delivery as steered or delivered that the task
\* has not received, however the writers overwrite each other.
NoFalseReceipt == \A d \in Deliveries : outcome[d] \in Settled => injected[d] > 0

\* What the writers know: a delivery is about to be recorded as received only
\* after the task received it.
WritersKnow ==
  /\ \A t \in Turns :
       /\ pc[t] = "off" => included[t] = {}
       /\ pc[t] \in {"turn", "sent", "error", "marking"} =>
            \A d \in included[t] : injected[d] > 0
       /\ pc[t] = "sent" => \A d \in batch[t] : IsNext(t, d) => injected[d] > 0
       /\ pc[t] = "marking" => batch[t] \subseteq included[t]
  /\ \A n \in Natives :
       /\ npc[n] # "off" => item[n] \in Deliveries
       /\ npc[n] \in {"confirm", "write steered"} => injected[item[n]] > 0

\* The inductive invariant.
DInv == TypeOK /\ NoFalseReceipt /\ WritersKnow

\* One turn after the other, without faults, gives the task each text once:
\* neither the poller nor the next prompt repeats what was carried or steered.
ReceivedOnce == \A d \in Deliveries : injected[d] < 2

\* A message that arrives during a turn is offered to that turn.
OfferedToTurn ==
  \A d \in Deliveries, t \in Turns :
    (pc[t] = "turn" /\ outcome[d] = "queued")
      ~> (d \in attempted[t] \/ outcome[d] # "queued" \/ pc[t] \in {"marking", "off"})

\* A failure is never recorded over a success.
SettledStays ==
  [][\A d \in Deliveries : outcome[d] \in Settled => outcome'[d] \in Settled]_vars

\* A submission that is recorded as failed was not taken, so the next attempt does not
\* give the task the text a second time.  (codexqueue.go:156, "A non-nil error from
\* the queue invocation means definite failure")
FailureDefinite ==
  [][\A n \in Natives : npc[n] = "submit" /\ npc'[n] = "write failed" => UNCHANGED injected]_vars
=============================================================================
