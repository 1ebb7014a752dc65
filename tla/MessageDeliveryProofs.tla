------------------------ MODULE MessageDeliveryProofs ------------------------
(* Proofs about MessageDelivery, for any number of deliveries, turns and   *)
(* native commands, with and without faults.                               *)
EXTENDS MessageDelivery, TLAPS

\* Injecting makes the texts received and forgets no earlier receipt.
LEMMA InjectReceives ==
  ASSUME TypeOK, NEW D, Inject(D)
  PROVE  /\ injected' \in [Deliveries -> 0 .. 2]
         /\ \A d \in Deliveries : injected[d] > 0 => injected'[d] > 0
         /\ \A d \in Deliveries : d \in D => injected'[d] > 0
<1>1. \A d \in Deliveries : injected[d] \in 0 .. 2
  BY DEF TypeOK
<1>2. QED
  BY <1>1 DEF Inject

\* Nothing is delivered and no writer is active at first.
LEMMA InitDInv == Init => DInv
<1>1. SUFFICES ASSUME Init PROVE DInv
  OBVIOUS
<1>2. TypeOK
  BY <1>1, DeliveryAssumption DEF Init, TypeOK, Pending, Settled, DeliveryAssumption
<1>3. NoFalseReceipt
  BY <1>1 DEF Init, NoFalseReceipt, Settled
<1>4. WritersKnow
  BY <1>1 DEF Init, WritersKnow
<1>5. QED
  BY <1>2, <1>3, <1>4 DEF DInv

\* A new message is queued and not received.
LEMMA ArriveDInv == ASSUME DInv, Arrive PROVE DInv'
<1>1. UNCHANGED <<turn, native, injected>>
  BY DEF Arrive
<1>2. PICK d \in Deliveries : outcome' = [outcome EXCEPT ![d] = "queued"]
  BY DEF Arrive, UpdateDelivery
<1>3. TypeOK'
  BY <1>1, <1>2 DEF DInv, TypeOK, turn, native, Pending, Settled
<1>4. NoFalseReceipt'
  BY <1>1, <1>2 DEF DInv, TypeOK, NoFalseReceipt, Settled
<1>5. WritersKnow'
  BY <1>1 DEF DInv, WritersKnow, turn, native, IsNext
<1>6. QED
  BY <1>3, <1>4, <1>5 DEF DInv

\* Reading the queue records nothing.
LEMMA LoadDInv == ASSUME DInv, NEW t \in Turns, Load(t) PROVE DInv'
<1>1. UNCHANGED <<outcome, native, injected>>
  BY DEF Load
<1>2. TypeOK'
  BY <1>1 DEF Load, DInv, TypeOK, turn, native, Pending, Settled, Queued
<1>3. NoFalseReceipt'
  BY <1>1 DEF DInv, NoFalseReceipt
<1>4. WritersKnow'
  BY <1>1 DEF Load, DInv, TypeOK, WritersKnow, native, IsNext
<1>5. QED
  BY <1>2, <1>3, <1>4 DEF DInv

\* A turn without messages records nothing.
LEMMA StartSpawnDInv == ASSUME DInv, NEW t \in Turns, StartSpawn(t) PROVE DInv'
<1>1. UNCHANGED <<outcome, native, injected>>
  BY DEF StartSpawn
<1>2. TypeOK'
  BY <1>1 DEF StartSpawn, DInv, TypeOK, turn, native, Pending, Settled, Queued
<1>3. NoFalseReceipt'
  BY <1>1 DEF DInv, NoFalseReceipt
<1>4. WritersKnow'
  BY <1>1 DEF StartSpawn, DInv, TypeOK, WritersKnow, native, IsNext
<1>5. QED
  BY <1>2, <1>3, <1>4 DEF DInv

\* Polling records nothing.
LEMMA PollDInv == ASSUME DInv, NEW t \in Turns, Poll(t) PROVE DInv'
<1>1. UNCHANGED <<outcome, native, injected>>
  BY DEF Poll
<1>2. TypeOK'
  BY <1>1 DEF Poll, DInv, TypeOK, turn, native, Pending, Settled, Queued
<1>3. NoFalseReceipt'
  BY <1>1 DEF DInv, NoFalseReceipt
<1>4. WritersKnow'
  BY <1>1 DEF Poll, DInv, TypeOK, WritersKnow, native, IsNext
<1>5. QED
  BY <1>2, <1>3, <1>4 DEF DInv

\* A completed turn has delivered its prompt.
LEMMA FinishDInv == ASSUME DInv, NEW t \in Turns, Finish(t) PROVE DInv'
<1>1. UNCHANGED <<outcome, native, injected>>
  BY DEF Finish
<1>2. TypeOK'
  BY <1>1 DEF Finish, DInv, TypeOK, turn, native, Pending, Settled, Queued
<1>3. NoFalseReceipt'
  BY <1>1 DEF DInv, NoFalseReceipt
<1>4. WritersKnow'
  BY <1>1 DEF Finish, DInv, TypeOK, WritersKnow, native, IsNext
<1>5. QED
  BY <1>2, <1>3, <1>4 DEF DInv

\* A process that ends leaves the ledger alone.
LEMMA ExitDInv == ASSUME DInv, NEW t \in Turns, Exit(t) PROVE DInv'
<1>1. UNCHANGED <<outcome, native, injected>>
  BY DEF Exit, Off
<1>2. TypeOK'
  BY <1>1 DEF Exit, Off, DInv, TypeOK, turn, native, Pending, Settled, Queued
<1>3. NoFalseReceipt'
  BY <1>1 DEF DInv, NoFalseReceipt
<1>4. WritersKnow'
  BY <1>1 DEF Exit, Off, DInv, TypeOK, WritersKnow, native, IsNext
<1>5. QED
  BY <1>2, <1>3, <1>4 DEF DInv

\* A process that stops leaves the ledger alone.
LEMMA AbortDInv == ASSUME DInv, NEW t \in Turns, Abort(t) PROVE DInv'
<1>1. UNCHANGED <<outcome, native, injected>>
  BY DEF Abort, Off
<1>2. TypeOK'
  BY <1>1 DEF Abort, Off, DInv, TypeOK, turn, native, Pending, Settled, Queued
<1>3. NoFalseReceipt'
  BY <1>1 DEF DInv, NoFalseReceipt
<1>4. WritersKnow'
  BY <1>1 DEF Abort, Off, DInv, TypeOK, WritersKnow, native, IsNext
<1>5. QED
  BY <1>2, <1>3, <1>4 DEF DInv

\* The prompt of cs send carries the messages it included.
LEMMA StartSendDInv == ASSUME DInv, NEW t \in Turns, StartSend(t) PROVE DInv'
<1>1. UNCHANGED <<outcome, included, batch, native>> /\ Inject(included[t])
  BY DEF StartSend
<1>2. /\ injected' \in [Deliveries -> 0 .. 2]
      /\ \A d \in Deliveries : injected[d] > 0 => injected'[d] > 0
      /\ \A d \in included[t] : injected'[d] > 0
  BY <1>1, InjectReceives DEF DInv, TypeOK
<1>3. TypeOK'
  BY <1>1, <1>2 DEF StartSend, DInv, TypeOK, native
<1>4. NoFalseReceipt'
  BY <1>1, <1>2 DEF DInv, NoFalseReceipt
<1>5. WritersKnow'
  <2>1. \A u \in Turns : included[u] \subseteq Deliveries /\ batch[u] \subseteq Deliveries
    BY DEF DInv, TypeOK
  <2>2. /\ pc'[t] = "turn" /\ \A u \in Turns \ {t} : pc'[u] = pc[u]
    BY DEF StartSend, DInv, TypeOK
  <2>3. QED
    BY <1>1, <1>2, <2>1, <2>2 DEF DInv, WritersKnow, native, IsNext
<1>6. QED
  BY <1>3, <1>4, <1>5 DEF DInv

\* A steered text is received before its acknowledgement is written.
LEMMA SteerDInv == ASSUME DInv, NEW t \in Turns, Steer(t) PROVE DInv'
<1>1. UNCHANGED <<outcome, included, attempted, batch, native>>
  BY DEF Steer
<1>2. PICK d \in batch[t] :
        /\ IsNext(t, d)
        /\ \/ pc' = [pc EXCEPT ![t] = "sent"] /\ Inject({d})
           \/ pc' = [pc EXCEPT ![t] = "error"] /\ UNCHANGED injected
           \/ Faults /\ pc' = [pc EXCEPT ![t] = "error"] /\ Inject({d})
  BY DEF Steer
<1>3. /\ injected' \in [Deliveries -> 0 .. 2]
      /\ \A e \in Deliveries : injected[e] > 0 => injected'[e] > 0
      /\ pc'[t] = "sent" => injected'[d] > 0
  <2>1. d \in Deliveries /\ TypeOK
    BY DEF DInv, TypeOK
  <2>2. CASE Inject({d})
    BY <2>1, <2>2, InjectReceives
  <2>3. CASE pc' = [pc EXCEPT ![t] = "error"] /\ UNCHANGED injected
    BY <2>1, <2>3 DEF TypeOK
  <2>4. QED
    BY <1>2, <2>2, <2>3
<1>4. /\ pc'[t] \in {"sent", "error"} /\ \A u \in Turns \ {t} : pc'[u] = pc[u]
      /\ pc' \in [Turns -> {"off", "loaded", "turn", "sent", "error", "marking"}]
  BY <1>2 DEF DInv, TypeOK
<1>5. TypeOK'
  BY <1>1, <1>3, <1>4 DEF DInv, TypeOK, native
<1>6. NoFalseReceipt'
  BY <1>1, <1>3 DEF DInv, NoFalseReceipt
<1>7. WritersKnow'
  <2>1. \A u \in Turns : included[u] \subseteq Deliveries /\ batch[u] \subseteq Deliveries
    BY DEF DInv, TypeOK
  <2>2. \A e \in batch[t] : IsNext(t, e) => e = d
    BY <1>2, <2>1 DEF IsNext, Deliveries
  <2>3. pc[t] = "turn"
    BY DEF Steer
  <2>4. QED
    BY <1>1, <1>3, <1>4, <2>1, <2>2, <2>3 DEF DInv, WritersKnow, native, IsNext
<1>8. QED
  BY <1>5, <1>6, <1>7 DEF DInv

\* An acknowledgement records what the call returned, or nothing.
LEMMA AcknowledgeDInv == ASSUME DInv, NEW t \in Turns, Acknowledge(t) PROVE DInv'
<1>1. UNCHANGED <<included, native, injected>> /\ pc' = [pc EXCEPT ![t] = "turn"]
  BY DEF Acknowledge
<1>2. PICK d \in batch[t] :
        /\ IsNext(t, d)
        /\ \/ outcome' = [outcome EXCEPT ![d] =
                             IF pc[t] = "sent" THEN "steered" ELSE "failed"]
           \/ UNCHANGED outcome
        /\ attempted' = [attempted EXCEPT ![t] = @ \cup {d}]
        /\ batch' = [batch EXCEPT ![t] = @ \ {d}]
  BY DEF Acknowledge, UpdateDelivery
<1>3. d \in Deliveries /\ (pc[t] = "sent" => injected[d] > 0)
  BY <1>2 DEF DInv, TypeOK, WritersKnow
<1>4. TypeOK'
  BY <1>1, <1>2, <1>3 DEF DInv, TypeOK, native, Pending, Settled
<1>5. NoFalseReceipt'
  BY <1>1, <1>2, <1>3 DEF DInv, TypeOK, NoFalseReceipt, Settled
<1>6. WritersKnow'
  <2>1. /\ pc'[t] = "turn" /\ pc[t] \in {"sent", "error"}
        /\ \A u \in Turns \ {t} : pc'[u] = pc[u] /\ batch'[u] = batch[u]
    BY <1>1, <1>2 DEF Acknowledge, DInv, TypeOK
  <2>2. QED
    BY <1>1, <2>1 DEF DInv, WritersKnow, native, IsNext
<1>7. QED
  BY <1>4, <1>5, <1>6 DEF DInv

\* Only what the completed prompt carried is marked as delivered.
LEMMA MarkDInv == ASSUME DInv, NEW t \in Turns, Mark(t) PROVE DInv'
<1>1. UNCHANGED <<pc, included, attempted, native, injected>> /\ pc[t] = "marking"
  BY DEF Mark
<1>2. PICK d \in batch[t] : /\ outcome' = [outcome EXCEPT ![d] = "delivered"]
                            /\ batch' = [batch EXCEPT ![t] = @ \ {d}]
  BY DEF Mark, UpdateDelivery
<1>3. d \in Deliveries /\ injected[d] > 0
  BY <1>1, <1>2 DEF DInv, TypeOK, WritersKnow
<1>4. TypeOK'
  BY <1>1, <1>2, <1>3 DEF DInv, TypeOK, native, Pending, Settled
<1>5. NoFalseReceipt'
  BY <1>1, <1>2, <1>3 DEF DInv, TypeOK, NoFalseReceipt, Settled
<1>6. WritersKnow'
  <2>1. /\ batch'[t] \subseteq batch[t]
        /\ \A u \in Turns \ {t} : batch'[u] = batch[u]
    BY <1>2 DEF DInv, TypeOK
  <2>2. QED
    BY <1>1, <2>1 DEF DInv, WritersKnow, native, IsNext
<1>7. QED
  BY <1>4, <1>5, <1>6 DEF DInv

\* A step of a native command other than an injection or a write.
LEMMA NativeQuietDInv ==
  ASSUME DInv, NEW n \in Natives,
         Envelope(n) \/ ReadDelivery(n) \/ ReadFollowup(n) \/ Quit(n)
  PROVE  DInv'
<1>1. UNCHANGED <<outcome, turn, injected>>
  BY DEF Envelope, ReadDelivery, ReadFollowup, Quit
<1>2. /\ npc' \in [Natives -> {"off", "envelope", "confirm", "fail", "submit",
                               "write steered", "write failed"}]
      /\ item' \in [Natives -> Deliveries \cup {NoDelivery}]
      /\ \A k \in Natives \ {n} : npc'[k] = npc[k] /\ item'[k] = item[k]
  BY DEF Envelope, ReadDelivery, ReadFollowup, Quit, Done, Queued, DInv, TypeOK
<1>3. /\ npc'[n] # "off" => item'[n] \in Deliveries
      /\ npc'[n] \in {"confirm", "write steered"} => injected[item'[n]] > 0
  BY DEF Envelope, ReadDelivery, ReadFollowup, Quit, Done, Queued, DInv, TypeOK,
         WritersKnow
<1>4. TypeOK'
  BY <1>1, <1>2 DEF DInv, TypeOK, turn
<1>5. NoFalseReceipt'
  BY <1>1 DEF DInv, NoFalseReceipt
<1>6. WritersKnow'
  BY <1>1, <1>2, <1>3 DEF DInv, WritersKnow, turn, IsNext
<1>7. QED
  BY <1>4, <1>5, <1>6 DEF DInv

\* The host or codex queue injects, or reports a failure; only an injection
\* that is known to have happened leads to a confirmation.
LEMMA NativeInjectDInv ==
  ASSUME DInv, NEW n \in Natives, HostInjects(n) \/ Submit(n)
  PROVE  DInv'
<1>1. UNCHANGED <<outcome, turn>> /\ npc[n] \in {"envelope", "submit"}
  BY DEF HostInjects, Submit
<1>2. item[n] \in Deliveries /\ TypeOK
  BY <1>1 DEF DInv, WritersKnow
<1>3. Inject({item[n]}) \/ UNCHANGED injected
  BY DEF HostInjects, Submit, QueueAccepts, QueueFails, QueueUncertain
<1>4. /\ injected' \in [Deliveries -> 0 .. 2]
      /\ \A d \in Deliveries : injected[d] > 0 => injected'[d] > 0
      /\ Inject({item[n]}) => injected'[item[n]] > 0
  <2>1. CASE Inject({item[n]})
    BY <1>2, <2>1, InjectReceives
  <2>2. CASE ~ Inject({item[n]})
    BY <1>2, <1>3, <2>2 DEF TypeOK
  <2>3. QED
    BY <2>1, <2>2
<1>5. /\ npc' \in [Natives -> {"off", "envelope", "confirm", "fail", "submit",
                               "write steered", "write failed"}]
      /\ item' \in [Natives -> Deliveries \cup {NoDelivery}]
      /\ \A k \in Natives \ {n} : npc'[k] = npc[k] /\ item'[k] = item[k]
  BY DEF HostInjects, Submit, QueueAccepts, QueueFails, QueueUncertain, Done, DInv, TypeOK
<1>6. /\ npc'[n] # "off" => item'[n] = item[n]
      /\ npc'[n] \in {"confirm", "write steered"} => Inject({item[n]})
  BY <1>1 DEF HostInjects, Submit, QueueAccepts, QueueFails, QueueUncertain, Done, DInv, TypeOK
<1>7. TypeOK'
  BY <1>1, <1>4, <1>5 DEF DInv, TypeOK, turn
<1>8. NoFalseReceipt'
  BY <1>1, <1>4 DEF DInv, NoFalseReceipt
<1>9. WritersKnow'
  <2>1. \A u \in Turns : included[u] \subseteq Deliveries /\ batch[u] \subseteq Deliveries
    BY <1>2 DEF TypeOK
  <2>2. \A u \in Turns :
          /\ pc'[u] = "off" => included'[u] = {}
          /\ pc'[u] \in {"turn", "sent", "error", "marking"} =>
               \A d \in included'[u] : injected'[d] > 0
          /\ pc'[u] = "sent" => \A d \in batch'[u] : IsNext(u, d)' => injected'[d] > 0
          /\ pc'[u] = "marking" => batch'[u] \subseteq included'[u]
    BY <1>1, <1>4, <2>1 DEF DInv, WritersKnow, turn, IsNext
  <2>3. \A k \in Natives :
          /\ npc'[k] # "off" => item'[k] \in Deliveries
          /\ npc'[k] \in {"confirm", "write steered"} => injected'[item'[k]] > 0
    <3>1. /\ npc'[n] # "off" => item'[n] \in Deliveries
          /\ npc'[n] \in {"confirm", "write steered"} => injected'[item'[n]] > 0
      BY <1>2, <1>4, <1>6
    <3>2. \A k \in Natives \ {n} :
            /\ npc'[k] # "off" => item'[k] \in Deliveries
            /\ npc'[k] \in {"confirm", "write steered"} => injected'[item'[k]] > 0
      BY <1>4, <1>5 DEF DInv, WritersKnow
    <3>3. QED
      BY <3>1, <3>2
  <2>4. QED
    BY <2>2, <2>3 DEF WritersKnow
<1>10. QED
  BY <1>7, <1>8, <1>9 DEF DInv

\* A confirmation is written for a text the task received.
LEMMA WriteDeliveryDInv ==
  ASSUME DInv, NEW n \in Natives, WriteDelivery(n)
  PROVE  DInv'
<1>1. UNCHANGED <<turn, injected>> /\ npc[n] \in {"write steered", "write failed"}
  BY DEF WriteDelivery
<1>2. /\ item[n] \in Deliveries
      /\ npc[n] = "write steered" => injected[item[n]] > 0
  BY <1>1 DEF DInv, WritersKnow
<1>3. outcome' = [outcome EXCEPT ![item[n]] =
                    IF npc[n] = "write steered" THEN "steered" ELSE "failed"]
  BY DEF WriteDelivery, UpdateDelivery
<1>4. npc' = [npc EXCEPT ![n] = "off"] /\ item' = [item EXCEPT ![n] = NoDelivery]
  BY DEF WriteDelivery, Done
<1>5. TypeOK'
  BY <1>1, <1>2, <1>3, <1>4 DEF DInv, TypeOK, turn, Pending, Settled
<1>6. NoFalseReceipt'
  BY <1>1, <1>2, <1>3 DEF DInv, TypeOK, NoFalseReceipt, Settled
<1>7. WritersKnow'
  <2>1. npc'[n] = "off" /\ \A k \in Natives \ {n} : npc'[k] = npc[k] /\ item'[k] = item[k]
    BY <1>4 DEF DInv, TypeOK
  <2>2. QED
    BY <1>1, <2>1 DEF DInv, WritersKnow, turn, IsNext
<1>8. QED
  BY <1>5, <1>6, <1>7 DEF DInv

\* The invariant is inductive.
LEMMA NextDInv == DInv /\ [Next]_vars => DInv'
<1>1. SUFFICES ASSUME DInv, [Next]_vars PROVE DInv'
  OBVIOUS
<1>2. CASE Arrive
  BY <1>1, <1>2, ArriveDInv
<1>3. CASE \E t \in Turns : TurnStep(t)
  <2>1. PICK t \in Turns : TurnStep(t)
    BY <1>3
  <2>2. QED
    BY <1>1, <2>1, LoadDInv, StartSendDInv, StartSpawnDInv, PollDInv, SteerDInv,
       AcknowledgeDInv, FinishDInv, MarkDInv, ExitDInv, AbortDInv DEF TurnStep
<1>4. CASE \E n \in Natives : NativeStep(n)
  BY <1>1, <1>4, NativeQuietDInv, NativeInjectDInv, WriteDeliveryDInv DEF NativeStep
<1>5. CASE UNCHANGED vars
  BY <1>1, <1>5 DEF DInv, TypeOK, NoFalseReceipt, WritersKnow, IsNext, vars, turn, native
<1>6. QED
  BY <1>1, <1>2, <1>3, <1>4, <1>5 DEF Next

\* Whatever turns and commands do to each other, no delivery is recorded as
\* steered or delivered before the task received it.
THEOREM Receipts == Spec => []NoFalseReceipt
<1>1. DInv => NoFalseReceipt
  BY DEF DInv
<1>2. QED
  BY <1>1, InitDInv, NextDInv, PTL DEF Spec

=============================================================================
