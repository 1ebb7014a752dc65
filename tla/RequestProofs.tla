---------------------------- MODULE RequestProofs ----------------------------
(* Proofs about MessageLedger, for all requests, payloads, workers, caps   *)
(* and numbers of calls, and about Decisions (instance D), for all workers, *)
(* command lines, requests and numbers of commands.                        *)
EXTENDS MCRequests, FiniteSetTheorems, WellFoundedInduction, TLAPS

-----------------------------------------------------------------------------
(* Facts about the operators.                                              *)

\* A nonempty set of naturals has a least element.
LEMMA LeastNatural ==
  ASSUME NEW T, T \subseteq Nat, T # {}
  PROVE  \E x \in T : \A y \in T : x <= y
<1> DEFINE R == {ss \in Nat \X Nat : ss[1] < ss[2]}
<1>1. R = OpToRel(<, Nat)
  BY Zenon DEF OpToRel
<1>2. IsWellFoundedOn(R, Nat)
  BY <1>1, NatLessThanWellFounded, Zenon
<1>. HIDE DEF R
<1>3. \E x \in T : \A y \in T : ~ (<<y, x>> \in R)
  BY <1>2, WFMin, Zenon
<1>4. PICK x \in T : \A y \in T : ~ (<<y, x>> \in R)
  BY <1>3
<1>5. \A y \in T : x <= y
  <2>1. SUFFICES ASSUME NEW y \in T, y < x PROVE FALSE
    OBVIOUS
  <2>2. x \in Nat /\ y \in Nat
    OBVIOUS
  <2>3. <<y, x>> \in R
    BY <2>1, <2>2 DEF R
  <2>4. QED
    BY <1>4, <2>3, Zenon
<1>6. QED
  BY <1>5

\* pruneMessageReplays leaves at most MessageReplayCap rows: all but the
\* oldest of the rows it keeps are younger than that one.
LEMMA KeptIsBounded ==
  ASSUME NEW R, IsFiniteSet(R), \A x \in R : x.at \in Nat,
         \A x, y \in R : x.at = y.at => x = y
  PROVE  Cardinality(PruneMessageReplays(R)) <= ReplayCap
<1> DEFINE K == PruneMessageReplays(R)
           T == {x.at : x \in K}
<1>a. ReplayCap \in Nat
  BY LedgerAssumption DEF LedgerAssumption
<1>1. K \subseteq R /\ IsFiniteSet(K)
  BY FS_Subset DEF PruneMessageReplays
<1>2. CASE K = {}
  BY <1>2, <1>a, FS_EmptySet
<1>3. CASE K # {}
  <2>1. T \subseteq Nat /\ T # {}
    BY <1>1, <1>3
  <2>2. PICK x \in K : \A y \in K : x.at <= y.at
    <3>. HIDE DEF K
    <3>1. \E a \in T : \A b \in T : a <= b
      <4>. HIDE DEF T
      <4>1. QED
        BY <2>1, LeastNatural
    <3>2. QED
      BY <3>1
  <2> DEFINE Y == {y \in R : y.at > x.at}
  <2>3. Cardinality(Y) < ReplayCap
    BY DEF PruneMessageReplays
  <2>4. IsFiniteSet(Y) /\ Cardinality(Y) \in Nat
    BY FS_Subset, FS_CardinalityType
  <2>5. K \subseteq Y \cup {x}
    <3>1. SUFFICES ASSUME NEW y \in K PROVE y \in Y \cup {x}
      OBVIOUS
    <3>2. x \in R /\ y \in R /\ x.at <= y.at
      BY <1>1, <2>2
    <3>3. QED
      BY <3>2
  <2>6. x \notin Y
    BY <1>1
  <2>7. Cardinality(Y \cup {x}) = Cardinality(Y) + 1 /\ IsFiniteSet(Y \cup {x})
    <3>. HIDE DEF Y
    <3>1. QED
      BY <2>4, <2>6, FS_AddElement
  <2>8. Cardinality(K) <= Cardinality(Y \cup {x})
    <3>. HIDE DEF K, Y
    <3>1. QED
      BY <2>5, <2>7, FS_Subset
  <2>9. Cardinality(K) \in Nat
    BY <1>1, FS_CardinalityType
  <2>. HIDE DEF K, Y
  <2>10. QED
    BY <1>a, <2>3, <2>4, <2>7, <2>8, <2>9 DEF K
<1>4. QED
  BY <1>2, <1>3

\* More creations only make more younger messages.
LEMMA YoungerGrows ==
  ASSUME NEW A, NEW B, IsFiniteSet(B), A \subseteq B, NEW b
  PROVE  /\ Cardinality({y \in A : y.at > b.at}) \in Nat
         /\ Cardinality({y \in B : y.at > b.at}) \in Nat
         /\ Cardinality({y \in A : y.at > b.at})
              <= Cardinality({y \in B : y.at > b.at})
<1> DEFINE YA == {y \in A : y.at > b.at}
           YB == {y \in B : y.at > b.at}
<1>1. YB \subseteq B /\ YA \subseteq YB
  OBVIOUS
<1>. HIDE DEF YA, YB
<1>2. IsFiniteSet(YB)
  BY <1>1, FS_Subset
<1>3. IsFiniteSet(YA) /\ Cardinality(YA) <= Cardinality(YB)
  BY <1>1, <1>2, FS_Subset
<1>4. QED
  BY <1>2, <1>3, FS_CardinalityType DEF YA, YB

\* The replay table before its own pruning, as CreateInserts leaves it: no
\* row of another request is lost, and its rows are messages that were born.
LEMMA ReplayTable ==
  ASSUME LInv, NEW c \in calls, ~ Known(c.req), NEW n,
         NEW R, R = SaveMessageReplay(SaveMessageReplay(replays, Pruned(n)), {c})
  PROVE  /\ R \subseteq replays \cup Pruned(n) \cup {c}
         /\ replays \cup Pruned(n) \cup {c} \subseteq R
<1>1. Pruned(n) \subseteq messages
  BY DEF Pruned, FullyDelivered
<1>2. \A x \in messages \cup replays : x.req # c.req
  BY DEF Known
<1>3. \A x, y \in messages \cup replays : x.req = y.req => x = y
  BY DEF LInv, OneRowPerRequest
<1>4. QED
  BY <1>1, <1>2, <1>3 DEF SaveMessageReplay

-----------------------------------------------------------------------------
(* The inductive invariant.                                                *)

\* The empty ledger satisfies the invariant.
LEMMA InitLInv == Init => LInv
<1>1. SUFFICES ASSUME Init PROVE LInv
  OBVIOUS
<1>2. TypeOK
  BY <1>1, FS_EmptySet DEF Init, TypeOK
<1>3. QED
  BY <1>1, <1>2 DEF Init, LInv, OneRowPerRequest, ReplayTellsFinalState, Remembered

\* Stamping a call changes no table.
LEMMA StampLInv ==
  ASSUME LInv, NEW r \in Requests, NEW p \in Payloads, Stamp(r, p)
  PROVE  LInv'
<1> DEFINE x == [req |-> r, payload |-> p, at |-> clock + 1]
<1>1. clock \in Nat /\ clock' = clock + 1 /\ calls' = calls \cup {x} /\ x \in Row
  BY DEF Stamp, LInv, TypeOK, Row
<1>2. UNCHANGED <<messages, delivery, replays, result, born>>
  BY DEF Stamp
<1>3. \A y \in born \cup calls : y.at \in Nat /\ y.at <= clock
  BY DEF LInv, TypeOK, Row
<1>4. x \notin born
  BY <1>1, <1>3
<1>5. TypeOK'
  <2>1. \A y \in born' \cup calls' : y.at <= clock'
    BY <1>1, <1>2, <1>3
  <2>2. \A y, z \in born' \cup calls' : y.at = z.at => y = z
    BY <1>1, <1>2, <1>3 DEF LInv, TypeOK
  <2>3. born' \cap calls' = {}
    BY <1>1, <1>2, <1>4 DEF LInv, TypeOK
  <2>. HIDE DEF x
  <2>4. QED
    BY <1>1, <1>2, <2>1, <2>2, <2>3 DEF LInv, TypeOK, Recipients
<1>6. OneRowPerRequest'
  BY <1>2 DEF LInv, OneRowPerRequest
<1>7. ReplayTellsFinalState'
  BY <1>2 DEF LInv, ReplayTellsFinalState, Recipients
<1>8. Remembered'
  BY <1>2 DEF LInv, Remembered, YoungerThan
<1>9. QED
  BY <1>5, <1>6, <1>7, <1>8 DEF LInv

\* A replayed, mismatched or refused call changes no table.
LEMMA AnsweredLInv ==
  ASSUME LInv, NEW c \in calls, CreateKnown(c) \/ CreateRefused(c)
  PROVE  LInv'
<1>1. /\ UNCHANGED <<messages, delivery, replays, result, clock, born>>
      /\ calls' = calls \ {c}
  BY DEF CreateKnown, CreateRefused
<1>2. TypeOK'
  BY <1>1 DEF LInv, TypeOK, Recipients
<1>3. OneRowPerRequest' /\ ReplayTellsFinalState'
  BY <1>1 DEF LInv, OneRowPerRequest, ReplayTellsFinalState, Recipients
<1>4. Remembered'
  BY <1>1 DEF LInv, Remembered, YoungerThan
<1>5. QED
  BY <1>2, <1>3, <1>4 DEF LInv

\* An update touches one delivery of a live message.
LEMMA UpdateLInv ==
  ASSUME LInv, NEW m \in messages, NEW o \in Outcomes, NEW w \in Recipients(m),
         UpdateDelivery(m, w, o)
  PROVE  LInv'
<1>1. /\ UNCHANGED <<messages, replays, result, clock, calls, born>>
      /\ delivery' = [delivery EXCEPT ![m][w] = o]
  BY DEF UpdateDelivery
<1>2. /\ DOMAIN delivery' = messages
      /\ \A x \in messages : delivery'[x] \in [Recipients(x) -> Outcomes]
  BY <1>1 DEF LInv, TypeOK
<1>3. TypeOK'
  BY <1>1, <1>2 DEF LInv, TypeOK, Recipients
<1>4. OneRowPerRequest' /\ ReplayTellsFinalState'
  BY <1>1 DEF LInv, OneRowPerRequest, ReplayTellsFinalState, Recipients
<1>5. Remembered'
  BY <1>1 DEF LInv, Remembered, YoungerThan
<1>6. QED
  BY <1>3, <1>4, <1>5 DEF LInv

\* What an insert does to the tables.
LEMMA InsertEffect ==
  ASSUME LInv, NEW c \in calls, CreateInserts(c),
         NEW P, P = Pruned(Cardinality(Recipients(c)))
  PROVE  \E R :
           /\ R \subseteq replays \cup P \cup {c}
           /\ replays \cup P \cup {c} \subseteq R
           /\ replays' = PruneMessageReplays(R)
<1> DEFINE n == Cardinality(Recipients(c))
           R == SaveMessageReplay(SaveMessageReplay(replays, Pruned(n)), {c})
<1>1. ~ Known(c.req) /\ replays' = PruneMessageReplays(R)
  BY DEF CreateInserts
<1>2. R \subseteq replays \cup P \cup {c} /\ replays \cup P \cup {c} \subseteq R
  <2>. HIDE DEF R, n
  <2>1. R = SaveMessageReplay(SaveMessageReplay(replays, Pruned(n)), {c})
    BY DEF R
  <2>2. P = Pruned(n)
    BY DEF n
  <2>3. QED
    BY <1>1, <2>1, <2>2, ReplayTable
<1>3. QED
  BY <1>1, <1>2

\* An insert keeps the invariant: the prune snapshots what it deletes, and a
\* replay record is only evicted by MessageReplayCap younger ones.
LEMMA InsertLInv ==
  ASSUME LInv, NEW c \in calls, CreateInserts(c)
  PROVE  LInv'
<1> DEFINE P == Pruned(Cardinality(Recipients(c)))
           queued == [w \in Recipients(c) |-> "queued"]
<1>1. /\ ~ Known(c.req)
      /\ calls' = calls \ {c} /\ clock' = clock
      /\ messages' = (messages \ P) \cup {c}
      /\ delivery' = [m \in messages' |-> IF m = c THEN queued ELSE delivery[m]]
      /\ result' = [x \in replays' |-> IF x = c THEN queued
                                       ELSE IF x \in P THEN delivery[x]
                                       ELSE result[x]]
      /\ born' = born \cup {c}
  BY DEF CreateInserts
<1>2. PICK R : /\ R \subseteq replays \cup P \cup {c}
               /\ replays \cup P \cup {c} \subseteq R
               /\ replays' = PruneMessageReplays(R)
  BY InsertEffect
<1>3. /\ P \subseteq messages
      /\ \A m \in P : \A w \in Recipients(m) : delivery[m][w] = "delivered"
  BY DEF Pruned, FullyDelivered
<1>4. queued \in [Recipients(c) -> Outcomes]
  BY DEF Outcomes
<1>5. replays' \subseteq R
  BY <1>2 DEF PruneMessageReplays
<1>6. \A x \in messages \cup replays : x.req # c.req /\ x # c
  BY <1>1 DEF Known
<1>7. IsFiniteSet(born')
  BY <1>1, FS_AddElement DEF LInv, TypeOK
<1>8. R \subseteq born' /\ messages' \subseteq born' /\ replays' \subseteq born'
  BY <1>1, <1>2, <1>3, <1>5 DEF LInv, TypeOK
<1>. HIDE DEF P, queued
<1>9. TypeOK'
  <2>1. /\ DOMAIN delivery' = messages'
        /\ \A m \in messages' : delivery'[m] \in [Recipients(m) -> Outcomes]
    BY <1>1, <1>4 DEF LInv, TypeOK
  <2>2. /\ DOMAIN result' = replays'
        /\ \A x \in replays' : result'[x] \in [Recipients(x) -> Outcomes]
    BY <1>1, <1>2, <1>3, <1>4, <1>5 DEF LInv, TypeOK
  <2>3. /\ born' \subseteq Row /\ calls' \subseteq Row /\ born' \cap calls' = {}
        /\ clock' \in Nat
        /\ \A x \in born' \cup calls' : x.at <= clock'
        /\ \A x, y \in born' \cup calls' : x.at = y.at => x = y
    BY <1>1 DEF LInv, TypeOK
  <2>4. QED
    BY <1>7, <1>8, <2>1, <2>2, <2>3 DEF TypeOK, Recipients
<1>10. OneRowPerRequest'
  <2>1. messages' \cup replays' \subseteq messages \cup replays \cup {c}
    BY <1>1, <1>2, <1>3, <1>5
  <2>2. QED
    BY <1>6, <2>1 DEF LInv, OneRowPerRequest
<1>11. ReplayTellsFinalState'
  <2>1. SUFFICES ASSUME NEW x \in replays', x \notin messages',
                        NEW w \in Recipients(x)
                 PROVE  result'[x][w] = "delivered"
    BY DEF ReplayTellsFinalState, Recipients
  <2>2. x # c
    BY <1>1, <2>1
  <2>3. CASE x \in P
    BY <1>1, <1>3, <2>1, <2>2, <2>3
  <2>4. CASE x \notin P
    <3>1. x \in replays /\ x \notin messages
      BY <1>1, <1>2, <1>5, <2>1, <2>2, <2>4
    <3>2. result'[x] = result[x]
      BY <1>1, <2>1, <2>2, <2>4
    <3>3. QED
      BY <2>1, <3>1, <3>2 DEF LInv, ReplayTellsFinalState
  <2>5. QED
    BY <2>3, <2>4
<1>12. Remembered'
  <2>1. SUFFICES ASSUME NEW b \in born', b \notin messages', b \notin replays'
                 PROVE  Cardinality({y \in born' : y.at > b.at}) >= ReplayCap
    BY DEF Remembered, YoungerThan
  <2>2. b \in born
    BY <1>1, <2>1
  <2>a. ReplayCap \in Nat
    BY LedgerAssumption DEF LedgerAssumption
  <2>3. CASE b \in R
    <3>1. ~ (Cardinality({y \in R : y.at > b.at}) < ReplayCap)
      BY <1>2, <2>1, <2>3 DEF PruneMessageReplays
    <3> DEFINE few == Cardinality({y \in R : y.at > b.at})
               many == Cardinality({y \in born' : y.at > b.at})
    <3>2. few \in Nat /\ many \in Nat /\ few <= many
      BY <1>7, <1>8, YoungerGrows
    <3>. HIDE DEF few, many
    <3>3. ~ (few < ReplayCap)
      BY <3>1 DEF few
    <3>4. many >= ReplayCap
      BY <2>a, <3>2, <3>3
    <3>5. QED
      BY <3>4 DEF many
  <2>4. CASE b \notin R
    <3>1. b \notin messages /\ b \notin replays
      BY <1>1, <1>2, <2>1, <2>4
    <3>2. Cardinality({y \in born : y.at > b.at}) >= ReplayCap
      BY <2>2, <3>1 DEF LInv, Remembered, YoungerThan
    <3>3. born \subseteq born'
      BY <1>1
    <3> DEFINE few == Cardinality({y \in born : y.at > b.at})
               many == Cardinality({y \in born' : y.at > b.at})
    <3>4. few \in Nat /\ many \in Nat /\ few <= many
      BY <1>7, <3>3, YoungerGrows
    <3>. HIDE DEF few, many
    <3>5. few >= ReplayCap
      BY <3>2 DEF few
    <3>6. many >= ReplayCap
      BY <2>a, <3>4, <3>5
    <3>7. QED
      BY <3>6 DEF many
  <2>5. QED
    BY <2>3, <2>4
<1>13. QED
  BY <1>9, <1>10, <1>11, <1>12 DEF LInv

\* The invariant is inductive.
LEMMA NextLInv == LInv /\ [Next]_vars => LInv'
<1>1. SUFFICES ASSUME LInv, [Next]_vars PROVE LInv'
  OBVIOUS
<1>2. CASE \E r \in Requests, p \in Payloads : Stamp(r, p)
  BY <1>1, <1>2, StampLInv
<1>3. CASE \E c \in calls : CreateMessage(c)
  BY <1>1, <1>3, AnsweredLInv, InsertLInv DEF CreateMessage
<1>4. CASE \E m \in messages, o \in Outcomes :
             \E w \in Recipients(m) : UpdateDelivery(m, w, o)
  BY <1>1, <1>4, UpdateLInv
<1>5. CASE UNCHANGED vars
  <2>1. TypeOK' /\ OneRowPerRequest' /\ ReplayTellsFinalState'
    BY <1>1, <1>5 DEF LInv, TypeOK, OneRowPerRequest, ReplayTellsFinalState,
                      Recipients, vars
  <2>2. Remembered'
    BY <1>1, <1>5 DEF LInv, Remembered, YoungerThan, vars
  <2>3. QED
    BY <2>1, <2>2 DEF LInv
<1>6. QED
  BY <1>1, <1>2, <1>3, <1>4, <1>5 DEF Next

\* One row per request, final replay answers and remembered requests hold in
\* every reachable state of the message tables.
THEOREM LedgerInvariance == Spec => []LInv
<1>1. QED
  BY InitLInv, NextLInv, PTL DEF Spec

\* An insert with no room for one more message or delivery never happens.
LEMMA InsertQuotas ==
  ASSUME LInv, NEW c \in calls, CreateInserts(c)
  PROVE  QuotasHold'
<1> DEFINE n == Cardinality(Recipients(c))
           P == Pruned(n)
           M == messages \ P
           Slots(X) == {d \in X \X Workers : d[2] \in Recipients(d[1])}
           new == {c} \X Recipients(c)
<1>a. /\ RetentionCap \in Nat /\ DeliveryCap \in Nat /\ ReplayCap \in Nat
      /\ IsFiniteSet(Workers)
  BY LedgerAssumption DEF LedgerAssumption
<1>1. /\ Cardinality(M) < RetentionCap
      /\ Cardinality(Slots(M)) + n <= DeliveryCap
      /\ messages' = M \cup {c}
      /\ born' = born \cup {c}
  BY DEF CreateInserts, Fits, DeliveryRows
<1>2. c \in Row /\ Recipients(c) \subseteq Workers
  BY LedgerAssumption DEF LedgerAssumption, LInv, TypeOK, Recipients, Row
<1>3. IsFiniteSet(messages) /\ IsFiniteSet(M)
  BY FS_Subset, FS_Difference DEF LInv, TypeOK
<1>4. Cardinality(M) \in Nat /\ Cardinality(messages') <= Cardinality(M) + 1
  <2>. HIDE DEF M
  <2>1. QED
    BY <1>1, <1>3, FS_AddElement, FS_CardinalityType
<1>5. Cardinality(messages') <= RetentionCap
  <2>1. Cardinality(messages') \in Nat
    BY <1>1, <1>3, FS_AddElement, FS_CardinalityType
  <2>. HIDE DEF M
  <2>2. QED
    BY <1>1, <1>4, <1>a, <2>1
<1>6. DeliveryRows(messages') <= DeliveryCap
  <2>1. Slots(M \cup {c}) = Slots(M) \cup new
    BY <1>2
  <2>2. IsFiniteSet(M \X Workers)
    BY <1>3, <1>a, FS_Product
  <2>3. IsFiniteSet(Slots(M))
    BY <2>2, FS_Subset
  <2>4. IsFiniteSet(Recipients(c)) /\ n \in Nat
    BY <1>2, <1>a, FS_Subset, FS_CardinalityType
  <2>5. IsFiniteSet(new) /\ Cardinality(new) = n
    <3>1. IsFiniteSet({c}) /\ Cardinality({c}) = 1
      BY FS_Singleton
    <3>2. IsFiniteSet(new) /\ Cardinality(new) = 1 * n
      BY <2>4, <3>1, FS_Product
    <3>. HIDE DEF n, new
    <3>3. QED
      BY <2>4, <3>2
  <2> DEFINE old == Slots(M)
  <2>6. DeliveryRows(messages') = Cardinality(old \cup new)
    BY <1>1, <2>1 DEF DeliveryRows, Recipients
  <2>7. Cardinality(old) + n <= DeliveryCap
    BY <1>1
  <2>8. IsFiniteSet(old)
    BY <2>3
  <2>. HIDE DEF old, new, n
  <2>9. /\ Cardinality(old \cup new)
             = Cardinality(old) + Cardinality(new) - Cardinality(old \cap new)
        /\ IsFiniteSet(old \cap new)
    BY <2>5, <2>8, FS_Union, FS_Intersection
  <2>10. Cardinality(old) \in Nat /\ Cardinality(old \cap new) \in Nat
    BY <2>8, <2>9, FS_CardinalityType
  <2>11. Cardinality(old \cup new) <= DeliveryCap
    BY <1>a, <2>4, <2>5, <2>7, <2>9, <2>10
  <2>12. QED
    BY <2>6, <2>11
<1>7. Cardinality(replays') <= ReplayCap
  <2>1. PICK R : /\ R \subseteq replays \cup P \cup {c}
                 /\ replays' = PruneMessageReplays(R)
    BY InsertEffect
  <2>2. R \subseteq born \cup {c}
    BY <2>1 DEF Pruned, FullyDelivered, LInv, TypeOK
  <2>3. IsFiniteSet(R)
    <3>1. IsFiniteSet(born \cup {c})
      BY FS_AddElement DEF LInv, TypeOK
    <3>2. QED
      BY <2>2, <3>1, FS_Subset
  <2>4. /\ \A x \in R : x.at \in Nat
        /\ \A x, y \in R : x.at = y.at => x = y
    BY <2>2 DEF LInv, TypeOK, Row
  <2>5. QED
    BY <2>1, <2>3, <2>4, KeptIsBounded
<1>8. QED
  BY <1>5, <1>6, <1>7 DEF QuotasHold

\* The message, delivery and replay quotas hold in every reachable state,
\* although an insert may fan out to several recipients.
THEOREM Quotas == Spec => []QuotasHold
<1>1. Init => QuotasHold
  <2>1. SUFFICES ASSUME Init PROVE QuotasHold
    OBVIOUS
  <2>2. {d \in messages \X Workers : d[2] \in Recipients(d[1])} = {}
    BY <2>1 DEF Init
  <2>3. Cardinality(messages) = 0 /\ DeliveryRows(messages) = 0
        /\ Cardinality(replays) = 0
    BY <2>1, <2>2, FS_EmptySet DEF Init, DeliveryRows
  <2>4. QED
    BY <2>3, LedgerAssumption DEF LedgerAssumption, QuotasHold
<1>2. LInv /\ QuotasHold /\ [Next]_vars => QuotasHold'
  <2>1. SUFFICES ASSUME LInv, QuotasHold, [Next]_vars PROVE QuotasHold'
    OBVIOUS
  <2>2. CASE UNCHANGED <<messages, replays>>
    BY <2>1, <2>2 DEF QuotasHold, DeliveryRows, Recipients
  <2>3. CASE \E c \in calls : CreateInserts(c)
    BY <2>1, <2>3, InsertQuotas
  <2>4. QED
    BY <2>1, <2>2, <2>3 DEF Next, Stamp, CreateMessage, CreateKnown,
                            CreateRefused, UpdateDelivery, vars
<1>3. QED
  BY <1>1, <1>2, LedgerInvariance, PTL DEF Spec

\* Reusing a request ID creates a second message only after MessageReplayCap
\* younger messages, whatever order calls commit in and whatever is pruned.
THEOREM Duplicates == Spec => NoEarlyDuplicate
<1>1. LInv /\ [Next]_vars =>
        [\A b \in born, c \in born' \ born :
           b.req = c.req => YoungerThan(b) >= ReplayCap]_vars
  <2>1. SUFFICES ASSUME LInv, [Next]_vars,
                        NEW b \in born, NEW c \in born' \ born, b.req = c.req
                 PROVE  YoungerThan(b) >= ReplayCap
    OBVIOUS
  <2>2. PICK d \in calls : CreateInserts(d)
    BY <2>1 DEF Next, Stamp, CreateMessage, CreateKnown, CreateRefused,
                UpdateDelivery, vars
  <2>3. c = d /\ ~ Known(d.req)
    BY <2>1, <2>2 DEF CreateInserts
  <2>4. b \notin messages /\ b \notin replays
    BY <2>1, <2>3 DEF Known
  <2>5. QED
    BY <2>1, <2>4 DEF LInv, Remembered
<1>2. QED
  BY <1>1, LedgerInvariance, PTL DEF Spec, NoEarlyDuplicate

\* No message leaves the ledger while a recipient has not received it.
THEOREM Pending == Spec => PendingNeverDropped
<1>1. [Next]_vars =>
        [\A m \in messages \ messages' :
           \A w \in Recipients(m) : delivery[m][w] = "delivered"]_vars
  <2>1. SUFFICES ASSUME [Next]_vars, NEW m \in messages \ messages'
                 PROVE  \A w \in Recipients(m) : delivery[m][w] = "delivered"
    OBVIOUS
  <2>2. PICK c \in calls : CreateInserts(c)
    BY <2>1 DEF Next, Stamp, CreateMessage, CreateKnown, CreateRefused,
                UpdateDelivery, vars
  <2>3. m \in Pruned(Cardinality(Recipients(c)))
    BY <2>1, <2>2 DEF CreateInserts
  <2>4. QED
    BY <2>3 DEF Pruned, FullyDelivered
<1>2. QED
  BY <1>1, PTL DEF Spec, PendingNeverDropped

-----------------------------------------------------------------------------
(* Decisions: the inductive invariant (instance D).                        *)

WorkerRows ==
  [status : {"idle"}, parent : Authors \cup {None}, issue : Issues \cup {BadIssue, None},
   thread : STRING, host : {Host} \cup AttachHosts]
LineFields == {"target", "operation", "issue", "author", "evidence", "clear"}
DecisionFields ==
  {"status", "req", "fp", "operation", "issue", "author", "evidence", "gaps", "supersedes", "supersededBy"}

DecisionTypes ==
  /\ ledger \in [Authors -> WorkerRows \cup {D!Absent}]
  /\ pc \in [D!Commands -> {"off", "begun", "built", "classified", "answered", "refused"}]
  /\ DOMAIN req = D!Commands /\ DOMAIN line = D!Commands /\ DOMAIN input = D!Commands
  /\ DOMAIN draft = D!Commands /\ DOMAIN decisions = D!Commands

\* The issue of an author, and whether an input has one and its operation agrees with its issue.
AuthorIssue(a) == IF a \in D!Rows(ledger) /\ ledger[a].issue \in Issues THEN ledger[a].issue ELSE None
InputIssue(in) == D!First(in.issue, AuthorIssue(in.author))
Agrees(in) ==
  /\ in.author # None
  /\ in.operation = None \/ InputIssue(in) = None \/ in.operation = D!IssueKey(InputIssue(in))

\* A command that went on from its line: what it completed can be completed again.
InputFits(k) ==
  /\ line[k] \in Lines
  /\ \/ line[k].target = None /\ input[k] = D!Completed(line[k], D!NoPrior)
     \/ line[k].target \in D!Commands /\ D!Exists(line[k].target) /\ input[k] = D!Completed(line[k], decisions[line[k].target])
  /\ input[k].author \in D!Rows(ledger) \cup {Mistyped, None}
  /\ input[k].evidence \ D!Keys \subseteq D!Nameable

\* A decision of a command, composed or recorded, is of its input, and has no gap only if
\* all was found.
RowFits(k, row) ==
  /\ DOMAIN row = DecisionFields /\ row.status = "current"
  /\ row.req = req[k] /\ row.fp = input[k] /\ row.author = input[k].author
  /\ row.evidence = input[k].evidence /\ row.supersedes = line[k].target
  /\ row.gaps = {} => row.author \in D!Rows(ledger) /\ Mistyped \notin row.evidence
  /\ Agrees(input[k])

CommandFits(k) ==
  /\ pc[k] \in {"begun", "built", "classified"} \/ D!Exists(k) => InputFits(k)
  /\ pc[k] \in {"built", "classified"} => RowFits(k, draft[k]) /\ draft[k].supersededBy = None
  /\ D!Exists(k) => pc[k] = "answered" /\ RowFits(k, decisions[k])
CommandsFit == \A k \in D!Commands : CommandFits(k)

\* A request is on record once.
OnePerRequest ==
  \A d, e \in D!Commands : D!Exists(d) /\ D!Exists(e) /\ decisions[d].req = decisions[e].req => d = e

\* What supersedes is recorded.
Successors ==
  \A d \in D!Commands : D!Exists(d) =>
    decisions[d].supersededBy = None \/
      (decisions[d].supersededBy \in D!Commands /\ D!Exists(decisions[d].supersededBy))

DecisionInv == DecisionTypes /\ CommandsFit /\ OnePerRequest /\ Successors /\ D!OneSuccessor

LEMMA DecisionConstants ==
  /\ None \notin Authors /\ None \notin D!Commands /\ Mistyped \notin Authors /\ Mistyped \notin D!Commands
  /\ Mistyped # None /\ Mistyped \notin D!Keys /\ Authors \cap D!Keys = {} /\ None \notin Issues
  /\ ThreadOf \in [Authors -> STRING]
  /\ \A l \in Lines : /\ DOMAIN l = LineFields /\ l.target \in D!Commands \cup {None, Mistyped}
                      /\ l.author \in Authors \cup {Mistyped, None}
<1>1. \A l \in Lines : l \in D!CommandLines
  BY EvidenceAssumption DEF D!DecisionsAssumption
<1>2. \A l \in Lines : /\ DOMAIN l = LineFields /\ l.target \in D!Commands \cup {None, Mistyped}
                       /\ l.author \in Authors \cup {Mistyped, None}
  BY <1>1 DEF D!CommandLines, LineFields
<1>3. QED
  BY <1>2, EvidenceAssumption DEF D!DecisionsAssumption, D!OperationAssumption

\* A row of the ledger keeps its issue, and a decision all but its successor.
LedgerGrows ==
  \A w \in Authors : ledger[w] # D!Absent => ledger'[w] # D!Absent /\ ledger'[w].issue = ledger[w].issue
DecisionsGrow ==
  \A d \in D!Commands : D!Exists(d) =>
    /\ D!Exists(d)' /\ DOMAIN decisions'[d] = DOMAIN decisions[d]
    /\ decisions'[d].status = decisions[d].status /\ decisions'[d].req = decisions[d].req
    /\ decisions'[d].fp = decisions[d].fp /\ decisions'[d].operation = decisions[d].operation
    /\ decisions'[d].issue = decisions[d].issue /\ decisions'[d].author = decisions[d].author
    /\ decisions'[d].evidence = decisions[d].evidence /\ decisions'[d].gaps = decisions[d].gaps
    /\ decisions'[d].supersedes = decisions[d].supersedes
Grows == LedgerGrows /\ DecisionsGrow

LEMMA RowsGrow ==
  ASSUME Grows
  PROVE  D!Rows(ledger) \subseteq D!Rows(ledger)' /\ D!Nameable \subseteq D!Nameable'
<1>1. D!Rows(ledger) \subseteq D!Rows(ledger)'
  BY DEF Grows, LedgerGrows, D!Rows
<1>2. \A d \in D!Commands : D!Exists(d) => D!Exists(d)'
  BY DEF Grows, DecisionsGrow
<1>3. QED
  BY <1>1, <1>2 DEF D!Nameable

LEMMA InputKeeps ==
  ASSUME Grows, NEW k \in D!Commands, line'[k] = line[k], input'[k] = input[k], InputFits(k)
  PROVE  InputFits(k)'
<1>1. input[k].author \in D!Rows(ledger)' \cup {Mistyped, None} /\ input[k].evidence \ D!Keys \subseteq D!Nameable'
  BY RowsGrow DEF InputFits
<1>2. ASSUME line[k].target \in D!Commands, D!Exists(line[k].target), input[k] = D!Completed(line[k], decisions[line[k].target])
      PROVE  D!Exists(line[k].target)' /\ input'[k] = D!Completed(line[k], decisions[line[k].target])'
  <2>1. PICK t \in D!Commands : t = line[k].target
    BY <1>2
  <2>2. D!Exists(t)
    BY <1>2, <2>1
  <2>3. D!Exists(t)' /\ decisions'[t].operation = decisions[t].operation /\ decisions'[t].issue = decisions[t].issue
        /\ decisions'[t].author = decisions[t].author /\ decisions'[t].evidence = decisions[t].evidence
    BY <2>2 DEF Grows, DecisionsGrow
  <2>4. D!Exists(line[k].target)'
    BY <2>1, <2>3 DEF D!Exists
  <2>5. input'[k] = D!Completed(line[k], decisions[line[k].target])'
    BY <1>2, <2>1, <2>3 DEF D!Completed, D!First
  <2>6. QED
    BY <2>4, <2>5
<1>3. QED
  BY <1>1, <1>2 DEF InputFits

\* Agreement does not change as the ledger grows, because an author is there already or never.
LEMMA AgreesKeeps ==
  ASSUME Grows, NEW k \in D!Commands, input'[k] = input[k], InputFits(k)
  PROVE  Agrees(input[k])' <=> Agrees(input[k])
<1>1. PICK a : a = input[k].author
  OBVIOUS
<1>2. a \in D!Rows(ledger) \cup {Mistyped, None}
  BY <1>1 DEF InputFits
<1>3. AuthorIssue(a)' = AuthorIssue(a)
  <2>1. CASE a \in D!Rows(ledger)
    <3>1. a \in D!Rows(ledger)' /\ ledger'[a].issue = ledger[a].issue
      BY <2>1, RowsGrow DEF Grows, LedgerGrows, D!Rows
    <3>2. QED
      BY <2>1, <3>1 DEF AuthorIssue
  <2>2. CASE a \in {Mistyped, None}
    BY <2>2, DecisionConstants DEF AuthorIssue, D!Rows
  <2>3. QED
    BY <1>2, <2>1, <2>2
<1>4. AuthorIssue(input[k].author)' = AuthorIssue(input[k].author)
  BY <1>1, <1>3 DEF AuthorIssue
<1>5. InputIssue(input[k])' = InputIssue(input[k])
  BY <1>4 DEF InputIssue, D!First
<1>6. QED
  BY <1>5 DEF Agrees, D!IssueKey

LEMMA RowKeeps ==
  ASSUME Grows, NEW k \in D!Commands, line'[k] = line[k], input'[k] = input[k], req'[k] = req[k],
         InputFits(k), NEW row, RowFits(k, row)
  PROVE  RowFits(k, row)'
<1>1. Agrees(input[k])'
  BY AgreesKeeps DEF RowFits
<1>2. QED
  BY <1>1, RowsGrow DEF RowFits

\* What a command fits, it fits after steps of the others.
LEMMA CommandKeeps ==
  ASSUME DecisionInv, Grows, NEW k \in D!Commands, line'[k] = line[k], input'[k] = input[k], req'[k] = req[k],
         pc'[k] = pc[k], draft'[k] = draft[k], D!Exists(k)' => D!Exists(k)
  PROVE  CommandFits(k)'
<1>1. CommandFits(k)
  BY DEF DecisionInv, CommandsFit
<1>2. pc'[k] \in {"begun", "built", "classified"} \/ D!Exists(k)' => InputFits(k)'
  BY <1>1, InputKeeps DEF CommandFits
<1>3. pc'[k] \in {"built", "classified"} => RowFits(k, draft[k])' /\ draft'[k].supersededBy = None
  <2>1. SUFFICES ASSUME pc[k] \in {"built", "classified"} PROVE RowFits(k, draft[k])' /\ draft'[k].supersededBy = None
    OBVIOUS
  <2>2. PICK row : row = draft[k]
    OBVIOUS
  <2>3. InputFits(k) /\ RowFits(k, row) /\ row.supersededBy = None
    BY <1>1, <2>1, <2>2 DEF CommandFits
  <2>4. RowFits(k, row)'
    BY <2>3, RowKeeps
  <2>5. QED
    BY <2>2, <2>3, <2>4 DEF RowFits
<1>4. D!Exists(k)' => pc'[k] = "answered" /\ RowFits(k, decisions[k])'
  <2>1. SUFFICES ASSUME D!Exists(k)' PROVE pc[k] = "answered" /\ RowFits(k, decisions[k])'
    OBVIOUS
  <2>2. PICK row : row = decisions[k]
    OBVIOUS
  <2>3. D!Exists(k) /\ InputFits(k) /\ RowFits(k, row) /\ pc[k] = "answered"
    BY <1>1, <2>1, <2>2 DEF CommandFits
  <2>4. RowFits(k, row)'
    BY <2>3, RowKeeps
  <2>5. /\ DOMAIN decisions'[k] = DOMAIN row /\ decisions'[k].status = row.status /\ decisions'[k].req = row.req
        /\ decisions'[k].fp = row.fp /\ decisions'[k].author = row.author /\ decisions'[k].evidence = row.evidence
        /\ decisions'[k].gaps = row.gaps /\ decisions'[k].supersedes = row.supersedes
    BY <2>2, <2>3 DEF Grows, DecisionsGrow
  <2>6. QED
    BY <2>3, <2>4, <2>5 DEF RowFits
<1>5. QED
  BY <1>2, <1>3, <1>4 DEF CommandFits

LEMMA DecisionInit == D!Init => DecisionInv
<1>1. SUFFICES ASSUME D!Init PROVE DecisionInv
  OBVIOUS
<1>2. \A k \in D!Commands : ~D!Exists(k) /\ pc[k] = "off"
  BY <1>1 DEF D!Init, D!Exists
<1>3. DecisionTypes
  BY <1>1 DEF D!Init, DecisionTypes
<1>4. CommandsFit
  BY <1>2 DEF CommandsFit, CommandFits
<1>5. QED
  BY <1>2, <1>3, <1>4 DEF DecisionInv, OnePerRequest, Successors, D!OneSuccessor

\* The table as a whole is as it was when no decision is written.
LEMMA TableKeeps ==
  ASSUME DecisionInv, decisions' = decisions
  PROVE  OnePerRequest' /\ Successors' /\ D!OneSuccessor' /\ DecisionsGrow /\ \A k \in D!Commands : D!Exists(k)' <=> D!Exists(k)
<1>1. \A k \in D!Commands : D!Exists(k)' <=> D!Exists(k)
  BY DEF D!Exists
<1>2. OnePerRequest'
  BY <1>1 DEF DecisionInv, OnePerRequest
<1>3. Successors'
  <2>1. SUFFICES ASSUME NEW d \in D!Commands, D!Exists(d), decisions[d].supersededBy # None
                 PROVE  decisions[d].supersededBy \in D!Commands /\ D!Exists(decisions[d].supersededBy)'
    BY <1>1 DEF Successors
  <2>2. decisions[d].supersededBy \in D!Commands /\ D!Exists(decisions[d].supersededBy)
    BY <2>1 DEF DecisionInv, Successors
  <2>3. QED
    BY <2>2 DEF D!Exists
<1>4. D!OneSuccessor'
  BY <1>1 DEF DecisionInv, D!OneSuccessor
<1>5. QED
  BY <1>1, <1>2, <1>3, <1>4 DEF DecisionsGrow

LEMMA LedgerStepKeeps ==
  ASSUME DecisionInv, ledger' \in [Authors -> WorkerRows \cup {D!Absent}], LedgerGrows,
         decisions' = decisions, UNCHANGED D!command
  PROVE  DecisionInv'
<1>1. pc' = pc /\ req' = req /\ line' = line /\ input' = input /\ draft' = draft
  BY DEF D!command
<1>2. /\ OnePerRequest' /\ Successors' /\ D!OneSuccessor' /\ DecisionsGrow
      /\ \A k \in D!Commands : D!Exists(k)' <=> D!Exists(k)
  BY TableKeeps
<1>3. \A k \in D!Commands : CommandFits(k)'
  BY <1>1, <1>2, CommandKeeps DEF Grows
<1>4. DecisionTypes'
  BY <1>1 DEF DecisionInv, DecisionTypes
<1>5. QED
  BY <1>2, <1>3, <1>4 DEF DecisionInv, CommandsFit

LEMMA NewWorkerKeeps ==
  ASSUME DecisionInv, NEW w \in Authors, NEW p \in Authors \cup {None}, NEW i \in Issues \cup {BadIssue, None},
         D!NewWorker(w, p, i)
  PROVE  DecisionInv'
<1> DEFINE row == [status |-> "idle", parent |-> p, issue |-> i, thread |-> ThreadOf[w], host |-> Host]
<1>1. ledger' = [ledger EXCEPT ![w] = row] /\ ledger[w] = D!Absent /\ decisions' = decisions /\ UNCHANGED D!command
  BY DEF D!NewWorker
<1>2. row \in WorkerRows
  BY DecisionConstants DEF WorkerRows
<1>3. ledger \in [Authors -> WorkerRows \cup {D!Absent}]
  BY DEF DecisionInv, DecisionTypes
<1>4. ledger' \in [Authors -> WorkerRows \cup {D!Absent}] /\ LedgerGrows
  <2> HIDE DEF row
  <2>1. QED
    BY <1>1, <1>2, <1>3 DEF LedgerGrows
<1>5. QED
  BY <1>1, <1>4, LedgerStepKeeps

LEMMA AttachKeeps ==
  ASSUME DecisionInv, NEW w \in Authors, NEW p \in Authors \cup {None}, NEW t \in D!Threads,
         NEW h \in AttachHosts, D!Attach(w, p, t, h)
  PROVE  DecisionInv'
<1>1. /\ ledger' = [ledger EXCEPT ![w] = [ledger[w] EXCEPT !.parent = D!First(p, ledger[w].parent),
                                                           !.thread = t, !.host = h]]
      /\ ledger[w] # D!Absent /\ decisions' = decisions /\ UNCHANGED D!command
  BY DEF D!Attach
<1>2. ledger \in [Authors -> WorkerRows \cup {D!Absent}]
  BY DEF DecisionInv, DecisionTypes
<1>3. PICK row \in WorkerRows : row = ledger[w]
  BY <1>1, <1>2
<1>4. PICK new : new = [row EXCEPT !.parent = D!First(p, row.parent), !.thread = t, !.host = h]
  OBVIOUS
<1>5. new \in WorkerRows /\ new.issue = row.issue
  <2>1. t \in STRING
    BY DecisionConstants DEF D!Threads
  <2>2. D!First(p, row.parent) \in Authors \cup {None}
    BY DEF D!First, WorkerRows
  <2>3. QED
    BY <1>4, <2>1, <2>2 DEF WorkerRows
<1>6. new # D!Absent
  <2>1. new.status = "idle"
    BY <1>5 DEF WorkerRows
  <2>2. D!Absent.status = "absent"
    BY DEF D!Absent
  <2>3. QED
    BY <2>1, <2>2
<1>7. ledger' = [ledger EXCEPT ![w] = new]
  BY <1>1, <1>3, <1>4
<1>8. ledger' \in [Authors -> WorkerRows \cup {D!Absent}]
  BY <1>2, <1>5, <1>7
<1>9. LedgerGrows
  BY <1>2, <1>3, <1>5, <1>6, <1>7 DEF LedgerGrows
<1>10. QED
  BY <1>1, <1>8, <1>9, LedgerStepKeeps

\* A step of one command that writes no decision: only what it fits itself is left to show.
LEMMA OwnStepKeeps ==
  ASSUME DecisionInv, NEW k \in D!Commands, ledger' = ledger, decisions' = decisions,
         pc' \in [D!Commands -> {"off", "begun", "built", "classified", "answered", "refused"}],
         DOMAIN req' = D!Commands, DOMAIN line' = D!Commands, DOMAIN input' = D!Commands, DOMAIN draft' = D!Commands,
         \A j \in D!Commands : j # k =>
           /\ pc'[j] = pc[j] /\ req'[j] = req[j] /\ line'[j] = line[j] /\ input'[j] = input[j] /\ draft'[j] = draft[j],
         CommandFits(k)'
  PROVE  DecisionInv'
<1>1. /\ OnePerRequest' /\ Successors' /\ D!OneSuccessor' /\ DecisionsGrow
      /\ \A j \in D!Commands : D!Exists(j)' <=> D!Exists(j)
  BY TableKeeps
<1>2. Grows
  BY <1>1 DEF Grows, LedgerGrows
<1>3. \A j \in D!Commands : CommandFits(j)'
  BY <1>1, <1>2, CommandKeeps
<1>4. DecisionTypes'
  BY DEF DecisionInv, DecisionTypes
<1>5. QED
  BY <1>1, <1>3, <1>4 DEF DecisionInv, CommandsFit

\* What a line names is there, and what is inherited was there.
LEMMA BeginKeeps ==
  ASSUME DecisionInv, NEW k \in D!Commands, NEW r \in DecisionRequests, NEW l \in Lines, D!Begin(k, r, l)
  PROVE  DecisionInv'
<1>1. /\ pc[k] = "off" /\ D!Names(l) \subseteq D!Nameable
      /\ req' = [req EXCEPT ![k] = r] /\ line' = [line EXCEPT ![k] = l]
      /\ ledger' = ledger /\ decisions' = decisions /\ draft' = draft
  BY DEF D!Begin
<1>2. \/ l.target = None /\ input' = [input EXCEPT ![k] = D!Completed(l, D!NoPrior)] /\ pc' = [pc EXCEPT ![k] = "begun"]
      \/ /\ l.target \in D!Commands /\ input' = [input EXCEPT ![k] = D!Completed(l, decisions[l.target])]
         /\ pc' = [pc EXCEPT ![k] = "begun"]
      \/ input' = input /\ pc' = [pc EXCEPT ![k] = "refused"]
  BY DEF D!Begin, D!Goes
<1>3. /\ pc \in [D!Commands -> {"off", "begun", "built", "classified", "answered", "refused"}]
      /\ DOMAIN req = D!Commands /\ DOMAIN line = D!Commands /\ DOMAIN input = D!Commands /\ DOMAIN draft = D!Commands
  BY DEF DecisionInv, DecisionTypes
<1>4. ~D!Exists(k) /\ ~D!Exists(k)'
  <2>1. ~D!Exists(k)
    BY <1>1 DEF DecisionInv, CommandsFit, CommandFits
  <2>2. QED
    BY <1>1, <2>1 DEF D!Exists
<1>5. line'[k] = l /\ pc'[k] \in {"begun", "refused"}
  BY <1>1, <1>2, <1>3
<1>6. DOMAIN l = LineFields /\ l.author \in Authors \cup {Mistyped, None}
  BY DecisionConstants
<1>7. l.author \in D!Rows(ledger) \cup {Mistyped, None}
  <2>1. SUFFICES ASSUME l.author \in Authors PROVE l.author \in D!Rows(ledger)
    BY <1>6
  <2>2. l.author \in D!Names(l)
    BY <2>1, DecisionConstants DEF D!Names
  <2>3. l.author # Mistyped /\ l.author \notin D!Keys
    BY <2>1, DecisionConstants
  <2>4. l.author \in D!Nameable
    BY <1>1, <2>2
  <2>5. CASE l.author \in {D!DecisionRef(d) : d \in {c \in D!Commands : D!Exists(c)}}
    <3>1. \A d \in D!Commands : D!DecisionRef(d) \notin Authors
      BY EvidenceAssumption DEF D!DecisionsAssumption
    <3>2. QED
      BY <2>1, <2>5, <3>1
  <2>6. QED
    BY <2>3, <2>4, <2>5 DEF D!Nameable
<1>8. l.evidence \ D!Keys \subseteq D!Nameable
  BY <1>1 DEF D!Names
<1>9. D!Rows(ledger)' = D!Rows(ledger) /\ D!Nameable' = D!Nameable
  BY <1>1 DEF D!Rows, D!Nameable, D!Exists
<1>10. ASSUME pc'[k] = "begun" PROVE InputFits(k)'
  <2>1. CASE l.target = None /\ input' = [input EXCEPT ![k] = D!Completed(l, D!NoPrior)]
    <3>1. input'[k] = D!Completed(l, D!NoPrior)
      BY <1>3, <2>1
    <3>2. /\ input'[k].author = D!First(l.author, None)
          /\ input'[k].evidence = IF l.evidence = {} /\ ~l.clear THEN {} ELSE l.evidence
      BY <3>1 DEF D!Completed, D!NoPrior
    <3>3. input'[k].author \in D!Rows(ledger)' \cup {Mistyped, None} /\ input'[k].evidence \ D!Keys \subseteq D!Nameable'
      BY <1>7, <1>8, <1>9, <3>2 DEF D!First
    <3>4. QED
      BY <1>5, <2>1, <3>1, <3>3 DEF InputFits
  <2>2. CASE l.target \in D!Commands /\ input' = [input EXCEPT ![k] = D!Completed(l, decisions[l.target])]
    <3>1. PICK t \in D!Commands : t = l.target
      BY <2>2
    <3>2. PICK prior : prior = decisions[t]
      OBVIOUS
    <3>3. D!DecisionRef(t) \in D!Names(l) \cup D!Keys
      BY <3>1 DEF D!Names
    <3>4. D!DecisionRef(t) \notin D!Keys
      BY DEF D!Keys, D!DecisionRef, D!IssueKey, D!WorkerKey
    <3>5. D!DecisionRef(t) \in D!Nameable
      BY <1>1, <3>3, <3>4
    <3>6. D!Exists(t)
      <4>1. D!DecisionRef(t) \notin Authors \cup {Mistyped}
        BY EvidenceAssumption DEF D!DecisionsAssumption
      <4>2. PICK d \in D!Commands : D!Exists(d) /\ D!DecisionRef(t) = D!DecisionRef(d)
        BY <3>5, <4>1 DEF D!Nameable, D!Rows
      <4>3. QED
        BY <4>2 DEF D!DecisionRef
    <3>7. CommandFits(t)
      BY DEF DecisionInv, CommandsFit
    <3>8. /\ prior.author = input[t].author /\ prior.evidence = input[t].evidence
          /\ input[t].author \in D!Rows(ledger) \cup {Mistyped, None} /\ input[t].evidence \ D!Keys \subseteq D!Nameable
      BY <3>2, <3>6, <3>7 DEF CommandFits, RowFits, InputFits
    <3>9. input'[k] = D!Completed(l, prior)
      BY <1>3, <2>2, <3>1, <3>2
    <3>10. input'[k].author = D!First(l.author, prior.author)
           /\ input'[k].evidence = IF l.evidence = {} /\ ~l.clear THEN prior.evidence ELSE l.evidence
      BY <3>9 DEF D!Completed
    <3>11. input'[k].author \in D!Rows(ledger)' \cup {Mistyped, None} /\ input'[k].evidence \ D!Keys \subseteq D!Nameable'
      BY <1>7, <1>8, <1>9, <3>8, <3>10 DEF D!First
    <3>12. D!Exists(line[k].target)' /\ line'[k].target \in D!Commands
      BY <1>1, <1>5, <3>1, <3>6 DEF D!Exists
    <3>13. input'[k] = D!Completed(line[k], decisions[line[k].target])'
      BY <1>1, <1>5, <3>1, <3>2, <3>9 DEF D!Completed, D!First
    <3>14. QED
      BY <1>5, <3>11, <3>12, <3>13 DEF InputFits
  <2>3. QED
    <3>1. pc' # [pc EXCEPT ![k] = "refused"]
      BY <1>3, <1>10
    <3>2. QED
      BY <1>2, <2>1, <2>2, <3>1
<1>11. CommandFits(k)'
  BY <1>4, <1>5, <1>10 DEF CommandFits
<1>12. /\ pc' \in [D!Commands -> {"off", "begun", "built", "classified", "answered", "refused"}]
       /\ DOMAIN req' = D!Commands /\ DOMAIN line' = D!Commands /\ DOMAIN input' = D!Commands /\ DOMAIN draft' = D!Commands
  BY <1>1, <1>2, <1>3
<1>13. \A j \in D!Commands : j # k =>
         /\ pc'[j] = pc[j] /\ req'[j] = req[j] /\ line'[j] = line[j] /\ input'[j] = input[j] /\ draft'[j] = draft[j]
  BY <1>1, <1>2, <1>3
<1>14. QED
  BY <1>1, <1>11, <1>12, <1>13, OwnStepKeeps

\* What Build does: it composes a decision, and refuses an input that does not agree.
LEMMA BuildComposes ==
  ASSUME DecisionInv, NEW k \in D!Commands, D!Build(k)
  PROVE  \/ pc' = [pc EXCEPT ![k] = "refused"] /\ draft' = draft /\ ~Agrees(input[k])
         \/ /\ pc' = [pc EXCEPT ![k] = "built"] /\ Agrees(input[k])
            /\ \E operation, issue, gaps :
                 /\ draft' = [draft EXCEPT ![k] = D!Draft(k, operation, issue, gaps)]
                 /\ gaps = {} => /\ input[k].author \in D!Rows(ledger)
                                 /\ \E view : D!SnapshotGaps(input[k].evidence, view) = {}
<1> DEFINE in == input[k]
           resolution == D!Resolution
           view == D!View
           known == in.author \in D!Rows(ledger)
           authorIssue == IF known /\ ledger[in.author].issue \in Issues THEN ledger[in.author].issue ELSE None
           issue == D!First(in.issue, authorIssue)
           operation == IF issue # None THEN D!IssueKey(issue)
                        ELSE IF in.operation # None THEN in.operation
                        ELSE IF known /\ resolution[in.author].state = "resolved" THEN resolution[in.author].key
                        ELSE None
           authorGap == IF known THEN {} ELSE {<<"author", in.author>>}
           gaps == authorGap
                     \cup (IF known /\ in.issue = None /\ ledger[in.author].issue = BadIssue
                           THEN {<<"issue", in.author>>} ELSE {})
                     \cup (IF known /\ operation = None THEN {<<"unresolved", in.author>>} ELSE {})
                     \cup (IF operation # None /\ ~D!operationViewHasKey(view, operation)
                           THEN {<<"operation", operation>>} ELSE {})
                     \cup D!SnapshotGaps(in.evidence, view)
<1>1. \/ /\ in.author = None \/ (in.operation # None /\ issue # None /\ in.operation # D!IssueKey(issue))
         /\ D!Goes(k, "refused") /\ draft' = draft
      \/ /\ in.author # None
         /\ in.operation = None \/ issue = None \/ in.operation = D!IssueKey(issue)
         /\ draft' = [draft EXCEPT ![k] = D!Draft(k, operation, issue, gaps)] /\ D!Goes(k, "built")
  BY DEF D!Build
<1>2. issue = InputIssue(in)
  BY DEF InputIssue, AuthorIssue
<1>3. gaps = {} => authorGap = {} /\ D!SnapshotGaps(in.evidence, view) = {}
  <2> HIDE DEF authorGap, operation, view
  <2>1. QED
    OBVIOUS
<1>4. authorGap = {} => known
  OBVIOUS
<1>5. (in.author # None /\ (in.operation = None \/ issue = None \/ in.operation = D!IssueKey(issue))) <=> Agrees(in)
  <2> HIDE DEF issue, in
  <2>1. QED
    BY <1>2 DEF Agrees
<1>6. CASE /\ in.author = None \/ (in.operation # None /\ issue # None /\ in.operation # D!IssueKey(issue))
           /\ D!Goes(k, "refused") /\ draft' = draft
  <2> HIDE DEF issue
  <2>1. QED
    BY <1>5, <1>6 DEF D!Goes
<1>7. CASE /\ in.author # None
           /\ in.operation = None \/ issue = None \/ in.operation = D!IssueKey(issue)
           /\ draft' = [draft EXCEPT ![k] = D!Draft(k, operation, issue, gaps)] /\ D!Goes(k, "built")
  <2>1. gaps = {} => in.author \in D!Rows(ledger) /\ \E v : D!SnapshotGaps(in.evidence, v) = {}
    <3> HIDE DEF gaps, authorGap, view
    <3>1. QED
      BY <1>3, <1>4
  <2> HIDE DEF issue, operation, gaps
  <2>2. pc' = [pc EXCEPT ![k] = "built"]
    BY <1>7 DEF D!Goes
  <2>3. QED
    BY <1>5, <1>7, <2>1, <2>2
<1>8. QED
  <2> HIDE DEF issue, operation, gaps
  <2>1. QED
    BY <1>1, <1>6, <1>7

LEMMA BuildKeeps ==
  ASSUME DecisionInv, NEW k \in D!Commands, D!Build(k)
  PROVE  DecisionInv'
<1>1. pc[k] = "begun" /\ ledger' = ledger /\ decisions' = decisions /\ req' = req /\ line' = line /\ input' = input
  BY DEF D!Build
<1>2. /\ pc \in [D!Commands -> {"off", "begun", "built", "classified", "answered", "refused"}]
      /\ DOMAIN req = D!Commands /\ DOMAIN line = D!Commands /\ DOMAIN input = D!Commands /\ DOMAIN draft = D!Commands
  BY DEF DecisionInv, DecisionTypes
<1>3. ~D!Exists(k)' /\ InputFits(k)
  <2>1. ~D!Exists(k) /\ InputFits(k)
    BY <1>1 DEF DecisionInv, CommandsFit, CommandFits
  <2>2. QED
    BY <1>1, <2>1 DEF D!Exists
<1>4. Grows
  BY <1>1, TableKeeps DEF Grows, LedgerGrows
<1>5. InputFits(k)'
  BY <1>1, <1>3, <1>4, InputKeeps
<1>6. CASE pc' = [pc EXCEPT ![k] = "refused"] /\ draft' = draft
  <2>1. CommandFits(k)'
    BY <1>2, <1>3, <1>6 DEF CommandFits
  <2>2. QED
    BY <1>1, <1>2, <1>6, <2>1, OwnStepKeeps
<1>7. ASSUME pc' = [pc EXCEPT ![k] = "built"], Agrees(input[k]), NEW operation, NEW issue, NEW gaps,
             draft' = [draft EXCEPT ![k] = D!Draft(k, operation, issue, gaps)],
             gaps = {} => input[k].author \in D!Rows(ledger) /\ \E view : D!SnapshotGaps(input[k].evidence, view) = {}
      PROVE  DecisionInv'
  <2>1. PICK row : row = D!Draft(k, operation, issue, gaps)
    OBVIOUS
  <2>2. /\ DOMAIN row = DecisionFields /\ row.status = "current" /\ row.req = req[k] /\ row.fp = input[k]
        /\ row.author = input[k].author /\ row.evidence = input[k].evidence /\ row.gaps = gaps
        /\ row.supersedes = input[k].target /\ row.supersededBy = None
    BY <2>1 DEF D!Draft, DecisionFields, D!decisionCommandFingerprint
  <2>3. input[k].target = line[k].target
    BY <1>3 DEF InputFits, D!Completed
  <2>4. gaps = {} => input[k].author \in D!Rows(ledger) /\ Mistyped \notin input[k].evidence
    BY <1>7 DEF D!SnapshotGaps
  <2>5. Agrees(input[k])'
    BY <1>1, <1>3, <1>4, <1>7, AgreesKeeps
  <2>6. D!Rows(ledger)' = D!Rows(ledger)
    BY <1>1 DEF D!Rows
  <2>7. RowFits(k, row)'
    BY <1>1, <2>2, <2>3, <2>4, <2>5, <2>6 DEF RowFits
  <2>8. draft'[k] = row
    BY <1>2, <1>7, <2>1
  <2>9. RowFits(k, draft[k])' /\ draft'[k].supersededBy = None
    BY <2>2, <2>7, <2>8 DEF RowFits
  <2>10. CommandFits(k)'
    BY <1>3, <1>5, <2>9 DEF CommandFits
  <2>11. DOMAIN draft' = D!Commands /\ \A j \in D!Commands : j # k => draft'[j] = draft[j] /\ pc'[j] = pc[j]
    BY <1>2, <1>7
  <2>12. pc' \in [D!Commands -> {"off", "begun", "built", "classified", "answered", "refused"}]
    BY <1>2, <1>7
  <2>13. QED
    BY <1>1, <1>2, <2>10, <2>11, <2>12, OwnStepKeeps
<1>8. QED
  BY <1>6, <1>7, BuildComposes

LEMMA ClassifyKeeps ==
  ASSUME DecisionInv, NEW k \in D!Commands, D!Classify(k)
  PROVE  DecisionInv'
<1>1. /\ pc[k] = "built" /\ pc' = [pc EXCEPT ![k] = "classified"]
      /\ ledger' = ledger /\ decisions' = decisions /\ req' = req /\ line' = line /\ input' = input
  BY DEF D!Classify, D!Goes
<1>2. /\ pc \in [D!Commands -> {"off", "begun", "built", "classified", "answered", "refused"}]
      /\ DOMAIN req = D!Commands /\ DOMAIN line = D!Commands /\ DOMAIN input = D!Commands /\ DOMAIN draft = D!Commands
  BY DEF DecisionInv, DecisionTypes
<1>3. PICK more : draft' = [draft EXCEPT ![k] = [draft[k] EXCEPT !.gaps = draft[k].gaps \cup more]]
  BY DEF D!Classify
<1>4. PICK row : row = draft[k]
  OBVIOUS
<1>5. PICK new : new = [row EXCEPT !.gaps = row.gaps \cup more]
  OBVIOUS
<1>6. draft'[k] = new
  BY <1>2, <1>3, <1>4, <1>5
<1>7. ~D!Exists(k) /\ InputFits(k) /\ RowFits(k, row) /\ row.supersededBy = None
  BY <1>1, <1>4 DEF DecisionInv, CommandsFit, CommandFits
<1>8. Grows
  BY <1>1, TableKeeps DEF Grows, LedgerGrows
<1>9. InputFits(k)' /\ RowFits(k, row)'
  BY <1>1, <1>7, <1>8, InputKeeps, RowKeeps
<1>10. DOMAIN row = DecisionFields
  BY <1>7 DEF RowFits
<1>11. /\ DOMAIN new = DecisionFields /\ new.gaps = row.gaps \cup more
       /\ \A f \in DecisionFields : f # "gaps" => new[f] = row[f]
  BY <1>5, <1>10 DEF DecisionFields
<1>12. /\ new.status = row.status /\ new.req = row.req /\ new.fp = row.fp /\ new.author = row.author
       /\ new.evidence = row.evidence /\ new.supersedes = row.supersedes /\ new.supersededBy = row.supersededBy
  BY <1>11 DEF DecisionFields
<1>13. new.gaps = {} => row.gaps = {}
  BY <1>11
<1>14. RowFits(k, draft[k])' /\ draft'[k].supersededBy = None
  BY <1>6, <1>7, <1>9, <1>11, <1>12, <1>13 DEF RowFits
<1>15. ~D!Exists(k)'
  BY <1>1, <1>7 DEF D!Exists
<1>16. CommandFits(k)'
  BY <1>9, <1>14, <1>15 DEF CommandFits
<1>17. DOMAIN draft' = D!Commands /\ \A j \in D!Commands : j # k => draft'[j] = draft[j] /\ pc'[j] = pc[j]
  BY <1>1, <1>2, <1>3
<1>18. pc' \in [D!Commands -> {"off", "begun", "built", "classified", "answered", "refused"}]
  BY <1>1, <1>2
<1>19. QED
  BY <1>1, <1>2, <1>16, <1>17, <1>18, OwnStepKeeps

\* A new row, the only one of its request, for a decision that nobody superseded.
LEMMA InsertKeeps ==
  ASSUME DecisionInv, NEW k \in D!Commands, pc[k] = "classified", D!Insert(k),
         D!Recorded(req[k]) = {}, draft[k].supersedes = None \/ D!Current(draft[k].supersedes),
         pc' = [pc EXCEPT ![k] = "answered"], ledger' = ledger, req' = req, line' = line, input' = input, draft' = draft
  PROVE  DecisionInv'
<1>1. PICK row : row = draft[k]
  OBVIOUS
<1>2. PICK t : t = row.supersedes
  OBVIOUS
<1>3. CommandFits(k)
  BY DEF DecisionInv, CommandsFit
<1>4. InputFits(k) /\ RowFits(k, row) /\ row.supersededBy = None /\ ~D!Exists(k)
  BY <1>1, <1>3 DEF CommandFits
<1>5. /\ pc \in [D!Commands -> {"off", "begun", "built", "classified", "answered", "refused"}]
      /\ DOMAIN req = D!Commands /\ DOMAIN line = D!Commands /\ DOMAIN input = D!Commands
      /\ DOMAIN draft = D!Commands /\ DOMAIN decisions = D!Commands
  BY DEF DecisionInv, DecisionTypes
<1>6. row.req = req[k] /\ row.status = "current" /\ DOMAIN row = DecisionFields /\ t = line[k].target
  BY <1>2, <1>4 DEF RowFits
<1>7. t = None \/ (t \in D!Commands /\ D!Exists(t) /\ t # k)
  BY <1>4, <1>6 DEF InputFits
<1>8. None \notin D!Commands
  BY DecisionConstants
<1>9. t # None => decisions[t].supersededBy = None
  BY <1>1, <1>2 DEF D!Current
<1>10. decisions' = [d \in D!Commands |->
          IF d = k THEN row ELSE IF d = t THEN [decisions[d] EXCEPT !.supersededBy = k] ELSE decisions[d]]
  BY <1>1, <1>2 DEF D!Insert
<1>11. decisions'[k] = row /\ \A d \in D!Commands : d # k /\ d # t => decisions'[d] = decisions[d]
  BY <1>10
<1>12. \A d \in D!Commands : D!Exists(d) =>
         /\ DOMAIN decisions[d] = DecisionFields /\ decisions[d].status = "current"
         /\ decisions[d].supersedes = None \/ (decisions[d].supersedes \in D!Commands /\ D!Exists(decisions[d].supersedes))
  <2>1. SUFFICES ASSUME NEW d \in D!Commands, D!Exists(d)
                 PROVE  /\ DOMAIN decisions[d] = DecisionFields /\ decisions[d].status = "current"
                        /\ decisions[d].supersedes = None
                             \/ (decisions[d].supersedes \in D!Commands /\ D!Exists(decisions[d].supersedes))
    OBVIOUS
  <2>2. InputFits(d) /\ RowFits(d, decisions[d])
    BY <2>1 DEF DecisionInv, CommandsFit, CommandFits
  <2>3. QED
    BY <2>2 DEF InputFits, RowFits
<1>13. t # None =>
         /\ DOMAIN decisions'[t] = DecisionFields /\ decisions'[t].supersededBy = k
         /\ \A f \in DecisionFields : f # "supersededBy" => decisions'[t][f] = decisions[t][f]
  <2>1. SUFFICES ASSUME t # None
                 PROVE  /\ DOMAIN decisions'[t] = DecisionFields /\ decisions'[t].supersededBy = k
                        /\ \A f \in DecisionFields : f # "supersededBy" => decisions'[t][f] = decisions[t][f]
    OBVIOUS
  <2>2. PICK old : old = decisions[t]
    OBVIOUS
  <2>3. DOMAIN old = DecisionFields
    BY <1>7, <1>12, <2>1, <2>2
  <2>4. decisions'[t] = [old EXCEPT !.supersededBy = k]
    BY <1>7, <1>10, <2>1, <2>2
  <2>5. QED
    BY <2>2, <2>3, <2>4 DEF DecisionFields
<1>14. t # None =>
         /\ decisions'[t].status = decisions[t].status /\ decisions'[t].req = decisions[t].req
         /\ decisions'[t].fp = decisions[t].fp /\ decisions'[t].operation = decisions[t].operation
         /\ decisions'[t].issue = decisions[t].issue /\ decisions'[t].author = decisions[t].author
         /\ decisions'[t].evidence = decisions[t].evidence /\ decisions'[t].gaps = decisions[t].gaps
         /\ decisions'[t].supersedes = decisions[t].supersedes
  BY <1>13 DEF DecisionFields
<1>15. \A x : x.status = "current" => x # D!Absent
  BY DEF D!Absent
<1>16. D!Exists(k)' /\ \A d \in D!Commands : d # k => (D!Exists(d)' <=> D!Exists(d))
  <2>1. D!Exists(k)'
    BY <1>6, <1>11, <1>15 DEF D!Exists
  <2>2. t # None => D!Exists(t)'
    BY <1>7, <1>12, <1>14, <1>15 DEF D!Exists
  <2>3. ASSUME NEW d \in D!Commands, d # k PROVE D!Exists(d)' <=> D!Exists(d)
    <3>1. CASE d = t
      BY <1>7, <1>8, <2>2, <3>1
    <3>2. CASE d # t
      BY <1>11, <2>3, <3>2 DEF D!Exists
    <3>3. QED
      BY <3>1, <3>2
  <2>4. QED
    BY <2>1, <2>3
<1>17. Grows
  <2>1. ASSUME NEW d \in D!Commands, D!Exists(d)
        PROVE  /\ D!Exists(d)' /\ DOMAIN decisions'[d] = DOMAIN decisions[d]
               /\ decisions'[d].status = decisions[d].status /\ decisions'[d].req = decisions[d].req
               /\ decisions'[d].fp = decisions[d].fp /\ decisions'[d].operation = decisions[d].operation
               /\ decisions'[d].issue = decisions[d].issue /\ decisions'[d].author = decisions[d].author
               /\ decisions'[d].evidence = decisions[d].evidence /\ decisions'[d].gaps = decisions[d].gaps
               /\ decisions'[d].supersedes = decisions[d].supersedes
    <3>1. d # k
      BY <1>4, <2>1
    <3>2. CASE d = t
      BY <1>8, <1>12, <1>13, <1>14, <1>16, <2>1, <3>1, <3>2
    <3>3. CASE d # t
      BY <1>11, <1>16, <2>1, <3>1, <3>3
    <3>4. QED
      BY <3>2, <3>3
  <2>2. QED
    BY <2>1 DEF Grows, LedgerGrows, DecisionsGrow
<1>18. \A j \in D!Commands : CommandFits(j)'
  <2>1. ASSUME NEW j \in D!Commands, j # k PROVE CommandFits(j)'
    BY <1>5, <1>16, <1>17, <2>1, CommandKeeps
  <2>2. CommandFits(k)'
    <3>1. InputFits(k)' /\ RowFits(k, row)'
      BY <1>4, <1>17, InputKeeps, RowKeeps
    <3>2. RowFits(k, decisions[k])'
      BY <1>11, <3>1 DEF RowFits
    <3>3. pc'[k] = "answered"
      BY <1>5
    <3>4. QED
      BY <3>1, <3>2, <3>3 DEF CommandFits
  <2>3. QED
    BY <2>1, <2>2
<1>19. OnePerRequest'
  <2>1. \A d \in D!Commands : D!Exists(d) => decisions[d].req # req[k] /\ decisions'[d].req = decisions[d].req
    BY <1>17 DEF D!Recorded, Grows, DecisionsGrow
  <2>2. decisions'[k].req = req[k]
    BY <1>6, <1>11
  <2>3. QED
    BY <1>16, <2>1, <2>2 DEF DecisionInv, OnePerRequest
<1>20. \A d \in D!Commands : d # k /\ D!Exists(d) => decisions'[d].supersededBy = IF d = t THEN k ELSE decisions[d].supersededBy
  BY <1>8, <1>11, <1>13
<1>21. Successors'
  <2>1. SUFFICES ASSUME NEW d \in D!Commands, D!Exists(d)', NEW s, s = decisions'[d].supersededBy, s # None
                 PROVE  s \in D!Commands /\ D!Exists(s)'
    BY DEF Successors, D!Exists
  <2>2. d # k
    BY <1>4, <1>11, <2>1
  <2>3. CASE d = t
    BY <1>16, <1>20, <2>1, <2>2, <2>3
  <2>4. CASE d # t
    <3>1. D!Exists(d) /\ s = decisions[d].supersededBy
      BY <1>16, <1>20, <2>1, <2>2, <2>4
    <3>2. s \in D!Commands /\ D!Exists(s)
      BY <2>1, <3>1 DEF DecisionInv, Successors
    <3>3. QED
      BY <1>16, <3>2
  <2>5. QED
    BY <2>3, <2>4
<1>22. D!OneSuccessor'
  <2>1. \A d \in D!Commands : D!Exists(d) =>
          /\ decisions[d].supersedes # k /\ decisions[d].supersededBy # k /\ decisions'[d].supersedes = decisions[d].supersedes
    <3>1. SUFFICES ASSUME NEW d \in D!Commands, D!Exists(d)
                   PROVE  /\ decisions[d].supersedes # k /\ decisions[d].supersededBy # k
                          /\ decisions'[d].supersedes = decisions[d].supersedes
      OBVIOUS
    <3>2. decisions'[d].supersedes = decisions[d].supersedes
      BY <1>17, <3>1 DEF Grows, DecisionsGrow
    <3>3. decisions[d].supersedes # k
      BY <1>4, <1>8, <1>12, <3>1
    <3>4. decisions[d].supersededBy # k
      BY <1>4, <1>8, <3>1 DEF DecisionInv, Successors
    <3>5. QED
      BY <3>2, <3>3, <3>4
  <2>2. decisions'[k].supersedes = t /\ decisions'[k].supersededBy = None
    BY <1>2, <1>4, <1>11
  <2>3. \A d \in D!Commands : D!Exists(d) /\ t # None => decisions[d].supersedes # t
    BY <1>7, <1>8, <1>9 DEF DecisionInv, D!OneSuccessor
  <2>4. \A d, e \in D!Commands : D!Exists(d) /\ D!Exists(e) =>
          /\ (decisions[d].supersededBy = e) <=> (decisions[e].supersedes = d)
          /\ d # e /\ decisions[d].supersedes = decisions[e].supersedes => decisions[d].supersedes = None
    BY DEF DecisionInv, D!OneSuccessor
  <2>5. ASSUME NEW d \in D!Commands, NEW e \in D!Commands, D!Exists(d)', D!Exists(e)'
        PROVE  (decisions'[d].supersededBy = e) <=> (decisions'[e].supersedes = d)
    <3>1. CASE d = k /\ e = k
      BY <1>7, <1>8, <2>2, <3>1
    <3>2. CASE d = k /\ e # k
      BY <1>8, <1>16, <2>1, <2>2, <2>5, <3>2
    <3>3. CASE d # k /\ e = k
      BY <1>16, <1>20, <2>1, <2>2, <2>5, <3>3
    <3>4. CASE d # k /\ e # k
      <4>1. D!Exists(d) /\ D!Exists(e)
        BY <1>16, <2>5, <3>4
      <4>2. CASE d = t
        BY <1>8, <1>20, <2>1, <2>3, <3>4, <4>1, <4>2
      <4>3. CASE d # t
        BY <1>20, <2>1, <2>4, <3>4, <4>1, <4>3
      <4>4. QED
        BY <4>2, <4>3
    <3>5. QED
      BY <3>1, <3>2, <3>3, <3>4
  <2>6. ASSUME NEW d \in D!Commands, NEW e \in D!Commands, D!Exists(d)', D!Exists(e)', d # e,
               decisions'[d].supersedes = decisions'[e].supersedes
        PROVE  decisions'[d].supersedes = None
    BY <1>16, <2>1, <2>2, <2>3, <2>4, <2>6
  <2>7. QED
    BY <2>5, <2>6 DEF D!OneSuccessor
<1>23. DecisionTypes'
  BY <1>5, <1>10 DEF DecisionInv, DecisionTypes
<1>24. QED
  BY <1>18, <1>19, <1>21, <1>22, <1>23 DEF DecisionInv, CommandsFit

LEMMA RecordDecisionKeeps ==
  ASSUME DecisionInv, NEW k \in D!Commands, D!RecordDecision(k)
  PROVE  DecisionInv'
<1>1. /\ pc[k] = "classified" /\ ledger' = ledger /\ req' = req /\ line' = line /\ input' = input /\ draft' = draft
  BY DEF D!RecordDecision
<1>2. \/ pc' = [pc EXCEPT ![k] = "refused"] /\ decisions' = decisions
      \/ pc' = [pc EXCEPT ![k] = "answered"] /\ decisions' = decisions
      \/ /\ pc' = [pc EXCEPT ![k] = "answered"] /\ D!Insert(k) /\ D!Recorded(req[k]) = {}
         /\ draft[k].supersedes = None \/ D!Current(draft[k].supersedes)
  BY DEF D!RecordDecision, D!Goes
<1>3. CASE decisions' = decisions /\ (pc' = [pc EXCEPT ![k] = "refused"] \/ pc' = [pc EXCEPT ![k] = "answered"])
  <2>1. /\ pc \in [D!Commands -> {"off", "begun", "built", "classified", "answered", "refused"}]
        /\ DOMAIN req = D!Commands /\ DOMAIN line = D!Commands /\ DOMAIN input = D!Commands /\ DOMAIN draft = D!Commands
    BY DEF DecisionInv, DecisionTypes
  <2>2. pc'[k] \in {"refused", "answered"} /\ \A j \in D!Commands : j # k => pc'[j] = pc[j]
    BY <1>3, <2>1
  <2>3. pc' \in [D!Commands -> {"off", "begun", "built", "classified", "answered", "refused"}]
    BY <1>3, <2>1
  <2>4. ~D!Exists(k)'
    BY <1>1, <1>3 DEF DecisionInv, CommandsFit, CommandFits, D!Exists
  <2>5. CommandFits(k)'
    BY <2>2, <2>4 DEF CommandFits
  <2>6. QED
    BY <1>1, <1>3, <2>1, <2>2, <2>3, <2>5, OwnStepKeeps
<1>4. QED
  BY <1>1, <1>2, <1>3, InsertKeeps

LEMMA DecisionStutter == ASSUME DecisionInv, UNCHANGED D!vars PROVE DecisionInv'
<1>1. ledger' = ledger /\ decisions' = decisions /\ UNCHANGED D!command
  BY DEF D!vars
<1>2. ledger' \in [Authors -> WorkerRows \cup {D!Absent}] /\ LedgerGrows
  BY <1>1 DEF DecisionInv, DecisionTypes, LedgerGrows
<1>3. QED
  BY <1>1, <1>2, LedgerStepKeeps

LEMMA WriteRecordKeeps == ASSUME DecisionInv, NEW r \in Records, D!WriteRecord(r) PROVE DecisionInv'
<1>1. ledger' = ledger /\ decisions' = decisions /\ UNCHANGED D!command
  BY DEF D!WriteRecord
<1>2. ledger' \in [Authors -> WorkerRows \cup {D!Absent}] /\ LedgerGrows
  BY <1>1 DEF DecisionInv, DecisionTypes, LedgerGrows
<1>3. QED
  BY <1>1, <1>2, LedgerStepKeeps

\* Every step of the ledger and of the commands keeps the decisions' inductive invariant.
THEOREM DecisionInvariance == D!Spec => []DecisionInv
<1>1. DecisionInv /\ [D!Next]_D!vars => DecisionInv'
  <2> SUFFICES ASSUME DecisionInv, [D!Next]_D!vars PROVE DecisionInv'
    OBVIOUS
  <2>1. CASE \E w \in Authors, p \in Authors \cup {None}, i \in Issues \cup {BadIssue, None} : D!NewWorker(w, p, i)
    BY <2>1, NewWorkerKeeps
  <2>2. CASE \E w \in Authors, p \in Authors \cup {None}, t \in D!Threads, h \in AttachHosts : D!Attach(w, p, t, h)
    BY <2>2, AttachKeeps
  <2>3. CASE \E r \in Records : D!WriteRecord(r)
    BY <2>3, WriteRecordKeeps
  <2>4. CASE \E k \in D!Commands, r \in DecisionRequests, l \in Lines : D!Begin(k, r, l)
    BY <2>4, BeginKeeps
  <2>5. CASE \E k \in D!Commands : D!Build(k) \/ D!Classify(k) \/ D!RecordDecision(k)
    BY <2>5, BuildKeeps, ClassifyKeeps, RecordDecisionKeeps
  <2>6. CASE UNCHANGED D!vars
    BY <2>6, DecisionStutter
  <2>7. QED
    BY <2>1, <2>2, <2>3, <2>4, <2>5, <2>6 DEF D!Next
<1>2. QED
  BY DecisionInit, <1>1, PTL DEF D!Spec

\* Supersession makes chains, however many commands read the same decision as current:
\* each decision has at most one successor, knows it, and is what it says it replaces
\* (RecordDecision's check of the prior decision in its own transaction).
THEOREM OneSuccessorHolds == D!Spec => []OneSuccessor
<1>1. DecisionInv => OneSuccessor
  BY DEF DecisionInv, OneSuccessor
<1>2. QED
  BY <1>1, DecisionInvariance, PTL

\* A decision that records no gap has its author and all it cites in the ledger, although
\* buildDecision looked them up in transactions before the one that recorded it.
THEOREM NoSilentGapHolds == D!Spec => []NoSilentGap
<1>1. ASSUME DecisionInv PROVE D!NoSilentGap
  <2>1. SUFFICES ASSUME NEW d \in D!Commands, D!Exists(d), decisions[d].gaps = {}
                 PROVE  /\ decisions[d].author \in D!Rows(ledger)
                        /\ decisions[d].evidence \ D!Keys \subseteq D!Nameable \ {Mistyped}
    BY DEF D!NoSilentGap
  <2>2. InputFits(d) /\ RowFits(d, decisions[d])
    BY <1>1, <2>1 DEF DecisionInv, CommandsFit, CommandFits
  <2>3. QED
    BY <2>1, <2>2 DEF InputFits, RowFits
<1>2. DecisionInv => NoSilentGap
  BY <1>1 DEF NoSilentGap
<1>3. QED
  BY <1>2, DecisionInvariance, PTL

\* Two commands with one line complete it alike: what the superseded decision hands down
\* never changes.
LEMMA SameInput ==
  ASSUME NEW j, NEW k, InputFits(j), InputFits(k), line[j] = line[k]
  PROVE  input[j] = input[k]
<1>1. None \notin D!Commands
  BY DecisionConstants
<1>2. QED
  BY <1>1 DEF InputFits

\* A command whose request is on record with the same command line is never refused, not
\* even when what it supersedes is superseded by now (Begin, buildDecision and
\* RecordDecision are where a command can be refused).
THEOREM RetryAnsweredHolds == D!Spec => RetryAnswered
<1> DEFINE Answered == \A k \in D!Commands : pc[k] # pc'[k] /\ pc'[k] = "refused" =>
                         ~\E d \in D!Recorded(req'[k]) : line[d] = line'[k]
<1>1. DecisionInv /\ [D!Next]_D!vars => [Answered]_D!vars
  <2> SUFFICES ASSUME DecisionInv, D!Next,
                      NEW k \in D!Commands, pc[k] # pc'[k], pc'[k] = "refused",
                      NEW d \in D!Recorded(req'[k]), line[d] = line'[k]
               PROVE  FALSE
    OBVIOUS
  <2>1. d \in D!Commands /\ D!Exists(d) /\ decisions[d].req = req'[k]
    BY DEF D!Recorded
  <2>2. InputFits(d) /\ RowFits(d, decisions[d])
    BY <2>1 DEF DecisionInv, CommandsFit, CommandFits
  <2>3. /\ pc \in [D!Commands -> {"off", "begun", "built", "classified", "answered", "refused"}]
        /\ DOMAIN req = D!Commands /\ DOMAIN line = D!Commands
    BY DEF DecisionInv, DecisionTypes
  <2>4. CASE pc' = pc
    BY <2>4
  <2>5. ASSUME NEW j \in D!Commands, NEW r \in DecisionRequests, NEW l \in Lines, D!Begin(j, r, l) PROVE FALSE
    <3>1. line' = [line EXCEPT ![j] = l] /\ \/ pc' = [pc EXCEPT ![j] = "begun"]
                                            \/ pc' = [pc EXCEPT ![j] = "refused"] /\ l.target = Mistyped
      BY <2>5 DEF D!Begin, D!Goes
    <3>2. j = k /\ l.target = Mistyped /\ line'[k] = l
      BY <2>3, <3>1
    <3>3. QED
      BY <2>2, <3>2, DecisionConstants DEF InputFits
  <2>6. ASSUME NEW j \in D!Commands, D!Build(j) PROVE FALSE
    <3>1. pc[j] = "begun" /\ line' = line
      BY <2>6 DEF D!Build
    <3>2. pc' = [pc EXCEPT ![j] = "built"] \/ (pc' = [pc EXCEPT ![j] = "refused"] /\ ~Agrees(input[j]))
      BY <2>6, BuildComposes
    <3>3. j = k /\ ~Agrees(input[k])
      BY <2>3, <3>2
    <3>4. InputFits(k)
      BY <3>1, <3>3 DEF DecisionInv, CommandsFit, CommandFits
    <3>5. input[d] = input[k]
      BY <2>2, <3>1, <3>4, SameInput
    <3>6. Agrees(input[d])
      BY <2>2 DEF RowFits
    <3>7. QED
      BY <3>3, <3>5, <3>6 DEF Agrees, InputIssue
  <2>7. ASSUME NEW j \in D!Commands, D!Classify(j) PROVE FALSE
    BY <2>3, <2>7 DEF D!Classify, D!Goes
  <2>8. ASSUME NEW j \in D!Commands, D!RecordDecision(j) PROVE FALSE
    <3> DEFINE same == {e \in D!Recorded(req[j]) : decisions[e].fp = draft[j].fp}
    <3>1. pc[j] = "classified" /\ line' = line /\ req' = req
      BY <2>8 DEF D!RecordDecision
    <3>2. \/ pc' = [pc EXCEPT ![j] = "answered"]
          \/ pc' = [pc EXCEPT ![j] = "refused"] /\ (D!Recorded(req[j]) # same \/ D!Recorded(req[j]) = {})
      BY <2>8 DEF D!RecordDecision, D!Goes
    <3>3. j = k /\ (D!Recorded(req[k]) # {e \in D!Recorded(req[k]) : decisions[e].fp = draft[k].fp} \/ D!Recorded(req[k]) = {})
      BY <2>3, <3>2
    <3>4. InputFits(k) /\ RowFits(k, draft[k])
      BY <3>1, <3>3 DEF DecisionInv, CommandsFit, CommandFits
    <3>5. input[d] = input[k]
      BY <2>2, <3>1, <3>4, SameInput
    <3>6. decisions[d].fp = draft[k].fp
      BY <2>2, <3>4, <3>5 DEF RowFits
    <3>7. \A e \in D!Recorded(req[k]) : e = d
      BY <2>1, <3>1 DEF D!Recorded, DecisionInv, OnePerRequest
    <3>8. QED
      BY <3>1, <3>3, <3>6, <3>7
  <2>9. CASE \/ \E w \in Authors, p \in Authors \cup {None}, i \in Issues \cup {BadIssue, None} : D!NewWorker(w, p, i)
             \/ \E w \in Authors, p \in Authors \cup {None}, t \in D!Threads, h \in AttachHosts : D!Attach(w, p, t, h)
             \/ \E r \in Records : D!WriteRecord(r)
    BY <2>4, <2>9 DEF D!NewWorker, D!Attach, D!WriteRecord, D!command
  <2>10. QED
    BY <2>5, <2>6, <2>7, <2>8, <2>9 DEF D!Next
<1>2. QED
  BY <1>1, DecisionInvariance, PTL DEF D!Spec, RetryAnswered, D!RetryAnswered

=============================================================================
