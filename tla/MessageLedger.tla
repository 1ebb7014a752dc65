---------------------------- MODULE MessageLedger ----------------------------
(***************************************************************************)
(* The durable messages of the local ledger (internal/store/coordination): *)
(* immutable message rows, one delivery per recipient, and the replay      *)
(* records that keep a request idempotent after its message was pruned.    *)
(*                                                                         *)
(* Every operation is one SQLite transaction under the state lock, so it   *)
(* is one action; a caller stamps created_at before it gets the lock, so   *)
(* calls may commit in another order than their timestamps.  created_at is *)
(* text that SQLite compares as such, with the trailing zeros of its       *)
(* fraction trimmed; at is its place in the order of the texts.  A text    *)
(* that sorts before an earlier one is a call that commits late.           *)
(*                                                                         *)
(* A payload stands for kind, sender, body and recipients, what the        *)
(* fingerprint hashes.  Delivery events are an audit copy of the states    *)
(* and left out.                                                           *)
(***************************************************************************)
EXTENDS Naturals, FiniteSets

CONSTANTS
  Requests,      \* request IDs
  Payloads,      \* what messageFingerprint tells apart
  Workers,
  To,            \* the distinct recipients of a payload
  RetentionCap,  \* MessageRetentionCap
  DeliveryCap,   \* MessageDeliveryCap
  ReplayCap,     \* MessageReplayCap
  MaxCalls       \* bound: calls of CreateMessage

ASSUME LedgerAssumption ==
  /\ To \in [Payloads -> SUBSET Workers]
  /\ \A p \in Payloads : To[p] # {}
  /\ RetentionCap \in Nat \ {0} /\ DeliveryCap \in Nat
  /\ ReplayCap \in Nat /\ MaxCalls \in Nat
  /\ IsFiniteSet(Workers)

VARIABLES
  messages,  \* rows of messages; created_at is at, and tells rows apart
  delivery,  \* message_deliveries: the outcome per message and recipient
  replays,   \* rows of message_replays: request, fingerprint, created_at
  result,    \* their result column: the deliveries an answer reports
  clock, calls,   \* calls that have stamped their message and not committed
  \* history
  born,      \* every message ever inserted
  removed    \* <<row, creations completed before the prune that removed it>>

vars == <<messages, delivery, replays, result, clock, calls, born, removed>>

\* "failed" is a queued delivery with a last_error.
Outcomes == {"queued", "failed", "steered", "delivered"}
Row == [req : Requests, payload : Payloads, at : Nat]
Recipients(m) == To[m.payload]

Init ==
  /\ messages = {} /\ replays = {} /\ calls = {} /\ born = {} /\ removed = {}
  /\ delivery = << >> /\ result = << >>
  /\ clock = 0

\* createAndDeliver stamps the message before the store takes its lock.
Stamp(r, p) ==
  /\ clock < MaxCalls
  /\ clock' = clock + 1
  /\ calls' = calls \cup {[req |-> r, payload |-> p, at |-> clock']}
  /\ UNCHANGED <<messages, delivery, replays, result, born, removed>>

-----------------------------------------------------------------------------
(* Pruning for an insert of n deliveries.                                  *)

DeliveryRows(M) ==
  Cardinality({d \in M \X Workers : d[2] \in Recipients(d[1])})

\* Mutant: the quotas may be exceeded by one.
FitsOffByOne(P, n) == /\ Cardinality(messages \ P) <= RetentionCap
                      /\ DeliveryRows(messages \ P) + n <= DeliveryCap + 1

\* The message quota and the delivery quota leave room once P is deleted.
Fits(P, n) == /\ Cardinality(messages \ P) < RetentionCap
              /\ DeliveryRows(messages \ P) + n <= DeliveryCap

\* Mutant: a steered message counts as delivered.
PrunableWhenSteered == {m \in messages : \A w \in Recipients(m) :
                          delivery[m][w] \in {"steered", "delivered"}}

FullyDelivered ==
  {m \in messages : \A w \in Recipients(m) : delivery[m][w] = "delivered"}

\* Delivered messages, oldest first, while the quotas are exceeded.
Pruned(n) ==
  {m \in FullyDelivered : ~ Fits({d \in FullyDelivered : d.at < m.at}, n)}

\* ON CONFLICT(request_id) DO UPDATE: M replaces the rows of its requests.
SaveMessageReplay(R, M) == {x \in R : \A m \in M : m.req # x.req} \cup M

\* Mutant: the oldest records are kept.
PruneNewestReplays(R) ==
  {x \in R : Cardinality({y \in R : y.at < x.at}) < ReplayCap}

\* ORDER BY created_at DESC LIMIT MessageReplayCap
PruneMessageReplays(R) ==
  {x \in R : Cardinality({y \in R : y.at > x.at}) < ReplayCap}

-----------------------------------------------------------------------------
\* Mutant: only live messages are looked up.
KnownLive(r) == \E m \in messages : m.req = r

\* Mutant: only replay records are looked up.
KnownReplayed(r) == \E x \in replays : x.req = r

Known(r) == \E x \in messages \cup replays : x.req = r

\* The request is known: answered from the message or from its replay record
\* when the fingerprint matches, refused when it does not.
CreateKnown(c) ==
  /\ c \in calls /\ Known(c.req)
  /\ calls' = calls \ {c}
  /\ UNCHANGED <<messages, delivery, replays, result, clock, born, removed>>

\* ErrMessageQuotaExceeded
CreateRefused(c) ==
  LET n == Cardinality(Recipients(c)) IN
  /\ c \in calls /\ ~ Known(c.req)
  /\ n > DeliveryCap \/ ~ Fits(Pruned(n), n)
  /\ calls' = calls \ {c}
  /\ UNCHANGED <<messages, delivery, replays, result, clock, born, removed>>

\* Prune with a replay snapshot of each message, insert, save the new replay
\* record, then keep the newest replay records only.
CreateInserts(c) ==
  LET n == Cardinality(Recipients(c))
      P == Pruned(n)
      queued == [w \in Recipients(c) |-> "queued"]
      R == SaveMessageReplay(SaveMessageReplay(replays, P), {c})
  IN
  /\ c \in calls /\ ~ Known(c.req)
  /\ n <= DeliveryCap /\ Fits(P, n)
  /\ calls' = calls \ {c}
  /\ messages' = (messages \ P) \cup {c}
  /\ delivery' = [m \in messages' |-> IF m = c THEN queued ELSE delivery[m]]
  /\ replays' = PruneMessageReplays(R)
  /\ result' = [x \in replays' |-> IF x = c THEN queued
                                   ELSE IF x \in P THEN delivery[x]
                                   ELSE result[x]]
  /\ born' = born \cup {c}
  /\ removed' = removed \cup {<<m, Cardinality(born)>> : m \in P}
  /\ UNCHANGED clock

CreateMessage(c) == CreateKnown(c) \/ CreateRefused(c) \/ CreateInserts(c)

\* The caller's state is written over whatever the delivery holds; once the
\* message is pruned the delivery is not found.
UpdateDelivery(m, w, outcome) ==
  /\ m \in messages /\ w \in Recipients(m)
  /\ delivery' = [delivery EXCEPT ![m][w] = outcome]
  /\ UNCHANGED <<messages, replays, result, clock, calls, born, removed>>

Next == \/ \E r \in Requests, p \in Payloads : Stamp(r, p)
        \/ \E c \in calls : CreateMessage(c)
        \/ \E m \in messages, o \in Outcomes :
             \E w \in Recipients(m) : UpdateDelivery(m, w, o)

Spec == Init /\ [][Next]_vars

-----------------------------------------------------------------------------
(* Properties                                                              *)

\* Every table holds rows of its type; a call in flight was never inserted.
TypeOK ==
  /\ messages \subseteq born /\ replays \subseteq born
  /\ born \subseteq Row /\ calls \subseteq Row /\ born \cap calls = {}
  /\ IsFiniteSet(born)
  /\ clock \in Nat
  /\ \A x \in born \cup calls : x.at <= clock
  /\ \A x, y \in born \cup calls : x.at = y.at => x = y
  /\ DOMAIN delivery = messages
  /\ \A m \in messages : delivery[m] \in [Recipients(m) -> Outcomes]
  /\ DOMAIN result = replays
  /\ \A x \in replays : result[x] \in [Recipients(x) -> Outcomes]

\* A request names one message: the row CreateMessage finds in messages and
\* the row it finds in message_replays never disagree on the payload.
OneRowPerRequest ==
  \A x, y \in messages \cup replays : x.req = y.req => x = y

\* An answer from a replay record alone reports every delivery as delivered:
\* the snapshot taken by the prune replaced the queued ones of the insert.
ReplayTellsFinalState ==
  \A x \in replays \ messages :
    \A w \in Recipients(x) : result[x][w] = "delivered"

\* The retention quotas hold through fan-out, pruning and late updates.
QuotasHold == /\ Cardinality(messages) <= RetentionCap
              /\ DeliveryRows(messages) <= DeliveryCap
              /\ Cardinality(replays) <= ReplayCap

\* Pruning never deletes a message somebody has not received.
PendingNeverDropped ==
  [][\A m \in messages \ messages' :
       \A w \in Recipients(m) : delivery[m][w] = "delivered"]_vars

\* How many messages younger than x were created.
YoungerThan(x) == Cardinality({y \in born : y.at > x.at})

\* A message that was created is live, or its request is remembered, or at
\* least MessageReplayCap younger messages were created.
Remembered ==
  \A b \in born : b \in messages \/ b \in replays \/ YoungerThan(b) >= ReplayCap

\* The inductive invariant.
LInv == TypeOK /\ OneRowPerRequest /\ ReplayTellsFinalState /\ Remembered

\* Reusing a request ID creates a second message only after MessageReplayCap
\* younger messages were created.
NoEarlyDuplicate ==
  [][\A b \in born, c \in born' \ born :
       b.req = c.req => YoungerThan(b) >= ReplayCap]_vars

\* The idempotency window as its constant documents it: MessageReplayCap
\* creations from the prune that removed the payload.
WindowStartsAtRemoval ==
  [][\A e \in removed, c \in born' \ born :
       e[1].req = c.req => Cardinality(born) >= e[2] + ReplayCap]_vars
=============================================================================
