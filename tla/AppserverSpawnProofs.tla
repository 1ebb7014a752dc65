------------------------ MODULE AppserverSpawnProofs ------------------------
(***************************************************************************)
(* Proofs about AppserverSpawn, for any number of requests and csd         *)
(* processes, with store errors, crashes and closes; about the command     *)
(* that asks for a spawn (SpawnCommand, instance C of MCSpawn); and about  *)
(* the client that talks to the spawned server (AppserverClient, instance  *)
(* A), for any capacity of its channel.                                    *)
(***************************************************************************)
EXTENDS MCSpawn, FiniteSetTheorems, SequenceTheorems, TLAPS

\* The inductive invariant.
SInv == TypeOK /\ OneOwner /\ HandlersKnow /\ AnswersDurable

\* The identity in the row is kept by a step.
KeepsIdentity == row.thread # NoRequest => row'.thread = row.thread

\* Nothing is recorded at first.
LEMMA InitSInv == Init => SInv
<1>1. SUFFICES ASSUME Init PROVE SInv
  OBVIOUS
<1>2. TypeOK
  BY <1>1, SpawnAssumption DEF Init, TypeOK, NewRow, Launch, Statuses, Answers, Live
<1>3. OneOwner
  BY <1>1 DEF Init, OneOwner, NewRow
<1>4. HandlersKnow
  BY <1>1, SpawnAssumption DEF Init, HandlersKnow, NewRow, Launch, SpawnAssumption
<1>5. AnswersDurable
  BY <1>1, SpawnAssumption DEF Init, AnswersDurable, SpawnAssumption
<1>6. QED
  BY <1>2, <1>3, <1>4, <1>5 DEF SInv

\* A run whose request is recorded is the only one, and no other request's
\* turn was started.
LEMMA OnlyOwner ==
  ASSUME SInv, NEW q \in Requests, rpc[q] # "none"
  PROVE  /\ row.by = q /\ q # NoRequest
         /\ \A p \in Requests : p # q => rpc[p] = "none" /\ p \notin turns
         /\ row.thread \in {NoRequest, q} /\ ready[q] \in {"none", "error", q}
BY SpawnAssumption DEF SInv, OneOwner, HandlersKnow, TypeOK, Answers, SpawnAssumption

\* What the steps of a run have in common: the owner q moves to x, leaves the
\* identity t in the row, answers a, and never takes an identity back.
LEMMA OwnerStep ==
  ASSUME SInv, NEW q \in Requests, rpc[q] # "none",
         NEW x \in Live \cup {"ended"}, NEW a \in {"none", "error", q},
         NEW t \in {NoRequest, q}, NEW st \in Statuses,
         row' = [status |-> st, thread |-> t, by |-> q],
         rpc' = [rpc EXCEPT ![q] = x], ready' = [ready EXCEPT ![q] = a],
         turns' \in {turns, turns \cup {q}}, forwarded' \in BOOLEAN,
         launches' \in [Servers -> Requests \cup {NoRequest}],
         UNCHANGED <<up, handler, closed>>,
         row.thread = q => t = q,
         t = q => q \in turns',
         a = q => t = q,
         x \in {"starting", "observing", "recovering"} => t = NoRequest,
         x \in {"observing", "recovering", "running", "forwarding"} => q \in turns',
         x \in {"running", "forwarding"} => t = q
  PROVE  SInv' /\ KeepsIdentity
<1> USE SpawnAssumption DEF SpawnAssumption
<1>0. /\ row.by = q /\ q # NoRequest
      /\ \A p \in Requests : p # q => rpc[p] = "none" /\ p \notin turns
      /\ row.thread \in {NoRequest, q}
  BY OnlyOwner
<1>1. /\ row' \in [status : Statuses, thread : Requests \cup {NoRequest}, by : Requests \cup {NoRequest}]
      /\ row'.by = q /\ row'.thread = t
  OBVIOUS
<1>2. /\ rpc'[q] = x /\ ready'[q] = a
      /\ \A p \in Requests : p # q => rpc'[p] = "none" /\ p \notin turns' /\ ready'[p] = ready[p]
  BY <1>0 DEF SInv, TypeOK
<1>3. TypeOK'
  BY <1>1 DEF SInv, TypeOK, Answers, Live, handler
<1>4. OneOwner'
  BY <1>0, <1>1, <1>2 DEF OneOwner, SInv, TypeOK
<1>5. \A p \in Requests : ready'[p] \in Requests => ready'[p] = p /\ row'.thread = p
  <2>1. ready'[q] \in Requests => ready'[q] = q /\ row'.thread = q
    BY <1>1, <1>2
  <2>2. ASSUME NEW p \in Requests, p # q PROVE ready[p] \notin Requests
    BY <1>0, <2>2 DEF SInv, HandlersKnow
  <2>3. QED
    BY <1>2, <2>1, <2>2
<1>6. HandlersKnow'
  BY <1>0, <1>1, <1>5 DEF SInv, HandlersKnow, handler
<1>7. AnswersDurable'
  BY <1>0, <1>1 DEF SInv, AnswersDurable, handler
<1>8. KeepsIdentity
  BY <1>0, <1>1 DEF KeepsIdentity
<1>9. QED
  BY <1>3, <1>4, <1>6, <1>7, <1>8 DEF SInv

\* Ending a run clears only its own map entries.
LEMMA EndRunLaunches ==
  ASSUME SInv, NEW q \in Requests, EndRun(q)
  PROVE  /\ launches' \in [Servers -> Requests \cup {NoRequest}]
         /\ rpc' = [rpc EXCEPT ![q] = "ended"]
BY DEF SInv, TypeOK, EndRun

\* The row of a recorded request, field by field.
LEMMA RowOf ==
  ASSUME SInv, NEW q \in Requests, rpc[q] # "none",
         NEW t \in Requests \cup {NoRequest}, NEW st \in Statuses,
         NEW u, u = [row EXCEPT !.thread = t, !.status = st]
  PROVE  u = [status |-> st, thread |-> t, by |-> q]
<1>1. /\ row \in [status : Statuses, thread : Requests \cup {NoRequest}, by : Requests \cup {NoRequest}]
      /\ row.by = q
  BY OnlyOwner DEF SInv, TypeOK
<1>2. /\ u \in [status : Statuses, thread : Requests \cup {NoRequest}, by : Requests \cup {NoRequest}]
      /\ u.status = st /\ u.thread = t /\ u.by = q
  BY <1>1
<1>3. QED
  BY <1>2

\* The row is read; nothing is started.
LEMMA ReadWorkerSInv == ASSUME SInv, NEW q \in Requests, ReadWorker(q) PROVE SInv' /\ KeepsIdentity
<1> USE SpawnAssumption DEF SpawnAssumption
<1>1. TypeOK'
  BY DEF SInv, TypeOK, Statuses, Answers, Live, handler, ReadWorker, Launch
<1>2. OneOwner'
  BY DEF SInv, TypeOK, OneOwner, Live, Answers, handler, ReadWorker, Launch
<1>3. HandlersKnow'
  BY DEF SInv, TypeOK, OneOwner, HandlersKnow, Answers, handler, ReadWorker, Launch
<1>4. AnswersDurable'
  BY DEF SInv, TypeOK, OneOwner, HandlersKnow, AnswersDurable, Answers, handler, ReadWorker, Launch
<1>5. KeepsIdentity
  BY DEF SInv, TypeOK, OneOwner, KeepsIdentity, handler, ReadWorker, Launch
<1>6. QED
  BY <1>1, <1>2, <1>3, <1>4, <1>5 DEF SInv

\* The launch is joined, answered or entered for the same fingerprint.
LEMMA DecideSInv == ASSUME SInv, NEW q \in Requests, Decide(q) PROVE SInv' /\ KeepsIdentity
<1> USE SpawnAssumption DEF SpawnAssumption
<1>1. /\ launches' \in [Servers -> Requests \cup {NoRequest}]
      /\ qpc' \in [Requests -> {"off", "read", "entered", "joined", "done"}]
      /\ joins' \in [Requests -> Requests \cup {NoRequest}]
  BY DEF SInv, TypeOK, Decide, Answer
<1>2. answer' \in [Requests -> Answers]
  <2>1. /\ answer \in [Requests -> Answers] /\ "error" \in Answers
        /\ Replays(q) => seen[q].thread \in Answers
    BY DEF SInv, TypeOK, Replays, Answers
  <2>2. QED
    BY <2>1 DEF Decide, Answer
<1>3. TypeOK'
  BY <1>1, <1>2 DEF SInv, TypeOK, Decide
<1>4. OneOwner'
  BY DEF SInv, OneOwner, Decide
<1>5. HandlersKnow'
  BY DEF SInv, TypeOK, OneOwner, HandlersKnow, Answers, Decide, Answer, Replays, Refuses
<1>6. AnswersDurable'
  BY DEF SInv, TypeOK, OneOwner, HandlersKnow, AnswersDurable, Answers, Decide, Answer, Replays
<1>7. KeepsIdentity
  BY DEF KeepsIdentity, Decide
<1>8. QED
  BY <1>3, <1>4, <1>5, <1>6, <1>7 DEF SInv

\* A run starts only when no request was recorded before.
LEMMA RecordRequestSInv == ASSUME SInv, NEW q \in Requests, RecordRequest(q) PROVE SInv' /\ KeepsIdentity
<1> USE SpawnAssumption DEF SpawnAssumption
<1>1. CASE /\ Untaken
           /\ row' = [row EXCEPT !.by = q, !.status = "pending"]
           /\ rpc' = [rpc EXCEPT ![q] = "starting"]
           /\ qpc' = [qpc EXCEPT ![q] = "joined"] /\ joins' = [joins EXCEPT ![q] = q]
           /\ UNCHANGED <<ready, answer>>
  <2>1. /\ row.thread = NoRequest /\ turns = {} /\ q # NoRequest
        /\ \A p \in Requests : rpc[p] = "none" /\ seen[p].by = NoRequest /\ seen[p].thread = NoRequest
    BY <1>1 DEF SInv, TypeOK, OneOwner, HandlersKnow, Untaken
  <2>2. /\ row' \in [status : Statuses, thread : Requests \cup {NoRequest}, by : Requests \cup {NoRequest}]
        /\ row'.by = q /\ row'.thread = NoRequest
    BY <1>1, <2>1 DEF SInv, TypeOK, Statuses
  <2>3. UNCHANGED <<up, launches, at, prompt, seen, turns, forwarded, closed>>
    BY DEF RecordRequest
  <2>4. rpc'[q] = "starting" /\ \A p \in Requests : p # q => rpc'[p] = "none"
    BY <1>1, <2>1 DEF SInv, TypeOK
  <2>5. rpc' \in [Requests -> Live \cup {"none", "ended", "lost"}]
    BY <1>1 DEF SInv, TypeOK, Live
  <2>6. TypeOK'
    BY <1>1, <2>2, <2>3, <2>5 DEF SInv, TypeOK
  <2>7. OneOwner'
    BY <2>1, <2>2, <2>3, <2>4 DEF OneOwner
  <2>8. HandlersKnow'
    BY <1>1, <2>1, <2>2, <2>3 DEF SInv, TypeOK, HandlersKnow
  <2>9. AnswersDurable'
    BY <1>1, <2>1, <2>2, <2>3 DEF SInv, AnswersDurable
  <2>10. QED
    BY <2>1, <2>6, <2>7, <2>8, <2>9 DEF SInv, KeepsIdentity
<1>2. CASE /\ ready' = [ready EXCEPT ![q] = "error"] /\ Answer(q, "error")
           /\ UNCHANGED <<row, rpc, joins>>
  <2>1. UNCHANGED <<up, launches, at, prompt, seen, turns, forwarded, closed>>
    BY DEF RecordRequest
  <2>2. TypeOK'
    BY <1>2, <2>1 DEF SInv, TypeOK, Answer, Answers
  <2>3. OneOwner'
    BY <1>2, <2>1 DEF SInv, OneOwner
  <2>4. HandlersKnow'
    BY <1>2, <2>1 DEF SInv, TypeOK, HandlersKnow, Answer
  <2>5. AnswersDurable'
    BY <1>2, <2>1 DEF SInv, TypeOK, AnswersDurable, Answer
  <2>6. QED
    BY <1>2, <2>2, <2>3, <2>4, <2>5 DEF SInv, KeepsIdentity
<1>3. QED
  BY <1>1, <1>2 DEF RecordRequest

\* A launch answers with the identity in the row.
LEMMA ReadySInv == ASSUME SInv, NEW q \in Requests, Ready(q) PROVE SInv' /\ KeepsIdentity
<1> USE SpawnAssumption DEF SpawnAssumption
<1>0. joins[q] \in Requests /\ prompt[joins[q]] = prompt[q] /\ ready[joins[q]] \in Answers
  BY DEF SInv, TypeOK, HandlersKnow, Ready, Waits
<1>1. TypeOK'
  BY <1>0 DEF SInv, TypeOK, Ready, Answer
<1>2. OneOwner'
  BY DEF SInv, OneOwner, Ready
<1>3. HandlersKnow'
  BY DEF SInv, TypeOK, HandlersKnow, Ready, Answer
<1>4. AnswersDurable'
  BY <1>0 DEF SInv, TypeOK, OneOwner, HandlersKnow, AnswersDurable, Ready, Answer
<1>5. KeepsIdentity
  BY DEF KeepsIdentity, Ready
<1>6. QED
  BY <1>1, <1>2, <1>3, <1>4, <1>5 DEF SInv

\* Abandoning a request leaves the run alone.
LEMMA AbandonSInv == ASSUME SInv, NEW q \in Requests, Abandon(q) PROVE SInv' /\ KeepsIdentity
<1> USE SpawnAssumption DEF SpawnAssumption
<1>1. TypeOK'
  BY DEF SInv, TypeOK, Statuses, Answers, Live, handler, Abandon, Waits, Answer
<1>2. OneOwner'
  BY DEF SInv, TypeOK, OneOwner, Live, Answers, handler, Abandon, Waits, Answer
<1>3. HandlersKnow'
  BY DEF SInv, TypeOK, OneOwner, HandlersKnow, Answers, handler, Abandon, Waits, Answer
<1>4. AnswersDurable'
  BY DEF SInv, TypeOK, OneOwner, HandlersKnow, AnswersDurable, Answers, handler, Abandon, Waits, Answer
<1>5. KeepsIdentity
  BY DEF SInv, TypeOK, OneOwner, KeepsIdentity, handler, Abandon, Waits, Answer
<1>6. QED
  BY <1>1, <1>2, <1>3, <1>4, <1>5 DEF SInv

\* No identity was known of a run that fails to start.
LEMMA FailToStartSInv == ASSUME SInv, NEW q \in Requests, FailToStart(q) PROVE SInv' /\ KeepsIdentity
<1> USE SpawnAssumption DEF SpawnAssumption
<1>0. /\ row.by = q /\ q # NoRequest /\ rpc[q] # "none"
      /\ row.thread \in {NoRequest, q} /\ ready[q] \in {"none", "error", q}
  BY OnlyOwner DEF FailToStart
<1>a. /\ row = [status |-> row.status, thread |-> row.thread, by |-> q] /\ row.status \in Statuses
      /\ \A t \in {NoRequest, q}, st \in Statuses :
            row' = [row EXCEPT !.thread = t, !.status = st] => row' = [status |-> st, thread |-> t, by |-> q]
  <2>1. row \in [status : Statuses, thread : Requests \cup {NoRequest}, by : Requests \cup {NoRequest}]
    BY DEF SInv, TypeOK
  <2>2. QED
    BY <1>0, <2>1, RowOf
<1>b. ready = [ready EXCEPT ![q] = ready[q]]
  BY DEF SInv, TypeOK
<1>c. forwarded \in BOOLEAN /\ launches \in [Servers -> Requests \cup {NoRequest}]
  BY DEF SInv, TypeOK
<1>1. row.thread = NoRequest
  BY DEF FailToStart, SInv, OneOwner
<1>2. EndRun(q) /\ UNCHANGED <<runFrame, forwarded>> /\ ready' = [ready EXCEPT ![q] = "error"]
  BY DEF FailToStart, FinishStart
<1>3. launches' \in [Servers -> Requests \cup {NoRequest}] /\ rpc' = [rpc EXCEPT ![q] = "ended"]
  BY <1>2, EndRunLaunches
<1>4. \E st \in Statuses : row' = [status |-> st, thread |-> NoRequest, by |-> q]
  BY <1>a, <1>1 DEF FailToStart, RecordFailure, Statuses
<1>5. turns' \in {turns, turns \cup {q}}
  BY DEF FailToStart
<1>6. QED
  BY <1>0, <1>1, <1>2, <1>3, <1>4, <1>5, <1>c, OwnerStep DEF runFrame

\* The turn is the recorded request's.
LEMMA BeginTurnSInv == ASSUME SInv, NEW q \in Requests, BeginTurn(q) PROVE SInv' /\ KeepsIdentity
<1> USE SpawnAssumption DEF SpawnAssumption
<1>1. TypeOK'
  BY DEF SInv, TypeOK, Statuses, Answers, Live, handler, BeginTurn, runFrame
<1>2. OneOwner'
  BY DEF SInv, TypeOK, OneOwner, Live, Answers, handler, BeginTurn, runFrame
<1>3. HandlersKnow'
  BY DEF SInv, TypeOK, OneOwner, HandlersKnow, Answers, handler, BeginTurn, runFrame
<1>4. AnswersDurable'
  BY DEF SInv, TypeOK, OneOwner, HandlersKnow, AnswersDurable, Answers, handler, BeginTurn, runFrame
<1>5. KeepsIdentity
  BY DEF SInv, TypeOK, OneOwner, KeepsIdentity, handler, BeginTurn, runFrame
<1>6. QED
  BY <1>1, <1>2, <1>3, <1>4, <1>5 DEF SInv

\* The identity of the owner is written before it is told.
LEMMA ObserveSInv == ASSUME SInv, NEW q \in Requests, Observe(q) PROVE SInv' /\ KeepsIdentity
<1> USE SpawnAssumption DEF SpawnAssumption
<1>0. /\ row.by = q /\ q # NoRequest /\ rpc[q] # "none"
      /\ row.thread \in {NoRequest, q} /\ ready[q] \in {"none", "error", q}
  BY OnlyOwner DEF Observe
<1>a. /\ row = [status |-> row.status, thread |-> row.thread, by |-> q] /\ row.status \in Statuses
      /\ \A t \in {NoRequest, q}, st \in Statuses :
            row' = [row EXCEPT !.thread = t, !.status = st] => row' = [status |-> st, thread |-> t, by |-> q]
  <2>1. row \in [status : Statuses, thread : Requests \cup {NoRequest}, by : Requests \cup {NoRequest}]
    BY DEF SInv, TypeOK
  <2>2. QED
    BY <1>0, <2>1, RowOf
<1>b. ready = [ready EXCEPT ![q] = ready[q]]
  BY DEF SInv, TypeOK
<1>c. forwarded \in BOOLEAN /\ launches \in [Servers -> Requests \cup {NoRequest}]
  BY DEF SInv, TypeOK
<1>1. q \in turns /\ row.thread = NoRequest
  BY DEF Observe, SInv, OneOwner
<1>2. UNCHANGED <<launches, runFrame, turns, forwarded>>
  BY DEF Observe
<1>3. CASE row' = [row EXCEPT !.thread = q, !.status = "running"] /\ FinishStart(q, q)
           /\ rpc' = [rpc EXCEPT ![q] = "running"]
  <2>1. row' = [status |-> "running", thread |-> q, by |-> q]
    BY <1>3, <1>a DEF Statuses
  <2>2. "running" \in Live \cup {"ended"} /\ "running" \in Statuses
    BY DEF Live, Statuses
  <2>3. QED
    BY <1>0, <1>1, <1>2, <1>3, <1>c, <2>1, <2>2, OwnerStep DEF runFrame, FinishStart
<1>4. CASE rpc' = [rpc EXCEPT ![q] = "recovering"] /\ UNCHANGED <<row, ready>>
  <2>1. row' = [status |-> row.status, thread |-> NoRequest, by |-> q]
    BY <1>4, <1>a, <1>1
  <2>2. "recovering" \in Live \cup {"ended"} /\ row.status \in Statuses
    BY <1>a DEF Live
  <2>3. ready' = [ready EXCEPT ![q] = ready[q]] /\ ready[q] # q
    BY <1>b, <1>4, <1>1, <1>0 DEF SInv, HandlersKnow
  <2>4. QED
    BY <1>0, <1>1, <1>2, <1>4, <1>c, <2>1, <2>2, <2>3, OwnerStep DEF runFrame
<1>5. QED
  BY <1>3, <1>4 DEF Observe

\* The identity of the owner is written late.
LEMMA RecoverSInv == ASSUME SInv, NEW q \in Requests, Recover(q) PROVE SInv' /\ KeepsIdentity
<1> USE SpawnAssumption DEF SpawnAssumption
<1>0. /\ row.by = q /\ q # NoRequest /\ rpc[q] # "none"
      /\ row.thread \in {NoRequest, q} /\ ready[q] \in {"none", "error", q}
  BY OnlyOwner DEF Recover
<1>a. /\ row = [status |-> row.status, thread |-> row.thread, by |-> q] /\ row.status \in Statuses
      /\ \A t \in {NoRequest, q}, st \in Statuses :
            row' = [row EXCEPT !.thread = t, !.status = st] => row' = [status |-> st, thread |-> t, by |-> q]
  <2>1. row \in [status : Statuses, thread : Requests \cup {NoRequest}, by : Requests \cup {NoRequest}]
    BY DEF SInv, TypeOK
  <2>2. QED
    BY <1>0, <2>1, RowOf
<1>b. ready = [ready EXCEPT ![q] = ready[q]]
  BY DEF SInv, TypeOK
<1>c. forwarded \in BOOLEAN /\ launches \in [Servers -> Requests \cup {NoRequest}]
  BY DEF SInv, TypeOK
<1>1. q \in turns /\ row.thread = NoRequest
  BY DEF Recover, SInv, OneOwner
<1>2. EndRun(q) /\ UNCHANGED <<runFrame, turns, forwarded>>
  BY DEF Recover
<1>3. launches' \in [Servers -> Requests \cup {NoRequest}] /\ rpc' = [rpc EXCEPT ![q] = "ended"]
  BY <1>2, EndRunLaunches
<1>4. \E st \in Statuses, a \in {"error", q}, t \in {NoRequest, q} :
        /\ row' = [status |-> st, thread |-> t, by |-> q]
        /\ ready' = [ready EXCEPT ![q] = a] /\ (a = q => t = q)
  <2>1. CASE row' = [row EXCEPT !.thread = q, !.status = "idle"] /\ FinishStart(q, q)
    BY <1>a, <2>1 DEF FinishStart, Statuses
  <2>2. CASE row' = [row EXCEPT !.thread = q, !.status = "failed"] /\ FinishStart(q, "error")
    BY <1>a, <2>2 DEF FinishStart, Statuses
  <2>3. CASE row' = row /\ FinishStart(q, "error")
    BY <1>a, <1>1, <2>3 DEF FinishStart
  <2>4. QED
    BY <2>1, <2>2, <2>3 DEF Recover, RecordFailure
<1>5. PICK st \in Statuses, a \in {"none", "error", q}, t \in {NoRequest, q} :
        /\ row' = [status |-> st, thread |-> t, by |-> q]
        /\ ready' = [ready EXCEPT ![q] = a] /\ (a = q => t = q)
  BY <1>4
<1>6. UNCHANGED <<up, handler, closed>> /\ turns' \in {turns, turns \cup {q}} /\ forwarded' \in BOOLEAN
      /\ "ended" \in Live \cup {"ended"} /\ (row.thread = q => t = q) /\ (t = q => q \in turns')
  BY <1>0, <1>1, <1>2, <1>c DEF runFrame
<1>7. QED
  BY <1>0, <1>3, <1>5, <1>6, OwnerStep

\* The identity is written again.
LEMMA FinishTurnSInv == ASSUME SInv, NEW q \in Requests, FinishTurn(q) PROVE SInv' /\ KeepsIdentity
<1> USE SpawnAssumption DEF SpawnAssumption
<1>0. /\ row.by = q /\ q # NoRequest /\ rpc[q] # "none"
      /\ row.thread \in {NoRequest, q} /\ ready[q] \in {"none", "error", q}
  BY OnlyOwner DEF FinishTurn
<1>a. /\ row = [status |-> row.status, thread |-> row.thread, by |-> q] /\ row.status \in Statuses
      /\ \A t \in {NoRequest, q}, st \in Statuses :
            row' = [row EXCEPT !.thread = t, !.status = st] => row' = [status |-> st, thread |-> t, by |-> q]
  <2>1. row \in [status : Statuses, thread : Requests \cup {NoRequest}, by : Requests \cup {NoRequest}]
    BY DEF SInv, TypeOK
  <2>2. QED
    BY <1>0, <2>1, RowOf
<1>b. ready = [ready EXCEPT ![q] = ready[q]]
  BY DEF SInv, TypeOK
<1>c. forwarded \in BOOLEAN /\ launches \in [Servers -> Requests \cup {NoRequest}]
  BY DEF SInv, TypeOK
<1>1. q \in turns /\ row.thread = q
  BY DEF FinishTurn, SInv, OneOwner
<1>2. UNCHANGED <<ready, runFrame, turns, forwarded>>
  BY DEF FinishTurn
<1>3. \E st \in Statuses : row' = [status |-> st, thread |-> q, by |-> q]
  <2>1. ASSUME NEW st \in Outcomes(q), row' = [row EXCEPT !.thread = q, !.status = st]
        PROVE  st \in Statuses /\ row' = [status |-> st, thread |-> q, by |-> q]
    BY <1>a, <2>1 DEF Outcomes, Statuses
  <2>2. ASSUME row' = row PROVE row.status \in Statuses /\ row' = [status |-> row.status, thread |-> q, by |-> q]
    BY <1>a, <1>1, <2>2
  <2>3. QED
    BY <2>1, <2>2 DEF FinishTurn
<1>4. /\ launches' \in [Servers -> Requests \cup {NoRequest}]
      /\ \E x \in {"forwarding", "ended"} : rpc' = [rpc EXCEPT ![q] = x]
  BY <1>c, EndRunLaunches DEF FinishTurn
<1>5. "forwarding" \in Live
  BY DEF Live
<1>6. QED
  BY <1>0, <1>1, <1>2, <1>3, <1>4, <1>5, <1>b, <1>c, OwnerStep DEF runFrame

\* Forwarding touches neither row nor turns.
LEMMA ForwardSInv == ASSUME SInv, NEW q \in Requests, Forward(q) PROVE SInv' /\ KeepsIdentity
<1> USE SpawnAssumption DEF SpawnAssumption
<1>1. TypeOK'
  BY DEF SInv, TypeOK, Statuses, Answers, Live, handler, Forward, EndRun, runFrame
<1>2. OneOwner'
  BY DEF SInv, TypeOK, OneOwner, Live, Answers, handler, Forward, EndRun, runFrame
<1>3. HandlersKnow'
  BY DEF SInv, TypeOK, OneOwner, HandlersKnow, Answers, handler, Forward, EndRun, runFrame
<1>4. AnswersDurable'
  BY DEF SInv, TypeOK, OneOwner, HandlersKnow, AnswersDurable, Answers, handler, Forward, EndRun, runFrame
<1>5. KeepsIdentity
  BY DEF SInv, TypeOK, OneOwner, KeepsIdentity, handler, Forward, EndRun, runFrame
<1>6. QED
  BY <1>1, <1>2, <1>3, <1>4, <1>5 DEF SInv

\* Shutting down touches no row.
LEMMA ShutdownSInv == ASSUME SInv, NEW s \in Servers, Shutdown(s) PROVE SInv' /\ KeepsIdentity
<1> USE SpawnAssumption DEF SpawnAssumption
<1>1. TypeOK'
  BY DEF SInv, TypeOK, Statuses, Answers, Live, handler, Shutdown
<1>2. OneOwner'
  BY DEF SInv, TypeOK, OneOwner, Live, Answers, handler, Shutdown
<1>3. HandlersKnow'
  BY DEF SInv, TypeOK, OneOwner, HandlersKnow, Answers, handler, Shutdown
<1>4. AnswersDurable'
  BY DEF SInv, TypeOK, OneOwner, HandlersKnow, AnswersDurable, Answers, handler, Shutdown
<1>5. KeepsIdentity
  BY DEF SInv, TypeOK, OneOwner, KeepsIdentity, handler, Shutdown
<1>6. QED
  BY <1>1, <1>2, <1>3, <1>4, <1>5 DEF SInv

\* A lost process answers nobody with a thread.
LEMMA VanishSInv == ASSUME SInv, NEW s \in Servers, Vanish(s) PROVE SInv' /\ KeepsIdentity
<1> USE SpawnAssumption DEF SpawnAssumption
<1>1. TypeOK'
  BY DEF SInv, TypeOK, Statuses, Answers, Live, handler, Vanish
<1>2. OneOwner'
  BY DEF SInv, TypeOK, OneOwner, Live, Answers, handler, Vanish
<1>3. HandlersKnow'
  BY DEF SInv, TypeOK, OneOwner, HandlersKnow, Answers, handler, Vanish
<1>4. AnswersDurable'
  BY DEF SInv, TypeOK, OneOwner, HandlersKnow, AnswersDurable, Answers, handler, Vanish
<1>5. KeepsIdentity
  BY DEF SInv, TypeOK, OneOwner, KeepsIdentity, handler, Vanish
<1>6. QED
  BY <1>1, <1>2, <1>3, <1>4, <1>5 DEF SInv

\* A new process knows nothing.
LEMMA RestartSInv == ASSUME SInv, NEW s \in Servers, Restart(s) PROVE SInv' /\ KeepsIdentity
<1> USE SpawnAssumption DEF SpawnAssumption
<1>1. TypeOK'
  BY DEF SInv, TypeOK, Statuses, Answers, Live, handler, Restart
<1>2. OneOwner'
  BY DEF SInv, TypeOK, OneOwner, Live, Answers, handler, Restart
<1>3. HandlersKnow'
  BY DEF SInv, TypeOK, OneOwner, HandlersKnow, Answers, handler, Restart
<1>4. AnswersDurable'
  BY DEF SInv, TypeOK, OneOwner, HandlersKnow, AnswersDurable, Answers, handler, Restart
<1>5. KeepsIdentity
  BY DEF SInv, TypeOK, OneOwner, KeepsIdentity, handler, Restart
<1>6. QED
  BY <1>1, <1>2, <1>3, <1>4, <1>5 DEF SInv

\* Closing changes the status only.
LEMMA CloseSInv == ASSUME SInv, Close PROVE SInv' /\ KeepsIdentity
<1> USE SpawnAssumption DEF SpawnAssumption
<1>1. TypeOK'
  BY DEF SInv, TypeOK, Statuses, Answers, Live, handler, Close
<1>2. OneOwner'
  BY DEF SInv, TypeOK, OneOwner, Live, Answers, handler, Close
<1>3. HandlersKnow'
  BY DEF SInv, TypeOK, OneOwner, HandlersKnow, Answers, handler, Close
<1>4. AnswersDurable'
  BY DEF SInv, TypeOK, OneOwner, HandlersKnow, AnswersDurable, Answers, handler, Close
<1>5. KeepsIdentity
  BY DEF SInv, TypeOK, OneOwner, KeepsIdentity, handler, Close
<1>6. QED
  BY <1>1, <1>2, <1>3, <1>4, <1>5 DEF SInv

\* Every step keeps the invariant and the identity.
LEMMA NextSInv == ASSUME SInv, [Next]_vars PROVE SInv' /\ KeepsIdentity
<1>1. ASSUME NEW q \in Requests, Handle(q) PROVE SInv' /\ KeepsIdentity
  BY <1>1, ReadWorkerSInv, DecideSInv, RecordRequestSInv, ReadySInv DEF Handle
<1>2. ASSUME NEW q \in Requests, Abandon(q) PROVE SInv' /\ KeepsIdentity
  BY <1>2, AbandonSInv
<1>3. ASSUME NEW q \in Requests, Run(q) PROVE SInv' /\ KeepsIdentity
  BY <1>3, FailToStartSInv, BeginTurnSInv, ObserveSInv, RecoverSInv, FinishTurnSInv,
     ForwardSInv DEF Run
<1>4. ASSUME NEW s \in Servers, Process(s) PROVE SInv' /\ KeepsIdentity
  BY <1>4, ShutdownSInv, VanishSInv, RestartSInv DEF Process, Stop, Crash
<1>5. ASSUME UNCHANGED vars PROVE SInv' /\ KeepsIdentity
  BY <1>5 DEF vars, handler, SInv, TypeOK, OneOwner, HandlersKnow, AnswersDurable, KeepsIdentity, Replays
<1>6. QED
  BY <1>1, <1>2, <1>3, <1>4, <1>5, CloseSInv DEF Next

\* Every behaviour of AppserverSpawn keeps the inductive invariant.
THEOREM SpawnInvariant == Spec => []SInv
<1>1. SInv /\ [Next]_vars => SInv'
  BY NextSInv
<1>2. QED
  BY InitSInv, <1>1, PTL DEF Spec

\* Whatever requests reach startAppserverWorker in whatever processes, at most
\* one first turn is started for the worker.
THEOREM TurnStartedOnce == Spec => []OneTurn
<1>1. SInv => OneTurn
  BY DEF SInv, TypeOK, OneOwner, OneTurn
<1>2. QED
  BY <1>1, SpawnInvariant, PTL

\* Every thread startAppserverWorker answers with is durable, real, and was
\* started for the asker's fingerprint.
THEOREM AnswersAreDurable == Spec => []AnswersDurable
<1>1. SInv => AnswersDurable
  BY DEF SInv
<1>2. QED
  BY <1>1, SpawnInvariant, PTL

\* No later write of runAppserverWorker replaces a durable identity.
THEOREM IdentityIsKept == Spec => IdentityStays
<1>1. SInv /\ [Next]_vars => [row.thread # NoRequest => row'.thread = row.thread]_vars
  BY NextSInv DEF KeepsIdentity
<1>2. QED
  BY <1>1, SpawnInvariant, PTL DEF Spec, IdentityStays

-----------------------------------------------------------------------------
(* The command.                                                            *)

\* The worker once it is saved.
Rows ==
  [status : {"idle", "pending", "running", "failed", "done"},
   thread : {"daemon", "caller", "mock", "attached", None},
   by : {"daemon", "caller", None}, uncertain : BOOLEAN]

Before == {"workspace", "bundle", "save"}

CommandTypes ==
  /\ C!TypeOK
  /\ saved \in Rows \/ saved = C!Absent
  /\ pc \notin Before \cup {"error"} => saved \in Rows

\* A runtime is asked only after the row is there and after "post" or "caller".
Asked ==
  /\ pc \in Before \cup {"status", "post", "caller"} => \A r \in C!Runtimes : run[r] = "off"
  /\ \A r \in C!Runtimes : run[r] # "off" => saved \in Rows

\* Left to itself, a run that was accepted finds no identity and a running one its own.
RunsKnow ==
  \A r \in C!Runtimes : /\ run[r] = "accepted" => saved.thread = None \/ operated
                        /\ run[r] = "running" => saved.thread = r \/ operated

\* What the command goes by is there.
Shows ==
  /\ pc = "confirm" => response \notin {None, "error"}
  /\ pc = "show" => saved.thread # None \/ operated

CommandInv ==
  CommandTypes /\ Asked /\ AskedOnce /\ RunsKnow /\ FailureGenuine /\ Shows /\ SpawnedIsDurable

\* The parts of the invariant that a step of the command, which starts no run, can disturb.
LEMMA CommandMoves ==
  ASSUME CommandInv, C!TypeOK', UNCHANGED <<run, operated>>,
         saved' = saved \/ (saved' \in Rows /\ saved \in Rows /\ saved'.thread = saved.thread /\ saved'.status = saved.status)
           \/ (saved' \in Rows /\ \A r \in C!Runtimes : run[r] = "off"),
         pc' \notin Before \cup {"error"} => saved' \in Rows,
         pc' \in Before \cup {"status", "post", "caller"} => pc \in Before \cup {"status", "post", "caller"},
         Shows', SpawnedIsDurable'
  PROVE  CommandInv'
<1>. USE DEF CommandInv
<1>1. CommandTypes' BY DEF CommandTypes
<1>2. Asked' BY DEF Asked
<1>3. AskedOnce' BY DEF AskedOnce, C!AskedOnce
<1>4. RunsKnow' BY DEF RunsKnow, Asked
<1>5. FailureGenuine' BY DEF FailureGenuine, C!FailureGenuine, Asked
<1>. QED BY <1>1, <1>2, <1>3, <1>4, <1>5

\* The parts that a step of a run can disturb: it never takes back an identity.
LEMMA RunMoves ==
  ASSUME CommandInv, NEW r \in C!Runtimes, run[r] # "off", NEW x \in {"accepted", "running", "over"},
         run' = [run EXCEPT ![r] = x], UNCHANGED <<pc, shown, operated, workspace>>, saved' \in Rows,
         response' \in C!Runtimes \cup {None, "error"}, pc = "wait" \/ UNCHANGED response,
         saved.thread # None => operated \/ saved'.thread = saved.thread,
         x = "accepted" => operated \/ saved'.thread = None,
         x = "running" => operated \/ saved'.thread = r,
         x \in {"accepted", "running"} => operated \/ saved'.status # "failed"
  PROVE  CommandInv'
<1>. USE DEF CommandInv, C!Runtimes
<1>0. run \in [C!Runtimes -> {"off", "asked", "accepted", "running", "over"}] BY DEF CommandTypes, C!TypeOK
<1>1. run'[r] = x /\ \A q \in C!Runtimes : q # r => run'[q] = run[q] /\ run[q] = "off"
  BY <1>0 DEF AskedOnce, C!AskedOnce
<1>2. CommandTypes' BY <1>0 DEF CommandTypes, C!TypeOK
<1>3. pc \notin Before \cup {"status", "post", "caller"} BY DEF Asked
<1>4. Asked' BY <1>3 DEF Asked
<1>5. AskedOnce' BY <1>1 DEF AskedOnce, C!AskedOnce
<1>6. RunsKnow' BY <1>1 DEF RunsKnow
<1>7. FailureGenuine' BY <1>1 DEF FailureGenuine, C!FailureGenuine
<1>8. Shows' BY DEF Shows
<1>9. SpawnedIsDurable' BY DEF SpawnedIsDurable, C!SpawnedIsDurable
<1>. QED BY <1>2, <1>4, <1>5, <1>6, <1>7, <1>8, <1>9

\* A runtime is asked, or is not.
LEMMA Asks ==
  ASSUME CommandInv, pc \in {"post", "caller"}, NEW r \in C!Runtimes, NEW x \in {"off", "asked"},
         run' = [run EXCEPT ![r] = x],
         UNCHANGED <<shown, operated, workspace, saved, response>>,
         pc' \in {"wait", "caller", "readback"}, pc' = "caller" => x = "off"
  PROVE  CommandInv'
<1>. USE DEF CommandInv, C!Runtimes
<1>0. /\ run \in [C!Runtimes -> {"off", "asked", "accepted", "running", "over"}]
      /\ \A q \in C!Runtimes : run[q] = "off"
  BY DEF CommandTypes, C!TypeOK, Asked
<1>1. run'[r] = x /\ \A q \in C!Runtimes : q # r => run'[q] = "off"
  BY <1>0
<1>2. saved \in Rows BY DEF CommandTypes, Before
<1>3. CommandTypes' BY <1>0, <1>2 DEF CommandTypes, C!TypeOK
<1>4. Asked' BY <1>1, <1>2 DEF Asked, Before
<1>5. AskedOnce' BY <1>1 DEF AskedOnce, C!AskedOnce
<1>6. RunsKnow' BY <1>1 DEF RunsKnow
<1>7. FailureGenuine' BY <1>1 DEF FailureGenuine, C!FailureGenuine
<1>8. Shows' /\ SpawnedIsDurable' BY DEF Shows, SpawnedIsDurable, C!SpawnedIsDurable
<1>. QED BY <1>3, <1>4, <1>5, <1>6, <1>7, <1>8

\* What the command does with its row.
LEMMA RowMoves ==
  /\ C!Worker("idle", "mock") \in Rows /\ C!Worker("failed", None) \in Rows /\ C!Worker("pending", None) \in Rows
  /\ \A w \in Rows : /\ C!Uncertain(w) \in Rows
                     /\ C!Uncertain(w).thread = w.thread /\ C!Uncertain(w).status = w.status
  BY DEF Rows, C!Worker, C!Uncertain

\* The initial state.
LEMMA CommandInit == C!Init => CommandInv
  BY CommandAssumption
  DEF C!Init, CommandInv, CommandTypes, C!TypeOK, Asked, AskedOnce, C!AskedOnce, RunsKnow, FailureGenuine,
      C!FailureGenuine, Shows, SpawnedIsDurable, C!SpawnedIsDurable, C!Absent, C!Runtimes, Before

\* The steps of the command before the launch.
LEMMA BeforeLaunch ==
  ASSUME CommandInv, C!CreateWorkspace \/ C!SpawnMock \/ C!BuildIssue \/ C!SavePending \/ C!Status
  PROVE  CommandInv'
<1>. USE DEF CommandInv
<1>0. \A r \in C!Runtimes : run[r] = "off"
  BY DEF C!CreateWorkspace, C!SpawnMock, C!BuildIssue, C!SavePending, C!Status, Asked, Before
<1>1. CASE C!CreateWorkspace
  BY <1>1, CommandMoves DEF C!CreateWorkspace, C!Prepare, C!To, CommandTypes, C!TypeOK, Before, Shows,
     SpawnedIsDurable, C!SpawnedIsDurable
<1>2. CASE C!SpawnMock
  <2>1. CASE saved' = C!Worker("idle", "mock") /\ C!To("show")
    <3>1. saved' \in Rows /\ saved'.thread # None
      BY <2>1, RowMoves, CommandAssumption DEF C!Worker, C!SpawnCommandAssumption
    <3>. QED BY <1>0, <1>2, <2>1, <3>1, CommandMoves DEF C!SpawnMock, C!To, CommandTypes, C!TypeOK, Before, Shows,
           SpawnedIsDurable, C!SpawnedIsDurable
  <2>2. CASE C!To("error") /\ UNCHANGED saved
    BY <1>2, <2>2, CommandMoves DEF C!SpawnMock, C!To, CommandTypes, C!TypeOK, Before, Shows,
       SpawnedIsDurable, C!SpawnedIsDurable
  <2>. QED BY <1>2, <2>1, <2>2 DEF C!SpawnMock
<1>3. CASE C!BuildIssue
  BY <1>0, <1>3, RowMoves, CommandMoves DEF C!BuildIssue, C!To, CommandTypes, C!TypeOK, Before, Shows,
     SpawnedIsDurable, C!SpawnedIsDurable
<1>4. CASE C!SavePending
  BY <1>0, <1>4, RowMoves, CommandMoves DEF C!SavePending, C!To, CommandTypes, C!TypeOK, Before, Shows,
     SpawnedIsDurable, C!SpawnedIsDurable
<1>5. CASE C!Status
  BY <1>5, CommandMoves DEF C!Status, C!To, CommandTypes, C!TypeOK, Before, Shows,
     SpawnedIsDurable, C!SpawnedIsDurable
<1>. QED BY <1>1, <1>2, <1>3, <1>4, <1>5

\* The launch: only an answer that proves that the daemon has not got the request lets the
\* command start its own runtime.
LEMMA Launches ==
  ASSUME CommandInv, C!Post \/ C!CallerRuntime
  PROVE  CommandInv'
<1>. USE DEF C!Runtimes
<1>0. run \in [C!Runtimes -> {"off", "asked", "accepted", "running", "over"}] BY DEF CommandInv, CommandTypes, C!TypeOK
<1>1. CASE C!Post
  <2>0. run["daemon"] = "off" BY <1>1 DEF C!Post, CommandInv, Asked
  <2>1. PICK sent \in BOOLEAN, status \in {"unavailable", "transport", "waiting"} :
       /\ status = "unavailable" => ~sent
       /\ run' = IF sent THEN [run EXCEPT !["daemon"] = "asked"] ELSE run
       /\ pc' = IF status = "waiting" THEN "wait" ELSE IF status = "unavailable" THEN "caller" ELSE "readback"
    BY <1>1 DEF C!Post, C!To, C!AppserverSpawnNeedsCallerRuntime
  <2>2. ~sent => run' = [run EXCEPT !["daemon"] = "off"] BY <1>0, <2>0, <2>1
  <2>. QED BY <1>1, <2>1, <2>2, Asks DEF C!Post
<1>2. CASE C!CallerRuntime
  <2>0. run["caller"] = "off" BY <1>2 DEF C!CallerRuntime, CommandInv, Asked
  <2>1. run' = run => run' = [run EXCEPT !["caller"] = "off"] BY <1>0, <2>0
  <2>. QED BY <1>2, <2>1, Asks DEF C!CallerRuntime, C!To
<1>. QED BY <1>1, <1>2

\* What the command makes of the answer and of the row.
LEMMA AfterLaunch ==
  ASSUME CommandInv, C!Wait \/ C!Confirm \/ C!ReadBack \/ C!Show \/ C!MarkUncertain
  PROVE  CommandInv'
<1>. USE DEF CommandInv, C!To, Before
<1>1. CASE C!Wait
  BY <1>1, CommandMoves DEF C!Wait, CommandTypes, C!TypeOK, Shows, SpawnedIsDurable, C!SpawnedIsDurable
<1>2. CASE C!Confirm
  BY <1>2, CommandMoves DEF C!Confirm, CommandTypes, C!TypeOK, Shows, SpawnedIsDurable, C!SpawnedIsDurable
<1>3. CASE C!ReadBack
  <2>1. pc' \in {"show", "error", "uncertain"} /\ (pc' = "show" => saved.thread # None)
    BY <1>3 DEF C!ReadBack, C!Identified
  <2>. QED BY <1>3, <2>1, CommandMoves DEF C!ReadBack, CommandTypes, C!TypeOK, Shows, SpawnedIsDurable, C!SpawnedIsDurable
<1>4. CASE C!Show
  BY <1>4, CommandMoves DEF C!Show, CommandTypes, C!TypeOK, Shows, SpawnedIsDurable, C!SpawnedIsDurable
<1>5. CASE C!MarkUncertain
  <2>1. saved \in Rows BY <1>5 DEF C!MarkUncertain, CommandTypes
  <2>2. saved' = saved \/ (saved' \in Rows /\ saved'.thread = saved.thread /\ saved'.status = saved.status)
    BY <1>5, <2>1, RowMoves DEF C!MarkUncertain
  <2>. QED BY <1>5, <2>1, <2>2, CommandMoves
       DEF C!MarkUncertain, CommandTypes, C!TypeOK, Shows, SpawnedIsDurable, C!SpawnedIsDurable
<1>. QED BY <1>1, <1>2, <1>3, <1>4, <1>5

\* The runtimes.
LEMMA RuntimeSteps ==
  ASSUME CommandInv, NEW r \in C!Runtimes, C!Accept(r) \/ C!StartTurn(r) \/ C!EndTurn(r) \/ C!Die(r)
  PROVE  CommandInv'
<1>0. run[r] # "off" BY DEF C!Accept, C!StartTurn, C!EndTurn, C!Die
<1>1. saved \in Rows BY <1>0 DEF CommandInv, Asked
<1>2. response \in C!Runtimes \cup {None, "error"} BY DEF CommandInv, CommandTypes, C!TypeOK
<1>3. \A a \in {"error", r} : C!Tell(r, a) =>
        response' \in C!Runtimes \cup {None, "error"} /\ (pc = "wait" \/ UNCHANGED response)
  BY <1>2 DEF C!Tell
<1>4. CASE C!Accept(r)
  <2>1. CASE /\ saved.by = None /\ saved.thread = None
             /\ saved' = [saved EXCEPT !.by = r, !.status = "pending"]
             /\ run' = [run EXCEPT ![r] = "accepted"] /\ UNCHANGED response
    <3>1. saved' \in Rows /\ saved'.thread = saved.thread /\ saved'.status = "pending"
      BY <1>1, <2>1 DEF Rows, C!Runtimes
    <3>. QED BY <1>0, <1>2, <1>4, <2>1, <3>1, RunMoves DEF C!Accept
  <2>2. CASE run' = [run EXCEPT ![r] = "over"] /\ C!Tell(r, "error") /\ UNCHANGED saved
    BY <1>0, <1>1, <1>3, <1>4, <2>2, RunMoves DEF C!Accept
  <2>. QED BY <1>4, <2>1, <2>2 DEF C!Accept
<1>5. CASE C!StartTurn(r)
  <2>0. operated \/ saved.thread = None BY <1>5 DEF C!StartTurn, CommandInv, RunsKnow
  <2>1. CASE /\ saved' = [saved EXCEPT !.thread = r, !.status = "running"]
             /\ run' = [run EXCEPT ![r] = "running"] /\ C!Tell(r, r)
    <3>1. saved' \in Rows /\ saved'.thread = r /\ saved'.status = "running"
      BY <1>1, <2>1 DEF Rows, C!Runtimes
    <3>. QED BY <1>0, <1>3, <1>5, <2>0, <2>1, <3>1, RunMoves DEF C!StartTurn
  <2>2. CASE run' = [run EXCEPT ![r] = "over"] /\ saved' \in Rows /\ \E a \in {"error", r} : C!Tell(r, a)
    BY <1>0, <1>3, <1>5, <2>0, <2>2, RunMoves DEF C!StartTurn
  <2>3. \/ saved' = saved
        \/ \E t \in {None, r}, s \in {"idle", "running", "failed"} : saved' = [saved EXCEPT !.thread = t, !.status = s]
    BY <1>5 DEF C!StartTurn
  <2>4. saved' \in Rows BY <1>1, <2>3 DEF Rows, C!Runtimes
  <2>. QED BY <1>5, <2>1, <2>2, <2>4 DEF C!StartTurn
<1>6. CASE C!EndTurn(r)
  <2>0. operated \/ saved.thread = r BY <1>6 DEF C!EndTurn, CommandInv, RunsKnow
  <2>1. saved' = saved \/ \E s \in {"idle", "done", "failed"} : saved' = [saved EXCEPT !.thread = r, !.status = s]
    BY <1>6 DEF C!EndTurn
  <2>2. saved' \in Rows /\ (saved' = saved \/ saved'.thread = r) BY <1>1, <2>1 DEF Rows, C!Runtimes
  <2>. QED BY <1>0, <1>2, <1>6, <2>0, <2>2, RunMoves DEF C!EndTurn
<1>7. CASE C!Die(r)
  BY <1>0, <1>1, <1>2, <1>7, RunMoves DEF C!Die
<1>. QED BY <1>4, <1>5, <1>6, <1>7

\* The daemon and the operator.
LEMMA OthersStep ==
  ASSUME CommandInv, C!Restart \/ C!Operate \/ UNCHANGED C!vars
  PROVE  CommandInv'
<1>1. CASE UNCHANGED <<workspace, saved, pc, shown, response, run, operated>>
  BY <1>1 DEF CommandInv, CommandTypes, C!TypeOK, Asked, AskedOnce, C!AskedOnce, RunsKnow, FailureGenuine,
     C!FailureGenuine, Shows, SpawnedIsDurable, C!SpawnedIsDurable
<1>2. CASE C!Operate
  <2>1. UNCHANGED <<workspace, pc, shown, response, run>> /\ operated' = TRUE BY <1>2 DEF C!Operate
  <2>2. saved \in Rows BY <1>2 DEF C!Operate, C!Saved, CommandInv, CommandTypes
  <2>3. saved' \in Rows BY <1>2, <2>2 DEF C!Operate, Rows
  <2>. QED BY <2>1, <2>3 DEF CommandInv, CommandTypes, C!TypeOK, Asked, AskedOnce, C!AskedOnce, RunsKnow,
       FailureGenuine, C!FailureGenuine, Shows, SpawnedIsDurable, C!SpawnedIsDurable
<1>. QED BY <1>1, <1>2 DEF C!Restart, C!vars

\* Every step of the command's side keeps the invariant.
LEMMA CommandNext == CommandInv /\ [C!Next]_C!vars => CommandInv'
  BY BeforeLaunch, Launches, AfterLaunch, RuntimeSteps, OthersStep DEF C!Next

\* The invariant of a spawn command.
THEOREM CommandInvariance == C!Spec => []CommandInv
  BY CommandInit, CommandNext, PTL DEF C!Spec

\* A second runtime is asked only when the first has certainly not got the request
\* (spawnAppserver, AppserverSpawnNeedsCallerRuntime).
THEOREM AskedOnceHolds == C!Spec => []AskedOnce
  BY CommandInvariance, PTL DEF CommandInv

\* A worker whose turn runs is never called failed by the command that gave up waiting.
THEOREM FailureGenuineHolds == C!Spec => []FailureGenuine
  BY CommandInvariance, PTL DEF CommandInv

\* A command that says spawned printed an identity that is stored, unless an operator's
\* command came between.
THEOREM SpawnedIsDurableHolds == C!Spec => []SpawnedIsDurable
  BY CommandInvariance, PTL DEF CommandInv

-----------------------------------------------------------------------------
(* The client.                                                             *)

\* How many members of S a sequence has.
Marked(s, S) == {i \in 1 .. Len(s) : s[i] \in S}
Count(s, S) == Cardinality(Marked(s, S))

Items ==
  [k : {"response"}, id : Nat, v : {"ok", "error"}] \cup [k : {"note"}, v : A!Kinds] \cup [k : {"ask", "garbage"}]

\* The notes of kind v on their way, in the server's output.
Noted(v) == {x \in Items : x.k = "note" /\ x.v = v}

Stages == {"initialize", "initialized", "thread", "steer", "turn", "observe", "wait"}

ClientTypes ==
  /\ plan \in Seq(Stages) /\ step \in {"idle", "write", "await"}
  /\ pending \in Seq({"none", "empty", "ok", "error"}) /\ nextID = Len(pending)
  /\ step # "idle" => nextID > 0
  /\ queue \in Seq(A!Kinds) /\ out \in Seq(Items)
  /\ changes \in Nat /\ reported \in Nat
  /\ phase \in {"none", "open", "ended"}
  /\ signaled \in BOOLEAN /\ closing \in BOOLEAN /\ signalSent \in BOOLEAN

\* A turn is asked for once: while it is ahead of the caller the server has not heard of
\* it, and while the request waits the turn has not begun.
Ahead == \E i \in 1 .. Len(plan) : plan[i] = "turn" /\ (i > 1 \/ step # "await")
OneRequest ==
  /\ \A i, j \in 1 .. Len(plan) : plan[i] = "turn" /\ plan[j] = "turn" => i = j
  /\ Ahead => phase = "none" /\ \A r \in requests : r.method # "turn"
  /\ \A r, q \in requests : r.method = "turn" /\ q.method = "turn" => r = q
  /\ \A r \in requests : r.id \in Nat /\ (r.method = "turn" => phase = "none")

\* A signal that was observed, or is on its way, was sent.
Signals ==
  signaled \/ closing \/ Marked(queue, {"signal"}) # {} \/ Marked(out, Noted("signal")) # {} => signalSent

\* The end of the turn is the last the server says of it.
EndIsLast ==
  /\ Marked(queue, {"completed"}) # {} => phase = "ended" /\ Marked(out, Noted("change")) = {}
  /\ Marked(out, Noted("completed")) # {} => phase = "ended"
  /\ \A i \in Marked(queue, {"completed"}), j \in Marked(queue, {"change"}) : j < i
  /\ \A i \in Marked(out, Noted("completed")), j \in Marked(out, Noted("change")) : j < i

\* A file change that was reported was collected or is on its way.
NothingMissed == reported = changes + Count(queue, {"change"}) + Count(out, Noted("change"))

\* An operation that has its result is over.
Over == result # "none" => plan = << >>

ClientInv ==
  ClientTypes /\ OneRequest /\ Signals /\ EndIsLast /\ NothingMissed /\ Over /\ A!CompletionGenuine

\* What one more, or one less, makes of the count.
LEMMA CountNat == ASSUME NEW T, NEW s \in Seq(T), NEW S PROVE IsFiniteSet(Marked(s, S)) /\ Count(s, S) \in Nat
<1>1. IsFiniteSet(1 .. Len(s))
  BY FS_Interval
<1>2. Marked(s, S) \in SUBSET (1 .. Len(s))
  BY DEF Marked
<1>3. IsFiniteSet(Marked(s, S))
  BY <1>1, <1>2, FS_Subset
<1>4. QED
  BY <1>3, FS_CardinalityType DEF Count

LEMMA CountAppend ==
  ASSUME NEW T, NEW s \in Seq(T), NEW x \in T, NEW S
  PROVE  /\ Count(Append(s, x), S) = IF x \in S THEN Count(s, S) + 1 ELSE Count(s, S)
         /\ Marked(Append(s, x), S) = IF x \in S THEN Marked(s, S) \cup {Len(s) + 1} ELSE Marked(s, S)
<1>1. Marked(Append(s, x), S) = IF x \in S THEN Marked(s, S) \cup {Len(s) + 1} ELSE Marked(s, S)
  BY DEF Marked
<1>2. IsFiniteSet(Marked(s, S)) /\ Len(s) + 1 \notin Marked(s, S)
  <2>1. Len(s) + 1 \notin Marked(s, S)
    BY DEF Marked
  <2>2. QED
    BY <2>1, CountNat
<1>3. Cardinality(Marked(s, S) \cup {Len(s) + 1}) = Cardinality(Marked(s, S)) + 1
  BY <1>2, FS_AddElement
<1>4. QED
  BY <1>1, <1>3 DEF Count

LEMMA CountTail ==
  ASSUME NEW T, NEW s \in Seq(T), s # << >>, NEW S
  PROVE  /\ Count(s, S) = IF Head(s) \in S THEN Count(Tail(s), S) + 1 ELSE Count(Tail(s), S)
         /\ \A i \in Marked(Tail(s), S) : i + 1 \in Marked(s, S)
<1> DEFINE f == [i \in Marked(Tail(s), S) |-> i + 1]
<1>1. Tail(s) \in Seq(T) /\ Len(s) \in Nat \ {0} /\ Len(Tail(s)) = Len(s) - 1 /\ Head(s) = s[1]
      /\ \A i \in 1 .. Len(Tail(s)) : Tail(s)[i] = s[i + 1]
  OBVIOUS
<1>2. \A i \in Marked(Tail(s), S) : i \in Nat /\ i + 1 \in Marked(s, S) \ {1}
  BY <1>1 DEF Marked
<1>3. \A i \in Marked(s, S) \ {1} : i - 1 \in Marked(Tail(s), S) /\ i = (i - 1) + 1
  BY <1>1 DEF Marked
<1>4. f \in Bijection(Marked(Tail(s), S), Marked(s, S) \ {1})
  <2>1. f \in [Marked(Tail(s), S) -> Marked(s, S) \ {1}]
    BY <1>2
  <2>2. \A i, j \in Marked(Tail(s), S) : f[i] = f[j] => i = j
    BY <1>2
  <2>3. \A j \in Marked(s, S) \ {1} : \E i \in Marked(Tail(s), S) : f[i] = j
    BY <1>3
  <2>4. QED
    BY <2>1, <2>2, <2>3 DEF Bijection, Injection, Surjection, IsInjective
<1>5. IsFiniteSet(Marked(Tail(s), S)) /\ IsFiniteSet(Marked(s, S))
  BY <1>1, CountNat
<1>6. Cardinality(Marked(Tail(s), S)) = Cardinality(Marked(s, S) \ {1})
  BY <1>4, <1>5, FS_Bijection DEF ExistsBijection
<1>7. 1 \in Marked(s, S) <=> Head(s) \in S
  BY <1>1 DEF Marked
<1>8. CASE Head(s) \in S
  <2>1. Cardinality(Marked(s, S) \ {1}) = Cardinality(Marked(s, S)) - 1
    BY <1>5, <1>7, <1>8, FS_RemoveElement
  <2>2. Count(s, S) \in Nat /\ Count(Tail(s), S) \in Nat
    BY <1>1, CountNat
  <2>3. QED
    BY <1>2, <1>6, <1>8, <2>1, <2>2 DEF Count
<1>9. CASE Head(s) \notin S
  <2>1. Marked(s, S) \ {1} = Marked(s, S)
    BY <1>7, <1>9
  <2>2. QED
    BY <1>2, <1>6, <1>9, <2>1 DEF Count
<1>10. QED
  BY <1>8, <1>9

LEMMA CountNone == ASSUME NEW s, NEW S, Marked(s, S) = {} PROVE Count(s, S) = 0
  BY FS_EmptySet DEF Count

\* Every plan asks for at most one turn.
LEMMA Plans ==
  \A p \in {A!Check, A!Resume, A!SteerTurn, A!RunTurn} :
    p \in Seq(Stages) /\ \A i \in 1 .. Len(p) : p[i] = "turn" => i = 4
<1>1. A!Check \in Seq(Stages) /\ \A i \in 1 .. Len(A!Check) : A!Check[i] = "turn" => i = 4
  BY DEF A!Check, Stages
<1>2. A!Resume \in Seq(Stages) /\ \A i \in 1 .. Len(A!Resume) : A!Resume[i] = "turn" => i = 4
  BY DEF A!Resume, Stages
<1>3. A!SteerTurn \in Seq(Stages) /\ \A i \in 1 .. Len(A!SteerTurn) : A!SteerTurn[i] = "turn" => i = 4
  BY DEF A!SteerTurn, Stages
<1>4. A!RunTurn \in Seq(Stages) /\ \A i \in 1 .. Len(A!RunTurn) : A!RunTurn[i] = "turn" => i = 4
  BY DEF A!RunTurn, Stages
<1>5. QED
  BY <1>1, <1>2, <1>3, <1>4

\* Nothing is sent or asked for at first.
LEMMA ClientInit == A!Init => ClientInv
<1>1. SUFFICES ASSUME A!Init PROVE ClientInv
  OBVIOUS
<1>2. plan \in {A!Check, A!Resume, A!SteerTurn, A!RunTurn} /\ step = "idle" /\ nextID = 0 /\ pending = << >>
  BY <1>1 DEF A!Init
<1>3. /\ queue = << >> /\ out = << >> /\ result = "none"
      /\ signaled = FALSE /\ closing = FALSE /\ signalSent = FALSE /\ changes = 0 /\ reported = 0
      /\ phase = "none" /\ requests = {}
  BY <1>1 DEF A!Init
<1>4. plan \in Seq(Stages) /\ \A i \in 1 .. Len(plan) : plan[i] = "turn" => i = 4
  BY <1>2, Plans
<1>5. ClientTypes
  <2>1. pending \in Seq({"none", "empty", "ok", "error"}) /\ nextID = Len(pending)
    BY <1>2
  <2>2. queue \in Seq(A!Kinds) /\ out \in Seq(Items)
    BY <1>3
  <2>3. QED
    BY <1>2, <1>3, <1>4, <2>1, <2>2 DEF ClientTypes
<1>6. OneRequest
  BY <1>3, <1>4 DEF OneRequest
<1>7. \A S : Marked(queue, S) = {} /\ Marked(out, S) = {}
  BY <1>3 DEF Marked
<1>8. \A S : Count(queue, S) = 0 /\ Count(out, S) = 0
  BY <1>7, CountNone
<1>9. Signals /\ EndIsLast
  BY <1>3, <1>7 DEF Signals, EndIsLast
<1>10. NothingMissed
  BY <1>3, <1>8 DEF NothingMissed
<1>11. QED
  BY <1>3, <1>5, <1>6, <1>9, <1>10 DEF ClientInv, Over, A!CompletionGenuine

\* A step that neither sends, reads nor collects.
LEMMA Quiet ==
  ASSUME ClientInv, UNCHANGED <<queue, out, changes, reported, phase, signaled, closing, signalSent>>,
         ClientTypes', OneRequest', Over', result' # result => result' \notin {"completed", "warned"}
  PROVE  ClientInv'
<1>1. Signals' /\ EndIsLast' /\ NothingMissed'
  BY DEF ClientInv, Signals, EndIsLast, NothingMissed, Marked, Count
<1>2. (A!CompletionGenuine)'
  BY DEF ClientInv, A!CompletionGenuine
<1>3. QED
  BY <1>1, <1>2 DEF ClientInv

\* The plan goes on, ends or stays: a turn that is ahead was ahead.
LEMMA PlanMoves ==
  ASSUME ClientInv, UNCHANGED <<requests, phase>>,
         \/ plan' = << >>
         \/ plan # << >> /\ plan' = Tail(plan)
         \/ plan' = plan /\ (step = "await" => step' = "await" \/ plan = << >> \/ plan[1] # "turn")
  PROVE  OneRequest' /\ plan' \in Seq(Stages)
<1>0. plan \in Seq(Stages) /\ OneRequest
  BY DEF ClientInv, ClientTypes
<1>1. CASE plan' = << >>
  BY <1>0, <1>1 DEF OneRequest, Ahead
<1>2. CASE plan # << >> /\ plan' = Tail(plan)
  <2>1. plan' \in Seq(Stages) /\ Len(plan') = Len(plan) - 1 /\ Len(plan) \in Nat
        /\ \A i \in 1 .. Len(plan') : plan'[i] = plan[i + 1] /\ i + 1 \in 1 .. Len(plan)
    BY <1>0, <1>2
  <2>2. Ahead' => Ahead
    BY <2>1 DEF Ahead
  <2>3. ASSUME NEW i \in 1 .. Len(plan'), NEW j \in 1 .. Len(plan'), plan'[i] = "turn", plan'[j] = "turn" PROVE i = j
    <3>1. i + 1 = j + 1
      BY <1>0, <2>1, <2>3 DEF OneRequest
    <3>2. QED
      BY <3>1
  <2>4. QED
    BY <1>0, <2>1, <2>2, <2>3 DEF OneRequest
<1>3. CASE plan' = plan /\ (step = "await" => step' = "await" \/ plan = << >> \/ plan[1] # "turn")
  <2>1. Ahead' => Ahead
    BY <1>0, <1>3 DEF Ahead
  <2>2. QED
    BY <1>0, <1>3, <2>1 DEF OneRequest
<1>4. QED
  BY <1>1, <1>2, <1>3

\* The operation ends without a completion, or goes on with its next stage.
LEMMA EndsOrAdvances ==
  ASSUME ClientInv, A!Running, NEW v \in {"ok", "error", "cancelled"}, A!Advance \/ A!End(v),
         pending' \in Seq({"none", "empty", "ok", "error"}), nextID' = Len(pending'),
         step' \in {"idle", "write", "await"}, step' # "idle" => nextID' > 0,
         UNCHANGED <<requests, queue, out, changes, reported, phase, signaled, closing, signalSent>>
  PROVE  ClientInv'
<1>1. \/ plan' = << >> /\ result' \in {"ok", "error", "cancelled"}
      \/ plan' = Tail(plan) /\ result' = result
  BY DEF A!Advance, A!End
<1>2. plan # << >> /\ result = "none"
  BY DEF A!Running, ClientInv, Over
<1>3. OneRequest' /\ plan' \in Seq(Stages)
  BY <1>1, <1>2, PlanMoves
<1>4. ClientTypes' /\ Over'
  BY <1>1, <1>2, <1>3 DEF ClientInv, ClientTypes, Over
<1>5. QED
  BY <1>1, <1>3, <1>4, Quiet

\* A call that returns.
LEMMA ReturnKeeps ==
  ASSUME ClientInv, A!Running, step # "idle", NEW v \in {"ok", "error", "cancelled"}, A!Return(v), UNCHANGED requests
  PROVE  ClientInv'
<1>1. /\ pending' = [pending EXCEPT ![nextID] = "none"] /\ step' = "idle"
      /\ UNCHANGED <<nextID, queue, out, changes, reported, phase, signaled, closing, signalSent>>
  BY DEF A!Return, A!server
<1>2. pending' \in Seq({"none", "empty", "ok", "error"}) /\ nextID' = Len(pending')
  <2>1. pending \in Seq({"none", "empty", "ok", "error"}) /\ nextID = Len(pending) /\ nextID \in 1 .. Len(pending)
    BY DEF ClientInv, ClientTypes
  <2>2. QED
    BY <1>1, <2>1, ExceptSeq
<1>3. CASE A!Steering
  <2>1. plan' = plan /\ result' = result
    BY <1>3 DEF A!Return
  <2>2. plan[1] # "turn" /\ plan # << >>
    BY <1>3 DEF A!Steering, A!Stage, A!Running, ClientInv, ClientTypes
  <2>3. OneRequest' /\ plan' \in Seq(Stages)
    BY <1>1, <2>1, <2>2, PlanMoves
  <2>4. ClientTypes' /\ Over'
    BY <1>1, <1>2, <2>1, <2>3 DEF ClientInv, ClientTypes, Over
  <2>5. QED
    BY <1>1, <2>1, <2>3, <2>4, Quiet
<1>4. CASE ~A!Steering
  <2>1. A!Advance \/ A!End(v)
    BY <1>4 DEF A!Return
  <2>2. QED
    BY <1>1, <1>2, <2>1, EndsOrAdvances
<1>5. QED
  BY <1>3, <1>4

\* Call: the request is registered, written and answered.
LEMMA CallsKeep ==
  ASSUME ClientInv, A!Register \/ A!Write \/ A!Await
  PROVE  ClientInv'
<1>0. ClientTypes /\ OneRequest /\ Over
  BY DEF ClientInv
<1>1. CASE A!Register
  <2>1. /\ pending' = Append(pending, "empty") /\ nextID' = nextID + 1 /\ step = "idle" /\ step' = "write"
        /\ UNCHANGED <<plan, requests, result, queue, out, changes, reported, phase, signaled, closing, signalSent>>
    BY <1>1 DEF A!Register, A!waitState, A!server
  <2>2. ClientTypes' /\ Over'
    BY <1>0, <2>1 DEF ClientTypes, Over
  <2>3. OneRequest'
    BY <2>1, PlanMoves
  <2>4. QED
    BY <2>1, <2>2, <2>3, Quiet
<1>2. CASE A!Write
  <2>1. CASE A!Return("error") /\ UNCHANGED requests
    BY <1>2, <2>1, ReturnKeeps DEF A!Write
  <2>2. CASE ~(A!Return("error") /\ UNCHANGED requests)
    <3>1. /\ plan # << >> /\ step = "write" /\ step' = "await" /\ requests' = requests \cup {[id |-> nextID, method |-> A!Stage]}
          /\ UNCHANGED <<plan, nextID, pending, result, queue, out, changes, reported, phase, signaled, closing, signalSent>>
      BY <1>2, <2>2 DEF A!Write, A!Running, A!waitState, A!server
    <3>2. ClientTypes' /\ Over'
      BY <1>0, <3>1 DEF ClientTypes, Over
    <3>3. A!Stage = plan[1] /\ 1 \in 1 .. Len(plan)
      BY <1>0, <3>1 DEF A!Stage, ClientTypes
    <3>4. Ahead' => Ahead /\ plan[1] # "turn"
      BY <1>0, <3>1, <3>3 DEF Ahead, OneRequest, ClientTypes
    <3>5. A!Stage = "turn" => Ahead
      BY <3>1, <3>3 DEF Ahead
    <3>6. OneRequest'
      <4>1. \A r \in requests' : r \in requests \/ (r.method = A!Stage /\ r = [id |-> nextID, method |-> A!Stage])
        BY <3>1
      <4>2. nextID \in Nat
        BY <1>0 DEF ClientTypes
      <4>3. QED
        BY <1>0, <3>1, <3>3, <3>4, <3>5, <4>1, <4>2 DEF OneRequest
    <3>7. QED
      BY <3>1, <3>2, <3>6, Quiet
  <2>3. QED
    BY <2>1, <2>2
<1>3. CASE A!Await
  <2>1. pending[nextID] \notin {"none", "empty"} => pending[nextID] \in {"ok", "error"}
    BY <1>0, <1>3 DEF ClientTypes, A!Await
  <2>2. QED
    BY <1>3, <2>1, ReturnKeeps DEF A!Await
<1>4. QED
  BY <1>1, <1>2, <1>3

\* The steps between the calls that end the operation without a completion, or go on.
LEMMA StagesKeep ==
  ASSUME ClientInv, A!Initialized \/ A!Observe \/ A!Cancelled \/ A!IdleTimeout \/ A!SteerTick
  PROVE  ClientInv'
<1>0. ClientTypes /\ Over /\ OneRequest
  BY DEF ClientInv
<1>1. CASE A!SteerTick
  <2>1. UNCHANGED <<plan, step, nextID, pending, requests, result, queue, out, changes, reported, phase,
                    signaled, closing, signalSent>>
    BY <1>1 DEF A!SteerTick, A!callState, A!server
  <2>2. ClientTypes' /\ Over' /\ OneRequest'
    BY <1>0, <2>1 DEF ClientTypes, Over, OneRequest, Ahead
  <2>3. QED
    BY <2>1, <2>2, Quiet
<1>2. CASE A!Initialized \/ A!Observe \/ A!Cancelled \/ A!IdleTimeout
  <2>1. A!Running /\ \E v \in {"ok", "error", "cancelled"} : A!Advance \/ A!End(v)
    BY <1>2 DEF A!Initialized, A!Observe, A!Cancelled, A!IdleTimeout, A!Selecting
  <2>2. UNCHANGED <<step, nextID, pending, requests, queue, out, changes, reported, phase, signaled, closing, signalSent>>
    BY <1>2 DEF A!Initialized, A!Observe, A!Cancelled, A!IdleTimeout, A!callState, A!waitState, A!server, A!loopFrame
  <2>3. QED
    BY <1>0, <2>1, <2>2, EndsOrAdvances DEF ClientTypes
<1>3. QED
  BY <1>1, <1>2

\* The end of the operation with a result of which only CompletionGenuine is left to show.
LEMMA Concludes ==
  ASSUME ClientInv, plan' = << >> \/ (plan' = plan /\ result' = result), UNCHANGED <<step, nextID, pending, requests, phase>>
  PROVE  /\ OneRequest' /\ Over'
         /\ plan' \in Seq(Stages) /\ pending' \in Seq({"none", "empty", "ok", "error"}) /\ nextID' = Len(pending')
         /\ step' \in {"idle", "write", "await"} /\ (step' # "idle" => nextID' > 0)
<1>1. OneRequest' /\ plan' \in Seq(Stages)
  BY PlanMoves
<1>2. QED
  BY <1>1 DEF ClientInv, ClientTypes, Over

\* The completion timer runs only after a signal.
LEMMA CompletionTimeoutKeeps ==
  ASSUME ClientInv, A!CompletionTimeout
  PROVE  ClientInv'
<1>1. /\ closing /\ plan' = << >> /\ result' = "warned"
      /\ UNCHANGED <<step, nextID, pending, requests, queue, out, changes, reported, phase, signaled, closing, signalSent>>
  BY DEF A!CompletionTimeout, A!End, A!loopFrame, A!callState, A!server
<1>2. ClientTypes' /\ OneRequest' /\ Over'
  BY <1>1, Concludes DEF ClientInv, ClientTypes
<1>3. Signals' /\ EndIsLast' /\ NothingMissed' /\ signalSent'
  BY <1>1 DEF ClientInv, Signals, EndIsLast, NothingMissed, Marked, Count
<1>4. QED
  BY <1>1, <1>2, <1>3 DEF ClientInv, A!CompletionGenuine

\* What the channel holds after its first notification was taken.
LEMMA Taken ==
  ASSUME ClientInv, queue # << >>, queue' = Tail(queue), UNCHANGED <<out, phase>>
  PROVE  /\ queue' \in Seq(A!Kinds) /\ Head(queue) \in A!Kinds /\ EndIsLast'
         /\ \A S : Marked(queue', S) # {} => Marked(queue, S) # {}
         /\ \A S : Head(queue) \in S => 1 \in Marked(queue, S)
         /\ \A S : Count(queue, S) = IF Head(queue) \in S THEN Count(queue', S) + 1 ELSE Count(queue', S)
<1>0. queue \in Seq(A!Kinds) /\ EndIsLast
  BY DEF ClientInv, ClientTypes
<1>1. queue' \in Seq(A!Kinds) /\ Head(queue) \in A!Kinds /\ Head(queue) = queue[1] /\ Len(queue) \in Nat \ {0}
  BY <1>0
<1>2. ASSUME NEW S PROVE \A i \in Marked(queue', S) : i + 1 \in Marked(queue, S) /\ i \in Nat
  <2>1. \A i \in Marked(queue', S) : i \in Nat
    BY <1>1 DEF Marked
  <2>2. QED
    BY <1>0, <2>1, CountTail
<1>3. ASSUME NEW S PROVE Count(queue, S) = IF Head(queue) \in S THEN Count(queue', S) + 1 ELSE Count(queue', S)
  BY <1>0, CountTail
<1>4. ASSUME NEW S, Head(queue) \in S PROVE 1 \in Marked(queue, S)
  BY <1>1, <1>4 DEF Marked
<1>5. EndIsLast'
  <2>1. \A S : UNCHANGED Marked(out, S)
    BY DEF Marked
  <2>2. \A i \in Marked(queue', {"completed"}), j \in Marked(queue', {"change"}) : j < i
    <3>1. SUFFICES ASSUME NEW i \in Marked(queue', {"completed"}), NEW j \in Marked(queue', {"change"}) PROVE j < i
      OBVIOUS
    <3>2. i \in Nat /\ j \in Nat /\ j + 1 < i + 1
      BY <1>0, <1>2 DEF EndIsLast
    <3>3. QED
      BY <3>2
  <2>3. Marked(queue', {"completed"}) # {} => Marked(queue, {"completed"}) # {}
    BY <1>2
  <2>4. QED
    BY <1>0, <2>1, <2>2, <2>3 DEF EndIsLast
<1>6. QED
  BY <1>1, <1>2, <1>3, <1>4, <1>5

\* Consume: a completion is the last of its turn, so no change is left behind it.
LEMMA ConsumeKeeps ==
  ASSUME ClientInv, A!Consume
  PROVE  ClientInv'
<1>0. ClientTypes /\ Signals /\ EndIsLast /\ NothingMissed /\ Over /\ A!CompletionGenuine
  BY DEF ClientInv
<1>1. /\ A!Running /\ queue # << >> /\ queue' = Tail(queue)
      /\ UNCHANGED <<step, nextID, pending, requests, out, reported, phase, signalSent>>
  BY DEF A!Consume, A!Selecting, A!loopFrame, A!callState, A!server
<1>2. /\ queue' \in Seq(A!Kinds) /\ Head(queue) \in A!Kinds /\ EndIsLast'
      /\ \A S : Marked(queue', S) # {} => Marked(queue, S) # {}
      /\ \A S : Head(queue) \in S => 1 \in Marked(queue, S)
      /\ \A S : Count(queue, S) = IF Head(queue) \in S THEN Count(queue', S) + 1 ELSE Count(queue', S)
  BY <1>1, Taken
<1>3. result = "none"
  BY <1>0, <1>1 DEF A!Running, Over
<1>4. Count(queue', {"change"}) \in Nat /\ Count(out, Noted("change")) \in Nat
  BY <1>0, <1>2, CountNat DEF ClientTypes
<1>5. Count(out, Noted("change"))' = Count(out, Noted("change")) /\ Marked(out, Noted("signal"))' = Marked(out, Noted("signal"))
  BY <1>1 DEF Count, Marked, Noted
<1>6. CASE Head(queue) \in {"failed", "garbled"}
  <2>1. /\ plan' = << >> /\ result' = (IF signaled THEN "warned" ELSE "error")
        /\ UNCHANGED <<signaled, closing, changes>>
    BY <1>6 DEF A!Consume, A!End
  <2>2. OneRequest' /\ Over' /\ ClientTypes'
    BY <1>0, <1>1, <1>2, <2>1, Concludes DEF ClientTypes
  <2>3. Signals'
    BY <1>0, <1>1, <1>2, <1>5, <2>1 DEF Signals
  <2>4. NothingMissed'
    BY <1>0, <1>1, <1>2, <1>4, <1>5, <1>6, <2>1 DEF NothingMissed
  <2>5. (A!CompletionGenuine)'
    BY <1>0, <1>1, <2>1 DEF A!CompletionGenuine, Signals, ClientTypes
  <2>6. QED
    BY <1>2, <2>2, <2>3, <2>4, <2>5 DEF ClientInv
<1>7. CASE Head(queue) = "completed"
  <2>1. plan' = << >> /\ result' = "completed" /\ UNCHANGED <<signaled, closing, changes>>
    BY <1>7 DEF A!Consume, A!End
  <2>2. OneRequest' /\ Over' /\ ClientTypes'
    BY <1>0, <1>1, <1>2, <2>1, Concludes DEF ClientTypes
  <2>3. Signals'
    BY <1>0, <1>1, <1>2, <1>5, <2>1 DEF Signals
  <2>4. NothingMissed'
    BY <1>0, <1>1, <1>2, <1>4, <1>5, <1>7, <2>1 DEF NothingMissed
  <2>5. 1 \in Marked(queue, {"completed"})
    BY <1>2, <1>7
  <2>6. phase = "ended" /\ Marked(out, Noted("change")) = {}
    BY <1>0, <2>5 DEF EndIsLast
  <2>7. Marked(queue, {"change"}) = {}
    <3>1. \A j \in Marked(queue, {"change"}) : j < 1 /\ j \in Nat /\ j >= 1
      BY <1>0, <2>5 DEF EndIsLast, Marked
    <3>2. QED
      BY <3>1
  <2>8. reported = changes
    BY <1>0, <2>6, <2>7, CountNone DEF NothingMissed, ClientTypes
  <2>9. QED
    BY <1>1, <1>2, <2>1, <2>2, <2>3, <2>4, <2>6, <2>8 DEF ClientInv, A!CompletionGenuine
<1>8. CASE Head(queue) = "signal" /\ Signal /\ ~signaled
  <2>1. /\ signaled' = TRUE /\ changes' = changes
        /\ \/ closing' = TRUE /\ plan' = plan /\ result' = result
           \/ plan' = << >> /\ result' = "warned" /\ closing' = closing
    BY <1>8 DEF A!Consume, A!ObserveSignal, A!Undecided, A!End
  <2>2. signalSent
    BY <1>0, <1>2, <1>8 DEF Signals
  <2>3. OneRequest' /\ Over' /\ ClientTypes'
    BY <1>0, <1>1, <1>2, <2>1, Concludes DEF ClientTypes
  <2>4. NothingMissed'
    BY <1>0, <1>1, <1>2, <1>4, <1>5, <1>8, <2>1 DEF NothingMissed
  <2>5. QED
    BY <1>1, <1>2, <1>3, <2>1, <2>2, <2>3, <2>4 DEF ClientInv, Signals, A!CompletionGenuine
<1>9. CASE Head(queue) \notin {"failed", "garbled", "completed"} /\ ~(Head(queue) = "signal" /\ Signal /\ ~signaled)
  <2>1. /\ changes' = (IF Head(queue) = "change" THEN changes + 1 ELSE changes)
        /\ UNCHANGED <<plan, result, signaled, closing>>
    BY <1>9 DEF A!Consume, A!Undecided
  <2>2. OneRequest' /\ Over' /\ ClientTypes'
    BY <1>0, <1>1, <1>2, <2>1, Concludes DEF ClientTypes
  <2>3. Signals'
    BY <1>0, <1>1, <1>2, <1>5, <2>1 DEF Signals
  <2>4. NothingMissed'
    BY <1>0, <1>1, <1>2, <1>4, <1>5, <1>9, <2>1 DEF NothingMissed, ClientTypes
  <2>5. QED
    BY <1>2, <1>3, <2>1, <2>2, <2>3, <2>4 DEF ClientInv, A!CompletionGenuine
<1>10. QED
  BY <1>6, <1>7, <1>8, <1>9

\* What is left of the server's output when its first line was read.
LEMMA Fetched ==
  ASSUME ClientInv, out # << >>, out' = Tail(out)
  PROVE  /\ out' \in Seq(Items) /\ Head(out) \in Items
         /\ \A S : Marked(out', S) # {} => Marked(out, S) # {}
         /\ \A S : Head(out) \in S => 1 \in Marked(out, S)
         /\ \A S : Count(out, S) = IF Head(out) \in S THEN Count(out', S) + 1 ELSE Count(out', S)
         /\ \A i \in Marked(out', Noted("completed")), j \in Marked(out', Noted("change")) : j < i
<1>0. out \in Seq(Items) /\ EndIsLast
  BY DEF ClientInv, ClientTypes
<1>1. out' \in Seq(Items) /\ Head(out) \in Items /\ Head(out) = out[1] /\ Len(out) \in Nat \ {0}
  BY <1>0
<1>2. ASSUME NEW S PROVE \A i \in Marked(out', S) : i + 1 \in Marked(out, S) /\ i \in Nat
  <2>1. \A i \in Marked(out', S) : i \in Nat
    BY <1>1 DEF Marked
  <2>2. QED
    BY <1>0, <2>1, CountTail
<1>3. ASSUME NEW S PROVE Count(out, S) = IF Head(out) \in S THEN Count(out', S) + 1 ELSE Count(out', S)
  BY <1>0, CountTail
<1>4. ASSUME NEW S, Head(out) \in S PROVE 1 \in Marked(out, S)
  BY <1>1, <1>4 DEF Marked
<1>5. ASSUME NEW i \in Marked(out', Noted("completed")), NEW j \in Marked(out', Noted("change")) PROVE j < i
  <2>1. i \in Nat /\ j \in Nat /\ j + 1 < i + 1
    BY <1>0, <1>2 DEF EndIsLast
  <2>2. QED
    BY <2>1
<1>6. QED
  BY <1>1, <1>2, <1>3, <1>4, <1>5

\* A line that is no note about the turn changes nothing when it is read.
LEMMA FetchedQuietly ==
  ASSUME ClientInv, out # << >>, out' = Tail(out), Head(out).k # "note",
         UNCHANGED <<queue, changes, reported, phase, signaled, closing, signalSent, result>>,
         pending' \in Seq({"none", "empty", "ok", "error"}), Len(pending') = Len(pending),
         UNCHANGED <<plan, step, nextID, requests>>
  PROVE  ClientInv'
<1>0. ClientTypes /\ OneRequest /\ Signals /\ EndIsLast /\ NothingMissed /\ Over /\ A!CompletionGenuine
  BY DEF ClientInv
<1>1. /\ out' \in Seq(Items)
      /\ \A S : Marked(out', S) # {} => Marked(out, S) # {}
      /\ \A S : Count(out, S) = IF Head(out) \in S THEN Count(out', S) + 1 ELSE Count(out', S)
      /\ \A i \in Marked(out', Noted("completed")), j \in Marked(out', Noted("change")) : j < i
  BY Fetched
<1>2. Head(out) \notin Noted("change")
  BY DEF Noted
<1>3. \A S : Marked(queue, S)' = Marked(queue, S') /\ UNCHANGED Noted("change") /\ UNCHANGED Noted("completed") /\ UNCHANGED Noted("signal")
  BY DEF Marked, Noted
<1>4. ClientTypes' /\ OneRequest' /\ Over' /\ (A!CompletionGenuine)'
  BY <1>0, <1>1 DEF ClientTypes, OneRequest, Ahead, Over, A!CompletionGenuine
<1>5. Signals'
  BY <1>0, <1>1 DEF Signals
<1>6. EndIsLast'
  BY <1>0, <1>1 DEF EndIsLast
<1>7. NothingMissed'
  <2>1. Count(out', Noted("change")) = Count(out, Noted("change")) /\ Count(queue', {"change"}) = Count(queue, {"change"})
    BY <1>1, <1>2
  <2>2. QED
    BY <1>0, <2>1 DEF NothingMissed
<1>8. QED
  BY <1>4, <1>5, <1>6, <1>7 DEF ClientInv

\* Responses and approval requests are read, and a failure of the reader is told.
LEMMA ReaderQuiet ==
  ASSUME ClientInv, A!ReadResponse \/ A!ReadApproval \/ A!FailReader
  PROVE  ClientInv'
<1>0. ClientTypes /\ OneRequest /\ Over
  BY DEF ClientInv
<1>1. UNCHANGED <<plan, step, nextID, requests, changes, reported, phase, signaled, closing, signalSent, result, queue>>
  BY DEF A!ReadResponse, A!ReadApproval, A!FailReader, A!readerFrame, A!waitState, A!server
<1>2. CASE A!ReadResponse
  <2>1. out # << >> /\ out' = Tail(out) /\ Head(out).k = "response"
    BY <1>2 DEF A!ReadResponse, A!Reads
  <2>2. Head(out) \in Items
    BY <1>0, <2>1 DEF ClientTypes
  <2>3. Head(out).v \in {"ok", "error"}
    BY <2>1, <2>2 DEF Items
  <2>4. pending' \in Seq({"none", "empty", "ok", "error"}) /\ Len(pending') = Len(pending)
    <3>1. pending \in Seq({"none", "empty", "ok", "error"})
      BY <1>0 DEF ClientTypes
    <3>2. pending' = pending \/ pending' = [pending EXCEPT ![Head(out).id] = Head(out).v]
      BY <1>2 DEF A!ReadResponse
    <3>3. CASE Head(out).id \in 1 .. Len(pending)
      BY <2>3, <3>1, <3>2, <3>3, ExceptSeq
    <3>4. CASE Head(out).id \notin 1 .. Len(pending)
      <4>1. [pending EXCEPT ![Head(out).id] = Head(out).v] = pending
        BY <3>1, <3>4
      <4>2. QED
        BY <3>1, <3>2, <4>1
    <3>5. QED
      BY <3>3, <3>4
  <2>5. QED
    BY <1>1, <2>1, <2>4, FetchedQuietly
<1>3. CASE A!ReadApproval
  <2>1. out # << >> /\ out' = Tail(out) /\ Head(out).k = "ask" /\ pending' = pending
    BY <1>3 DEF A!ReadApproval, A!Reads
  <2>2. QED
    BY <1>0, <1>1, <2>1, FetchedQuietly DEF ClientTypes
<1>4. CASE A!FailReader
  <2>1. out' = out /\ pending' = [i \in DOMAIN pending |-> IF pending[i] = "empty" THEN "error" ELSE pending[i]]
    BY <1>4 DEF A!FailReader
  <2>2. pending' \in Seq({"none", "empty", "ok", "error"}) /\ Len(pending') = Len(pending)
    <3>1. pending \in Seq({"none", "empty", "ok", "error"}) /\ DOMAIN pending = 1 .. Len(pending) /\ Len(pending) \in Nat
      BY <1>0 DEF ClientTypes
    <3>2. pending' \in [1 .. Len(pending) -> {"none", "empty", "ok", "error"}]
      BY <2>1, <3>1
    <3>3. QED
      BY <3>1, <3>2
  <2>3. ClientTypes' /\ OneRequest' /\ Over'
    BY <1>0, <1>1, <2>1, <2>2 DEF ClientTypes, OneRequest, Ahead, Over
  <2>4. QED
    BY <1>1, <2>1, <2>3, Quiet
<1>5. QED
  BY <1>2, <1>3, <1>4

\* A notification goes from the output to the channel; nothing overtakes another.
LEMMA ReadNotificationKeeps ==
  ASSUME ClientInv, A!ReadNotification
  PROVE  ClientInv'
<1> DEFINE v == Head(out).v
<1>0. ClientTypes /\ OneRequest /\ Signals /\ EndIsLast /\ NothingMissed /\ Over /\ A!CompletionGenuine
  BY DEF ClientInv
<1>1. /\ out # << >> /\ out' = Tail(out) /\ Head(out).k = "note" /\ queue' = Append(queue, v)
      /\ UNCHANGED <<plan, step, nextID, pending, requests, changes, reported, phase, signaled, closing, signalSent, result>>
  BY DEF A!ReadNotification, A!Reads, A!readerFrame, A!waitState, A!server
<1>2. /\ out' \in Seq(Items) /\ Head(out) \in Items
      /\ \A S : Marked(out', S) # {} => Marked(out, S) # {}
      /\ \A S : Head(out) \in S => 1 \in Marked(out, S)
      /\ \A S : Count(out, S) = IF Head(out) \in S THEN Count(out', S) + 1 ELSE Count(out', S)
      /\ \A i \in Marked(out', Noted("completed")), j \in Marked(out', Noted("change")) : j < i
  BY <1>1, Fetched
<1>3. v \in A!Kinds
  BY <1>1, <1>2 DEF Items
<1>4. \A u : Head(out) \in Noted(u) <=> v = u
  BY <1>1, <1>2 DEF Noted
<1>5. queue \in Seq(A!Kinds) /\ queue' \in Seq(A!Kinds)
  BY <1>0, <1>1, <1>3 DEF ClientTypes
<1>6. ASSUME NEW u
      PROVE /\ Marked(queue', {u}) = IF v = u THEN Marked(queue, {u}) \cup {Len(queue) + 1} ELSE Marked(queue, {u})
            /\ Count(queue', {u}) = IF v = u THEN Count(queue, {u}) + 1 ELSE Count(queue, {u})
  <2> HIDE DEF v
  <2>1. /\ Count(Append(queue, v), {u}) = IF v \in {u} THEN Count(queue, {u}) + 1 ELSE Count(queue, {u})
        /\ Marked(Append(queue, v), {u}) = IF v \in {u} THEN Marked(queue, {u}) \cup {Len(queue) + 1} ELSE Marked(queue, {u})
    BY <1>3, <1>5, CountAppend
  <2>2. QED
    BY <1>1, <2>1
<1> HIDE DEF v
<1>7. ClientTypes' /\ OneRequest' /\ Over' /\ (A!CompletionGenuine)'
  BY <1>0, <1>1, <1>2, <1>5 DEF ClientTypes, OneRequest, Ahead, Over, A!CompletionGenuine
<1>8. Signals'
  <2>1. Marked(queue', {"signal"}) # {} => Marked(queue, {"signal"}) # {} \/ Marked(out, Noted("signal")) # {}
    BY <1>2, <1>4, <1>6
  <2>2. QED
    BY <1>0, <1>1, <1>2, <2>1 DEF Signals
<1>9. NothingMissed'
  <2>1. Count(queue, {"change"}) \in Nat /\ Count(out', Noted("change")) \in Nat
    BY <1>2, <1>5, CountNat
  <2>2. Count(queue', {"change"}) + Count(out', Noted("change")) = Count(queue, {"change"}) + Count(out, Noted("change"))
    <3>1. CASE v = "change"
      <4>1. Count(queue', {"change"}) = Count(queue, {"change"}) + 1 /\ Count(out, Noted("change")) = Count(out', Noted("change")) + 1
        BY <1>2, <1>4, <1>6, <3>1
      <4>2. QED
        BY <2>1, <4>1
    <3>2. CASE v # "change"
      BY <1>2, <1>4, <1>6, <3>2
    <3>3. QED
      BY <3>1, <3>2
  <2>3. Count(queue', {"change"}) \in Nat /\ Count(out, Noted("change")) \in Nat
    BY <1>0, <1>5, CountNat DEF ClientTypes
  <2>4. changes \in Nat /\ changes' = changes /\ reported' = reported
        /\ reported = changes + Count(queue, {"change"}) + Count(out, Noted("change"))
    BY <1>0, <1>1 DEF NothingMissed, ClientTypes
  <2>5. reported' = changes' + Count(queue', {"change"}) + Count(out', Noted("change"))
    BY <2>1, <2>2, <2>3, <2>4
  <2>6. QED
    BY <2>5 DEF NothingMissed
<1>10. EndIsLast'
  <2>1. v = "completed" => phase = "ended" /\ Marked(out, Noted("change")) = {}
    <3>1. SUFFICES ASSUME v = "completed" PROVE phase = "ended" /\ Marked(out, Noted("change")) = {}
      OBVIOUS
    <3>2. 1 \in Marked(out, Noted("completed"))
      BY <1>2, <1>4, <3>1
    <3>3. \A j \in Marked(out, Noted("change")) : j < 1 /\ j \in Nat /\ j >= 1
      BY <1>0, <3>2 DEF EndIsLast, Marked
    <3>4. QED
      BY <1>0, <3>2, <3>3 DEF EndIsLast
  <2>2. v = "change" => Marked(queue, {"completed"}) = {}
    BY <1>0, <1>2, <1>4 DEF EndIsLast
  <2>3. \A i \in Marked(queue', {"completed"}), j \in Marked(queue', {"change"}) : j < i
    <3>1. \A j \in Marked(queue, {"change"}) : j < Len(queue) + 1
      BY <1>5 DEF Marked
    <3>2. CASE v = "completed"
      BY <1>0, <1>6, <3>1, <3>2 DEF EndIsLast
    <3>3. CASE v = "change"
      BY <1>6, <2>2, <3>3
    <3>4. CASE v \notin {"completed", "change"}
      BY <1>0, <1>6, <3>4 DEF EndIsLast
    <3>5. QED
      BY <3>2, <3>3, <3>4
  <2>4. Marked(queue', {"completed"}) # {} => phase = "ended" /\ Marked(out', Noted("change")) = {}
    BY <1>0, <1>2, <1>6, <2>1 DEF EndIsLast
  <2>5. QED
    BY <1>0, <1>1, <1>2, <2>3, <2>4 DEF EndIsLast
<1>11. QED
  BY <1>7, <1>8, <1>9, <1>10 DEF ClientInv

\* The reader's last word is no note about the turn.
LEMMA ReportFailureKeeps ==
  ASSUME ClientInv, A!ReportFailure
  PROVE  ClientInv'
<1>0. ClientTypes /\ OneRequest /\ Signals /\ EndIsLast /\ NothingMissed /\ Over /\ A!CompletionGenuine
  BY DEF ClientInv
<1>1. /\ queue' = Append(queue, "failed")
      /\ UNCHANGED <<out, plan, step, nextID, pending, requests, changes, reported, phase, signaled, closing, signalSent, result>>
  BY DEF A!ReportFailure, A!readerFrame, A!waitState, A!server
<1>2. queue \in Seq(A!Kinds) /\ "failed" \in A!Kinds /\ queue' \in Seq(A!Kinds)
  BY <1>0, <1>1 DEF ClientTypes, A!Kinds
<1>3. ASSUME NEW u, u # "failed"
      PROVE Marked(queue', {u}) = Marked(queue, {u}) /\ Count(queue', {u}) = Count(queue, {u})
  <2>1. "failed" \notin {u}
    BY <1>3
  <2>2. QED
    BY <1>1, <1>2, <2>1, CountAppend
<1>4. /\ Marked(queue', {"signal"}) = Marked(queue, {"signal"}) /\ Marked(queue', {"completed"}) = Marked(queue, {"completed"})
      /\ Marked(queue', {"change"}) = Marked(queue, {"change"}) /\ Count(queue', {"change"}) = Count(queue, {"change"})
  BY <1>3
<1>5. \A u : Marked(out, Noted(u))' = Marked(out, Noted(u)) /\ Count(out, Noted(u))' = Count(out, Noted(u))
  BY <1>1 DEF Marked, Noted, Count
<1>6. ClientTypes' /\ OneRequest' /\ Over' /\ (A!CompletionGenuine)'
  BY <1>0, <1>1, <1>2 DEF ClientTypes, OneRequest, Ahead, Over, A!CompletionGenuine
<1>7. Signals' /\ EndIsLast' /\ NothingMissed'
  BY <1>0, <1>1, <1>4, <1>5 DEF Signals, EndIsLast, NothingMissed
<1>8. QED
  BY <1>6, <1>7 DEF ClientInv

\* A step of the server as far as the caller's side of the invariant goes.
LEMMA ServerFrame ==
  ASSUME ClientInv, UNCHANGED <<plan, step, nextID, pending, queue, changes, signaled, closing, result>>,
         requests' \in SUBSET requests, out' \in Seq(Items), reported' \in Nat, signalSent' \in BOOLEAN,
         signalSent => signalSent', result = "completed" => reported' = reported,
         \/ phase' = phase
         \/ phase = "open" /\ phase' = "ended"
         \/ phase = "none" /\ phase' = "open" /\ ~Ahead /\ \A r \in requests' : r.method # "turn"
  PROVE  ClientTypes' /\ OneRequest' /\ Over' /\ (A!CompletionGenuine)'
<1>0. ClientTypes /\ OneRequest /\ Over /\ A!CompletionGenuine
  BY DEF ClientInv
<1>1. ClientTypes' /\ Over'
  BY <1>0 DEF ClientTypes, Over
<1>2. Ahead' <=> Ahead
  BY DEF Ahead
<1>3. OneRequest'
  BY <1>0, <1>2 DEF OneRequest
<1>4. (A!CompletionGenuine)'
  BY <1>0 DEF A!CompletionGenuine
<1>5. QED
  BY <1>1, <1>3, <1>4

\* What the output is with one line more.
LEMMA Sent ==
  ASSUME ClientInv, NEW x \in Items, out' = Append(out, x)
  PROVE  /\ out' \in Seq(Items) /\ Len(out) \in Nat
         /\ \A S : Count(out', S) = IF x \in S THEN Count(out, S) + 1 ELSE Count(out, S)
         /\ \A S : Marked(out', S) = IF x \in S THEN Marked(out, S) \cup {Len(out) + 1} ELSE Marked(out, S)
<1>1. out \in Seq(Items)
  BY DEF ClientInv, ClientTypes
<1>2. QED
  BY <1>1, CountAppend

\* Answers, approval requests and what cannot be decoded are no notes.
LEMMA SentQuietly ==
  ASSUME ClientInv, NEW x \in Items, x.k # "note", out' = Append(out, x),
         UNCHANGED <<plan, step, nextID, pending, queue, changes, signaled, closing, result, reported, signalSent>>,
         requests' \in SUBSET requests,
         \/ phase' = phase
         \/ phase = "none" /\ phase' = "open" /\ ~Ahead /\ \A r \in requests' : r.method # "turn"
  PROVE  ClientInv'
<1>0. ClientTypes /\ Signals /\ EndIsLast /\ NothingMissed
  BY DEF ClientInv
<1>1. \A u : x \notin Noted(u)
  BY DEF Noted
<1>2. out' \in Seq(Items) /\ \A u : Marked(out', Noted(u)) = Marked(out, Noted(u)) /\ Count(out', Noted(u)) = Count(out, Noted(u))
  BY <1>1, Sent
<1>3. ClientTypes' /\ OneRequest' /\ Over' /\ (A!CompletionGenuine)'
  BY <1>0, <1>2, ServerFrame DEF ClientTypes
<1>4. Signals'
  BY <1>0, <1>2 DEF Signals
<1>5. EndIsLast'
  BY <1>0, <1>2 DEF EndIsLast
<1>6. NothingMissed'
  BY <1>0, <1>2 DEF NothingMissed
<1>7. QED
  BY <1>3, <1>4, <1>5, <1>6 DEF ClientInv

\* Answer, Ask, Garble: a turn begins with the answer to the one request for it.
LEMMA RepliesKeep ==
  ASSUME ClientInv, A!Answer \/ A!Ask \/ A!Garble
  PROVE  ClientInv'
<1>0. ClientTypes /\ OneRequest
  BY DEF ClientInv
<1>1. UNCHANGED <<plan, step, nextID, pending, queue, changes, signaled, closing, result, reported, signalSent>>
  BY DEF A!Answer, A!Ask, A!Garble, A!clientFrame, A!waitState
<1>2. CASE A!Answer
  <2>1. PICK r \in requests, v \in {"ok", "error"} :
          /\ out' = Append(out, [k |-> "response", id |-> r.id, v |-> v])
          /\ requests' = requests \ {r}
          /\ phase' = IF r.method = "turn" /\ v = "ok" THEN "open" ELSE phase
    BY <1>2 DEF A!Answer, A!Send
  <2>2. [k |-> "response", id |-> r.id, v |-> v] \in Items
    BY <1>0 DEF Items, OneRequest
  <2>3. r.method = "turn" => phase = "none" /\ ~Ahead /\ \A q \in requests' : q.method # "turn"
    BY <1>0, <2>1 DEF OneRequest
  <2>4. QED
    BY <1>1, <2>1, <2>2, <2>3, SentQuietly
<1>3. CASE A!Ask
  <2>1. out' = Append(out, [k |-> "ask"]) /\ UNCHANGED <<requests, phase>> /\ [k |-> "ask"] \in Items
    BY <1>3 DEF A!Ask, A!Send, Items
  <2>2. QED
    BY <1>1, <2>1, SentQuietly
<1>4. CASE A!Garble
  <2>1. out' = Append(out, [k |-> "garbage"]) /\ UNCHANGED <<requests, phase>> /\ [k |-> "garbage"] \in Items
    BY <1>4 DEF A!Garble, A!Send, Items
  <2>2. QED
    BY <1>1, <2>1, SentQuietly
<1>5. QED
  BY <1>2, <1>3, <1>4

\* No end of the turn is on its way before the turn has ended.
LEMMA NotEnded ==
  ASSUME ClientInv, phase # "ended"
  PROVE  Marked(queue, {"completed"}) = {} /\ Marked(out, Noted("completed")) = {} /\ result # "completed"
  BY DEF ClientInv, EndIsLast, A!CompletionGenuine

\* Announce: a change that is reported is on its way, and a signal was sent.
LEMMA AnnounceKeeps ==
  ASSUME ClientInv, A!Announce
  PROVE  ClientInv'
<1>0. ClientTypes /\ Signals /\ EndIsLast /\ NothingMissed
  BY DEF ClientInv
<1>1. UNCHANGED <<plan, step, nextID, pending, queue, changes, signaled, closing, result, requests, phase>> /\ phase # "ended"
  BY DEF A!Announce, A!clientFrame, A!waitState
<1>2. PICK v \in {"signal", "change", "other"} :
        /\ out' = Append(out, [k |-> "note", v |-> v])
        /\ reported' = IF v = "change" THEN reported + 1 ELSE reported
        /\ signalSent' = (signalSent \/ v = "signal")
  BY DEF A!Announce, A!Send
<1>3. [k |-> "note", v |-> v] \in Items /\ \A u : [k |-> "note", v |-> v] \in Noted(u) <=> u = v
  BY DEF Items, Noted, A!Kinds
<1>4. /\ out' \in Seq(Items)
      /\ \A u : Marked(out', Noted(u)) = IF u = v THEN Marked(out, Noted(u)) \cup {Len(out) + 1} ELSE Marked(out, Noted(u))
      /\ \A u : Count(out', Noted(u)) = IF u = v THEN Count(out, Noted(u)) + 1 ELSE Count(out, Noted(u))
  BY <1>2, <1>3, Sent
<1>5. Marked(queue, {"completed"}) = {} /\ Marked(out, Noted("completed")) = {} /\ result # "completed"
  BY <1>1, NotEnded
<1>6. reported' \in Nat /\ signalSent' \in BOOLEAN /\ (signalSent => signalSent')
  BY <1>0, <1>2 DEF ClientTypes
<1>7. ClientTypes' /\ OneRequest' /\ Over' /\ (A!CompletionGenuine)'
  BY <1>1, <1>4, <1>5, <1>6, ServerFrame
<1>8. Signals'
  <2>1. v # "signal" => Marked(out', Noted("signal")) = Marked(out, Noted("signal"))
    BY <1>4
  <2>2. QED
    BY <1>0, <1>1, <1>2, <2>1 DEF Signals
<1>9. EndIsLast'
  <2>1. Marked(out', Noted("completed")) = {} /\ Marked(queue', {"completed"}) = {}
    BY <1>1, <1>4, <1>5
  <2>2. QED
    BY <2>1 DEF EndIsLast
<1>10. NothingMissed'
  <2>1. Count(queue, {"change"}) \in Nat /\ Count(out, Noted("change")) \in Nat
    BY <1>0, CountNat DEF ClientTypes
  <2>2. Count(out', Noted("change")) = IF v = "change" THEN Count(out, Noted("change")) + 1 ELSE Count(out, Noted("change"))
    BY <1>4
  <2>3. QED
    BY <1>0, <1>1, <1>2, <2>1, <2>2 DEF NothingMissed, ClientTypes
<1>11. QED
  BY <1>7, <1>8, <1>9, <1>10 DEF ClientInv

\* EndTurn: the end is behind every change that was reported.
LEMMA EndTurnKeeps ==
  ASSUME ClientInv, A!EndTurn
  PROVE  ClientInv'
<1>0. ClientTypes /\ Signals /\ EndIsLast /\ NothingMissed
  BY DEF ClientInv
<1>1. /\ UNCHANGED <<plan, step, nextID, pending, queue, changes, signaled, closing, result, requests, reported, signalSent>>
      /\ phase = "open" /\ phase' = "ended"
  BY DEF A!EndTurn, A!clientFrame, A!waitState
<1>2. PICK v \in {"completed", "garbled"} : out' = Append(out, [k |-> "note", v |-> v])
  BY DEF A!EndTurn, A!Send
<1>3. [k |-> "note", v |-> v] \in Items /\ \A u : [k |-> "note", v |-> v] \in Noted(u) <=> u = v
  BY DEF Items, Noted, A!Kinds
<1>4. /\ out' \in Seq(Items) /\ Len(out) \in Nat
      /\ \A u : Marked(out', Noted(u)) = IF u = v THEN Marked(out, Noted(u)) \cup {Len(out) + 1} ELSE Marked(out, Noted(u))
      /\ \A u : Count(out', Noted(u)) = IF u = v THEN Count(out, Noted(u)) + 1 ELSE Count(out, Noted(u))
  BY <1>2, <1>3, Sent
<1>5. Marked(queue, {"completed"}) = {} /\ Marked(out, Noted("completed")) = {} /\ result # "completed"
  BY <1>1, NotEnded
<1>6. ClientTypes' /\ OneRequest' /\ Over' /\ (A!CompletionGenuine)'
  BY <1>0, <1>1, <1>4, <1>5, ServerFrame DEF ClientTypes
<1>7. /\ Marked(out', Noted("signal")) = Marked(out, Noted("signal")) /\ Marked(out', Noted("change")) = Marked(out, Noted("change"))
      /\ Count(out', Noted("change")) = Count(out, Noted("change")) /\ Marked(queue', {"completed"}) = {}
      /\ \A i \in Marked(out', Noted("completed")) : i = Len(out) + 1
  BY <1>1, <1>4, <1>5
<1>8. Signals' /\ NothingMissed'
  BY <1>0, <1>1, <1>7 DEF Signals, NothingMissed
<1>9. EndIsLast'
  <2>1. \A j \in Marked(out, Noted("change")) : j < Len(out) + 1
    BY <1>4 DEF Marked
  <2>2. QED
    BY <1>1, <1>7, <2>1 DEF EndIsLast
<1>10. QED
  BY <1>6, <1>8, <1>9 DEF ClientInv

\* Every step keeps the invariant.
LEMMA ClientStep == ClientInv /\ [A!Next]_A!vars => ClientInv'
<1>1. SUFFICES ASSUME ClientInv, [A!Next]_A!vars PROVE ClientInv'
  OBVIOUS
<1>2. CASE UNCHANGED A!vars \/ A!Exit \/ A!CancelContext
  <2>1. UNCHANGED <<plan, step, nextID, pending, requests, queue, out, changes, reported, phase, signaled, closing,
                    signalSent, result>>
    BY <1>2 DEF A!vars, A!callState, A!waitState, A!server, A!Exit, A!CancelContext, A!clientFrame
  <2>2. ClientTypes' /\ OneRequest' /\ Over'
    BY <1>1, <2>1 DEF ClientInv, ClientTypes, OneRequest, Ahead, Over
  <2>3. QED
    BY <1>1, <2>1, <2>2, Quiet
<1>3. CASE A!Caller
  BY <1>1, <1>3, CallsKeep, StagesKeep, CompletionTimeoutKeeps, ConsumeKeeps DEF A!Caller
<1>4. CASE A!Reader
  BY <1>1, <1>4, ReaderQuiet, ReadNotificationKeeps, ReportFailureKeeps DEF A!Reader
<1>5. CASE A!Answer \/ A!Announce \/ A!EndTurn \/ A!Ask \/ A!Garble
  BY <1>1, <1>5, RepliesKeep, AnnounceKeeps, EndTurnKeeps
<1>6. QED
  BY <1>1, <1>2, <1>3, <1>4, <1>5 DEF A!Next

\* A turn is asked for once, its end is the last the server says of it, and every
\* change it reported is collected, in the channel or in the output: through every
\* interleaving of caller, reader and server.
THEOREM ClientInvariance == A!Spec => []ClientInv
<1>1. QED
  BY ClientInit, ClientStep, PTL DEF A!Spec

\* A turn is returned as completed only if the server ended it and with every file
\* change it reported, and a synthesized completion follows a signal, whatever the
\* capacity of the channel and however many notifications a turn sends.
\* (client.go: runTurn)
THEOREM CompletionGenuineHolds == A!Spec => []CompletionGenuine
<1>1. ClientInv => CompletionGenuine
  BY DEF ClientInv, CompletionGenuine
<1>2. QED
  BY <1>1, ClientInvariance, PTL

\* After the signal the caller only waits: the idle timer is stopped, and a call that is
\* under way steers, so that its failure is acknowledged and does not end the wait.
SignalInv ==
  signaled =>
    /\ ~idle /\ result # "error"
    /\ plan # << >> => Head(plan) = "wait" /\ (step # "idle" => batch # {})

\* Register, Write, Await: under the signal only a steer is called, whatever it returns.
LEMMA CallsSignal ==
  ASSUME SignalInv, A!Register \/ A!Write \/ A!Await
  PROVE  SignalInv'
<1>1. SUFFICES ASSUME signaled PROVE SignalInv'
  BY DEF SignalInv, A!Register, A!Write, A!Await, A!Return, A!waitState
<1>2. plan # << >> /\ Head(plan) = "wait" /\ ~idle /\ result # "error" /\ (step # "idle" => batch # {})
  BY <1>1 DEF SignalInv, A!Register, A!Write, A!Await, A!CallsNow, A!Running
<1>3. CASE A!Register
  <2>1. batch # {}
    BY <1>2, <1>3 DEF A!Register, A!CallsNow, A!Stage, A!Steering
  <2>2. UNCHANGED <<plan, batch, idle, result>>
    BY <1>3 DEF A!Register, A!waitState
  <2>3. QED
    BY <1>2, <2>1, <2>2 DEF SignalInv
<1>4. ASSUME NEW v, A!Return(v), step # "idle" PROVE SignalInv'
  <2>1. A!Steering
    BY <1>2, <1>4 DEF A!Steering, A!Stage
  <2>2. step' = "idle" /\ UNCHANGED <<plan, result, idle>>
    BY <1>4, <2>1 DEF A!Return
  <2>3. QED
    BY <1>2, <2>2 DEF SignalInv
<1>5. CASE A!Write
  <2>1. CASE A!Return("error")
    BY <1>4, <1>5, <2>1 DEF A!Write
  <2>2. CASE ~A!Return("error")
    <3>1. step = "write" /\ UNCHANGED <<plan, batch, idle, result>>
      BY <1>5, <2>2 DEF A!Write, A!waitState
    <3>2. QED
      BY <1>2, <3>1 DEF SignalInv
  <2>3. QED
    BY <2>1, <2>2
<1>6. CASE A!Await
  BY <1>4, <1>6 DEF A!Await
<1>7. QED
  BY <1>3, <1>5, <1>6

\* The cases of the select: the first signal stops the idle timer, and what fails the
\* stream after it ends the wait with a warning.
LEMMA WaitSignal ==
  ASSUME ClientInv, SignalInv, A!Cancelled \/ A!IdleTimeout \/ A!CompletionTimeout \/ A!SteerTick \/ A!Consume
  PROVE  SignalInv'
<1>1. A!Selecting /\ plan # << >> /\ Head(plan) = "wait" /\ step = "idle" /\ step' = step
  BY DEF A!Cancelled, A!IdleTimeout, A!CompletionTimeout, A!SteerTick, A!Consume, A!Selecting,
         A!Running, A!Stage, A!loopFrame, A!callState
<1>2. CASE A!Cancelled \/ A!IdleTimeout \/ A!CompletionTimeout
  <2>1. UNCHANGED <<signaled, idle>> /\ plan' = << >> /\ (result' = "error" => idle)
    BY <1>2 DEF A!Cancelled, A!IdleTimeout, A!CompletionTimeout, A!End
  <2>2. QED
    BY <2>1 DEF SignalInv
<1>3. CASE A!SteerTick
  <2>1. UNCHANGED <<plan, signaled, idle, result>>
    BY <1>3 DEF A!SteerTick
  <2>2. QED
    BY <1>1, <2>1 DEF SignalInv
<1>4. CASE A!Consume
  <2>1. CASE Head(queue) \in {"failed", "garbled", "completed"}
    <3>1. UNCHANGED <<signaled, idle>> /\ plan' = << >> /\ (signaled => result' # "error")
      BY <1>4, <2>1 DEF A!Consume, A!End
    <3>2. QED
      BY <3>1 DEF SignalInv
  <2>2. CASE Head(queue) \notin {"failed", "garbled", "completed"} /\ Head(queue) = "signal" /\ Signal /\ ~signaled
    <3>1. ~idle' /\ ((plan' = << >> /\ result' = "warned") \/ (plan' = plan /\ result' = result))
      BY <1>4, <2>2 DEF A!Consume, A!ObserveSignal, A!Undecided, A!End
    <3>2. result = "error" => plan = << >>
      BY DEF ClientInv, Over
    <3>3. QED
      BY <1>1, <3>1, <3>2 DEF SignalInv
  <2>3. CASE Head(queue) \notin {"failed", "garbled", "completed"} /\ ~(Head(queue) = "signal" /\ Signal /\ ~signaled)
    <3>1. UNCHANGED <<plan, result, signaled, idle>>
      BY <1>4, <2>3 DEF A!Consume, A!Undecided
    <3>2. QED
      BY <1>1, <3>1 DEF SignalInv
  <2>4. QED
    BY <2>1, <2>2, <2>3
<1>5. QED
  BY <1>2, <1>3, <1>4

LEMMA SignalStep == ClientInv /\ SignalInv /\ [A!Next]_A!vars => SignalInv'
<1>1. SUFFICES ASSUME ClientInv, SignalInv, [A!Next]_A!vars PROVE SignalInv'
  OBVIOUS
<1>2. CASE A!Caller
  <2>1. CASE A!Initialized \/ A!Observe
    <3>1. ~signaled /\ signaled' = signaled
      BY <1>1, <2>1 DEF SignalInv, A!Initialized, A!Observe, A!Running, A!Stage, A!waitState
    <3>2. QED
      BY <3>1 DEF SignalInv
  <2>2. QED
    BY <1>1, <1>2, <2>1, CallsSignal, WaitSignal DEF A!Caller
<1>3. CASE A!Reader \/ A!Answer \/ A!Announce \/ A!EndTurn \/ A!Ask \/ A!Garble \/ A!Exit \/ A!CancelContext
           \/ UNCHANGED A!vars
  <2>1. UNCHANGED <<plan, step, batch, signaled, idle, result>>
    BY <1>3 DEF A!Reader, A!ReadResponse, A!ReadNotification, A!ReadApproval, A!FailReader, A!ReportFailure,
                A!readerFrame, A!waitState, A!Answer, A!Announce, A!EndTurn, A!Ask, A!Garble, A!Exit,
                A!CancelContext, A!clientFrame, A!vars, A!callState
  <2>2. QED
    BY <1>1, <2>1 DEF SignalInv
<1>4. QED
  BY <1>1, <1>2, <1>3 DEF A!Next

\* Once the completion signal was observed nothing but the end of the context fails the
\* wait: no timer, no steer that fails, no broken stream and no undecodable event.
\* (client.go: WaitTurnCompletedWithSteering)
THEOREM SignalledTurnSucceedsHolds == A!Spec => []SignalledTurnSucceeds
<1>1. A!Init => SignalInv
  BY DEF A!Init, SignalInv
<1>2. SignalInv => SignalledTurnSucceeds
  BY DEF SignalInv, SignalledTurnSucceeds, A!SignalledTurnSucceeds
<1>3. QED
  BY <1>1, <1>2, ClientInvariance, SignalStep, PTL DEF A!Spec
=============================================================================
