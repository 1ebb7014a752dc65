--------------------------- MODULE AppserverClient ---------------------------
(***************************************************************************)
(* The JSON-RPC client around one `codex app-server` process               *)
(* (internal/appserver/client.go).  Two goroutines share it: the caller,   *)
(* which issues one call at a time and then waits for the turn, and the    *)
(* reader, which decodes the server's output and hands responses to the    *)
(* pending call and notifications to a bounded channel.  The server is     *)
(* outside the program.                                                    *)
(***************************************************************************)
EXTENDS Naturals, Sequences

CONSTANTS
  QueueCap,    \* capacity of the notifications channel, 64 in NewClient
  Deliveries,  \* durable deliveries the steering Source may return
  Signal,      \* TRUE: the policy waits for a completion signal, with an idle timeout
  AwaitFinal,  \* TRUE: policy.CompletionTimeout > 0
  MayBreak,    \* TRUE: the server may send what the client cannot decode
  MaxEarly,    \* bound: notifications before the turn starts
  MaxNotes,    \* bound: notifications besides the one that ends the turn
  MaxAsks      \* bound: approval requests of the server

ASSUME ClientAssumption ==
  /\ QueueCap \in Nat \ {0} /\ MaxEarly \in Nat /\ MaxNotes \in Nat /\ MaxAsks \in Nat
  /\ Signal \in BOOLEAN /\ AwaitFinal \in BOOLEAN /\ MayBreak \in BOOLEAN

\* What Runner does with a client: Check, Resume, SteerTurn and runTurn.
Check     == <<"initialize", "initialized">>
Resume    == <<"initialize", "initialized", "thread">>
SteerTurn == <<"initialize", "initialized", "thread", "steer">>
RunTurn   == <<"initialize", "initialized", "thread", "turn", "observe", "wait">>

VARIABLES
  \* the caller
  plan,      \* what is left of the operation
  step,      \* "idle", or where Call is: "write" or "await"
  nextID,    \* number of the latest request
  untried,   \* deliveries that are queued and not in the policy's attempted set
  batch,     \* deliveries the current steering tick still has to steer
  signaled,  \* the completion signal was observed
  idle,      \* the idle timer runs
  closing,   \* the completion timer runs
  changes,   \* file changes collected
  ctxDone,
  result,    \* "none", "ok", "completed", "warned", "cancelled" or "error"
  \* shared
  pending,   \* per request: "none" unregistered, "empty", or what its channel holds
  queue,     \* the notifications channel
  reader,    \* "off", "reading", "failing" (blocked on its last send), "exited"
  \* the server
  requests,  \* requests it has received and not answered
  out,       \* its standard output, not yet read
  gone,      \* its process: "no" while it runs, "exited", "killed" with the
             \* context, or "closed" by the deferred closeProcess
  broken,    \* its output cannot be decoded from here on
  turn,      \* "none", "open", "ended"
  notes,     \* notifications sent
  asks,      \* approval requests sent
  declined,  \* of those, answered by the client
  reported,  \* file changes it reported
  signalSent

callState == <<step, nextID, pending, requests>>
waitState == <<untried, batch, signaled, idle, closing, changes>>
server    == <<broken, turn, notes, asks, reported, signalSent>>
vars == <<plan, callState, waitState, ctxDone, result, queue, reader, out, gone,
          declined, server>>

Kinds == {"signal", "change", "other", "completed", "garbled", "failed"}

Init ==
  /\ plan \in {Check, Resume, SteerTurn, RunTurn} /\ step = "idle" /\ nextID = 0
  /\ untried = Deliveries /\ batch = {}
  /\ signaled = FALSE /\ idle = Signal /\ closing = FALSE /\ changes = 0
  /\ ctxDone = FALSE /\ result = "none"
  /\ pending = <<>> /\ queue = <<>> /\ reader = "off"
  /\ requests = {} /\ out = <<>> /\ gone = "no" /\ broken = FALSE
  /\ turn = "none" /\ notes = 0 /\ asks = 0 /\ declined = 0
  /\ reported = 0 /\ signalSent = FALSE

Running == plan # <<>>
Alive == gone = "no"
Stage == Head(plan)
Steering == Stage = "wait" /\ batch # {}
CallsNow == Running /\ (Stage \in {"initialize", "thread", "turn", "steer"} \/ Steering)

\* Mutant: the process is left running.
EndWithoutClose(r) == plan' = <<>> /\ result' = r /\ UNCHANGED gone

\* The operation returns; the deferred closeProcess ends the server.
End(r) == plan' = <<>> /\ result' = r /\ gone' = IF gone = "no" THEN "closed" ELSE gone

\* The operation goes on with its next stage, or was at its last.
Advance == IF Len(plan) = 1 THEN End("ok")
           ELSE plan' = Tail(plan) /\ UNCHANGED <<result, gone>>

-----------------------------------------------------------------------------
(* Call.                                                                   *)

\* Mutant: the request is written before its channel is registered.
RegisterLate ==
  /\ CallsNow /\ step = "idle"
  /\ nextID' = nextID + 1 /\ pending' = Append(pending, "none")
  /\ reader' = IF reader = "off" THEN "reading" ELSE reader
  /\ step' = "write"
  /\ UNCHANGED <<plan, requests, waitState, ctxDone, result, queue, out, gone, declined, server>>

\* The channel is registered and the reader runs before the request is written.
Register ==
  /\ CallsNow /\ step = "idle"
  /\ nextID' = nextID + 1 /\ pending' = Append(pending, "empty")
  /\ reader' = IF reader = "off" THEN "reading" ELSE reader
  /\ step' = "write"
  /\ UNCHANGED <<plan, requests, waitState, ctxDone, result, queue, out, gone, declined, server>>

\* Call returns v and removePending runs.  A failed steer is acknowledged like a
\* successful one and the loop over the batch goes on; elsewhere it ends the
\* operation.
Return(v) ==
  /\ pending' = [pending EXCEPT ![nextID] = "none"] /\ step' = "idle"
  /\ IF Steering
     THEN /\ \E d \in batch : batch' = batch \ {d} /\ untried' = untried \ {d}
          /\ UNCHANGED <<plan, result, gone>>
     ELSE /\ IF v = "ok" THEN Advance ELSE End(v)
          /\ UNCHANGED <<untried, batch>>
  /\ UNCHANGED <<nextID, signaled, idle, closing, changes, ctxDone, queue, reader, out, declined, server>>

\* write: the pipe to a process that is gone refuses the request.
Write ==
  /\ Running /\ step = "write"
  /\ \/ ~Alive /\ Return("error") /\ UNCHANGED requests
     \/ /\ Alive /\ step' = "await"
        /\ requests' = requests \cup {[id |-> nextID, method |-> Stage]}
        /\ UNCHANGED <<plan, nextID, pending, waitState, ctxDone, result, queue, reader, out,
                       gone, declined, server>>

\* The select of Call.
Await ==
  /\ Running /\ step = "await"
  /\ \/ pending[nextID] \notin {"none", "empty"} /\ Return(pending[nextID])
     \/ ctxDone /\ Return("cancelled")
  /\ UNCHANGED requests

\* Notify("initialized"): a write without a response.
Initialized ==
  /\ Running /\ Stage = "initialized"
  /\ IF Alive THEN Advance ELSE End("error")
  /\ UNCHANGED <<callState, waitState, ctxDone, queue, reader, out, declined, server>>

\* The TurnObserver, which writes the ledger and may fail.
Observe ==
  /\ Running /\ Stage = "observe"
  /\ Advance \/ End("error")
  /\ UNCHANGED <<callState, waitState, ctxDone, queue, reader, out, declined, server>>

-----------------------------------------------------------------------------
(* WaitTurnCompletedWithSteering: one action per case of its select.       *)

Selecting == Running /\ Stage = "wait" /\ step = "idle" /\ batch = {}
loopFrame == <<callState, untried, batch, ctxDone, reader, out, declined, server>>

Cancelled ==
  /\ Selecting /\ ctxDone /\ End("cancelled")
  /\ UNCHANGED <<loopFrame, signaled, idle, closing, changes, queue>>

IdleTimeout ==
  /\ Selecting /\ idle /\ End("error")
  /\ UNCHANGED <<loopFrame, signaled, idle, closing, changes, queue>>

CompletionTimeout ==
  /\ Selecting /\ closing /\ End("warned")
  /\ UNCHANGED <<loopFrame, signaled, idle, closing, changes, queue>>

\* The ticker: Source returns what is queued by now.
SteerTick ==
  /\ Selecting
  /\ batch' \in SUBSET untried \ {{}}
  /\ UNCHANGED <<plan, callState, untried, signaled, idle, closing, changes, ctxDone, result,
                 queue, reader, out, gone, declined, server>>

Undecided == UNCHANGED <<plan, result, gone>>

\* The first completion signal stops the idle timer and starts the other.
ObserveSignal ==
  /\ signaled' = TRUE /\ idle' = FALSE /\ UNCHANGED changes
  /\ IF AwaitFinal THEN closing' = TRUE /\ Undecided
                   ELSE End("warned") /\ UNCHANGED closing

\* Mutant: a failure after the signal is reported as one.
ConsumeStrict ==
  /\ Selecting /\ queue # <<>> /\ queue' = Tail(queue)
  /\ CASE Head(queue) \in {"failed", "garbled"} ->
            End("error") /\ UNCHANGED <<signaled, idle, closing, changes>>
       [] Head(queue) = "completed" ->
            End("completed") /\ UNCHANGED <<signaled, idle, closing, changes>>
       [] Head(queue) = "signal" /\ Signal /\ ~signaled -> ObserveSignal
       [] OTHER -> /\ changes' = IF Head(queue) = "change" THEN changes + 1 ELSE changes
                   /\ Undecided /\ UNCHANGED <<signaled, idle, closing>>
  /\ UNCHANGED loopFrame

\* Mutant: file changes are collected until the completion signal only.
ConsumeUntilSignal ==
  /\ Selecting /\ queue # <<>> /\ queue' = Tail(queue)
  /\ CASE Head(queue) \in {"failed", "garbled"} ->
            End(IF signaled THEN "warned" ELSE "error") /\ UNCHANGED <<signaled, idle, closing, changes>>
       [] Head(queue) = "completed" ->
            End("completed") /\ UNCHANGED <<signaled, idle, closing, changes>>
       [] Head(queue) = "signal" /\ Signal /\ ~signaled -> ObserveSignal
       [] OTHER -> /\ changes' = IF Head(queue) = "change" /\ ~signaled THEN changes + 1 ELSE changes
                   /\ Undecided /\ UNCHANGED <<signaled, idle, closing>>
  /\ UNCHANGED loopFrame

Consume ==
  /\ Selecting /\ queue # <<>> /\ queue' = Tail(queue)
  /\ CASE Head(queue) \in {"failed", "garbled"} ->
            End(IF signaled THEN "warned" ELSE "error") /\ UNCHANGED <<signaled, idle, closing, changes>>
       [] Head(queue) = "completed" ->
            End("completed") /\ UNCHANGED <<signaled, idle, closing, changes>>
       [] Head(queue) = "signal" /\ Signal /\ ~signaled -> ObserveSignal
       [] OTHER -> /\ changes' = IF Head(queue) = "change" THEN changes + 1 ELSE changes
                   /\ Undecided /\ UNCHANGED <<signaled, idle, closing>>
  /\ UNCHANGED loopFrame

Caller ==
  \/ Register \/ Write \/ Await \/ Initialized \/ Observe
  \/ Cancelled \/ IdleTimeout \/ CompletionTimeout \/ SteerTick \/ Consume

-----------------------------------------------------------------------------
(* readLoop.                                                               *)

readerFrame == <<plan, step, nextID, requests, waitState, ctxDone, result, gone, server>>
Reads(k) == reader = "reading" /\ out # <<>> /\ Head(out).k = k

\* The response of a call that is not pending any more is dropped.
ReadResponse ==
  /\ Reads("response") /\ out' = Tail(out)
  /\ LET r == Head(out)
     IN pending' = IF pending[r.id] = "none" THEN pending ELSE [pending EXCEPT ![r.id] = r.v]
  /\ UNCHANGED <<readerFrame, queue, reader, declined>>

\* The send blocks while the channel is full.
ReadNotification ==
  /\ Reads("note") /\ Len(queue) < QueueCap /\ out' = Tail(out)
  /\ queue' = Append(queue, Head(out).v)
  /\ UNCHANGED <<readerFrame, pending, reader, declined>>

\* handleServerRequest: every approval is declined, on the same connection.
ReadApproval ==
  /\ Reads("ask") /\ Alive /\ out' = Tail(out) /\ declined' = declined + 1
  /\ UNCHANGED <<readerFrame, pending, queue, reader>>

\* The stream ended, was closed or cannot be decoded, or an answer cannot be
\* written.
ReadFails ==
  /\ reader = "reading"
  /\ \/ Reads("garbage")
     \/ ~Alive /\ (~Running \/ out = <<>> \/ Reads("ask"))

\* Mutant: only the notification channel learns that the reader failed.
FailReaderSilently ==
  /\ ReadFails
  /\ reader' = "failing"
  /\ UNCHANGED <<readerFrame, pending, queue, out, declined>>

\* failReader: every registered call gets the error.
FailReader ==
  /\ ReadFails
  /\ pending' = [i \in DOMAIN pending |-> IF pending[i] = "empty" THEN "error" ELSE pending[i]]
  /\ reader' = "failing"
  /\ UNCHANGED <<readerFrame, queue, out, declined>>

\* Mutant: the last send does not count against the channel's capacity.
ReportFailureAnyway ==
  /\ reader = "failing"
  /\ queue' = Append(queue, "failed") /\ reader' = "exited"
  /\ UNCHANGED <<readerFrame, pending, out, declined>>

\* Its last send, which also blocks while the channel is full.
ReportFailure ==
  /\ reader = "failing" /\ Len(queue) < QueueCap
  /\ queue' = Append(queue, "failed") /\ reader' = "exited"
  /\ UNCHANGED <<readerFrame, pending, out, declined>>

Reader == ReadResponse \/ ReadNotification \/ ReadApproval \/ FailReader \/ ReportFailure

-----------------------------------------------------------------------------
(* The server and the caller's context.                                    *)

clientFrame == <<plan, step, nextID, pending, waitState, result, queue, reader, declined>>
Sends == Alive /\ ~broken
Send(item) == out' = Append(out, item)

\* A call is answered, with an error perhaps.
Answer ==
  /\ Sends
  /\ \E r \in requests, v \in {"ok", "error"} :
       /\ Send([k |-> "response", id |-> r.id, v |-> v])
       /\ requests' = requests \ {r}
       /\ turn' = IF r.method = "turn" /\ v = "ok" THEN "open" ELSE turn
  /\ UNCHANGED <<clientFrame, ctxDone, gone, broken, notes, asks, reported, signalSent>>

\* A notification about the open turn, or one the client ignores.
Announce ==
  /\ Sends /\ turn # "ended" /\ notes < (IF turn = "open" THEN MaxNotes ELSE MaxEarly)
  /\ notes' = notes + 1
  /\ \E v \in IF turn = "open" THEN {"signal", "change", "other"} ELSE {"other"} :
       /\ Send([k |-> "note", v |-> v])
       /\ reported' = IF v = "change" THEN reported + 1 ELSE reported
       /\ signalSent' = (signalSent \/ v = "signal")
  /\ UNCHANGED <<clientFrame, requests, ctxDone, gone, broken, turn, asks>>

\* The turn waits for the answers to its approval requests, then ends.
EndTurn ==
  /\ Sends /\ turn = "open" /\ asks = declined /\ turn' = "ended"
  /\ \E v \in {"completed"} \cup (IF MayBreak THEN {"garbled"} ELSE {}) :
       Send([k |-> "note", v |-> v])
  /\ UNCHANGED <<clientFrame, requests, ctxDone, gone, broken, notes, asks, reported, signalSent>>

Ask ==
  /\ Sends /\ turn = "open" /\ asks < MaxAsks /\ asks' = asks + 1
  /\ Send([k |-> "ask"])
  /\ UNCHANGED <<clientFrame, requests, ctxDone, gone, broken, turn, notes, reported, signalSent>>

\* Output that is not JSON, or a response id that is not a number.
Garble ==
  /\ Sends /\ MayBreak /\ broken' = TRUE /\ Send([k |-> "garbage"])
  /\ UNCHANGED <<clientFrame, requests, ctxDone, gone, turn, notes, asks, reported, signalSent>>

Exit ==
  /\ Alive /\ gone' = "exited"
  /\ UNCHANGED <<clientFrame, requests, ctxDone, out, server>>

\* The context ends: csd stops, or the timeout of the command is over.  It
\* also kills the process (exec.CommandContext).
CancelContext ==
  /\ Running /\ ~ctxDone /\ ctxDone' = TRUE
  /\ gone' = IF Alive THEN "killed" ELSE gone
  /\ UNCHANGED <<clientFrame, requests, out, server>>

Next == Caller \/ Reader
        \/ Answer \/ Announce \/ EndTurn \/ Ask \/ Garble \/ Exit \/ CancelContext

Spec == Init /\ [][Next]_vars

\* Goroutines run; the server answers and ends its turns.  Go's select picks
\* among its ready cases at random, so none is passed over for ever.
Fairness ==
  /\ WF_vars(Register) /\ WF_vars(Write) /\ WF_vars(Await) /\ WF_vars(Initialized)
  /\ WF_vars(Observe) /\ SF_vars(Cancelled) /\ SF_vars(CompletionTimeout) /\ SF_vars(Consume)
  /\ WF_vars(Reader) /\ WF_vars(Answer) /\ WF_vars(EndTurn)

FairSpec == Spec /\ Fairness

-----------------------------------------------------------------------------
(* Properties.                                                             *)

\* Every variable has its type.
TypeOK ==
  /\ step \in {"idle", "write", "await"}
  /\ nextID \in Nat /\ DOMAIN pending = 1 .. nextID
  /\ \A i \in 1 .. nextID : pending[i] \in {"none", "empty", "ok", "error"}
  /\ untried \subseteq Deliveries /\ batch \subseteq Deliveries
  /\ result \in {"none", "ok", "completed", "warned", "cancelled", "error"}
  /\ queue \in Seq(Kinds) /\ Len(queue) <= QueueCap
  /\ reader \in {"off", "reading", "failing", "exited"}
  /\ turn \in {"none", "open", "ended"}

\* A turn is returned as completed only if the server ended it, and with every
\* file change it reported; a synthesized completion follows a signal.
\* (client.go: runTurn, which the ledger's status, report and touches rest on)
CompletionGenuine ==
  /\ result = "completed" => turn = "ended" /\ changes = reported
  /\ result = "warned" => signalSent

\* Once the completion signal was observed only the end of the context fails
\* the wait: no timer, no broken stream and no undecodable event does.
SignalledTurnSucceeds == signaled => result # "error"

\* A wait that the end of its context interrupts, and nothing else, returns the
\* context's error, not that of the process the context killed.
\* (docs/design.md:145: daemon shutdown is not "a false terminal failure")
CancellationReported ==
  [][Selecting /\ gone = "killed" /\ ~broken => result' # "error"]_vars

\* Every operation ends when the server answers its calls and ends its turns.
\* (client.go:214-215, "waits for completion while injecting durable deliveries")
OperationEnds == <>(~Running)

\* The caller waits for the answer to a call, which the reader cannot reach:
\* it has a notification for the channel that is full and that only the wait for
\* the turn empties.
Jammed == Running /\ step = "await" /\ Len(queue) = QueueCap /\ Reads("note")

\* The caller waits for the answer to a call that it registered after the reader
\* had failed on undecodable output and told the calls of then.
Deserted ==
  /\ Running /\ step = "await" /\ pending[nextID] = "empty"
  /\ broken /\ reader \in {"failing", "exited"}

\* An operation that does not end is jammed or deserted, at whichever of its
\* calls: there is no other way for caller, reader and server to wait for one
\* another.
HangsOnlyJammed == <>[](~Running \/ Jammed \/ Deserted)

\* The reader goroutine outlives the operation only on a full channel.
ReaderEnds == (~Running) ~> (reader \in {"off", "exited"} \/ Len(queue) = QueueCap)
=============================================================================
