------------------------------- MODULE Dispatch -------------------------------
(***************************************************************************)
(* Making worker pairs: cs issue dispatch and POST /v1/dispatch plan an    *)
(* implementer and its validator and run dispatch.Execute, which lists the *)
(* workers in one transaction, looks in their event logs for the request,  *)
(* and saves a new pair in a second transaction when it finds none.        *)
(* cs validate start makes a pair without a request and saves its two      *)
(* workers in two transactions.                                            *)
(*                                                                         *)
(* The event log of a worker is bounded: messages push the dispatch event  *)
(* out of it.  `later` counts the events after it.                         *)
(***************************************************************************)
EXTENDS Naturals, FiniteSets

CONSTANTS
    Calls,      \* invocations of dispatch.Execute
    Starts,     \* invocations of validate start
    Requests,   \* request IDs; each call is made for one of them
    Prompts,
    EventCap,   \* WorkerEventCap
    MaxClock    \* bound on the clock, which every change of a worker advances

DispatchAssumption ==
    /\ Calls \cap Starts = {}
    /\ EventCap \in Nat \ {0} /\ MaxClock \in Nat

Roles == {"implementer", "validator"}
Ids == (Calls \cup Starts) \X Roles

VARIABLES
    clock,
    worker,     \* per worker ID: the stored record
    pc,         \* per invocation
    request, prompt,  \* per call: what it asks for
    began, ended,     \* when it read the clock, and when it saved or answered
    answer      \* per call: the workers it named to its caller

vars == <<clock, worker, pc, request, prompt, began, ended, answer>>

Absent == [status |-> "absent"]
NoAnswer == [status |-> "none"]
Saved(w) == worker[w].status = "idle"

newWorker(r, p, at) == [status |-> "idle", request |-> r, prompt |-> p, updatedAt |-> at, later |-> 0]

Init ==
    /\ clock = 0
    /\ worker = [w \in Ids |-> Absent]
    /\ pc = [c \in Calls \cup Starts |-> "idle"]
    /\ request \in [Calls -> Requests] /\ prompt \in [Calls -> Prompts]
    /\ began = [c \in Calls \cup Starts |-> 0] /\ ended = [c \in Calls |-> 0]
    /\ answer = [c \in Calls |-> NoAnswer]

----------------------------------------------------------------------------

\* Mutant: only the newest event is looked at.
lastIsDispatchRequest(w, r) == Saved(w) /\ worker[w].request = {r} /\ worker[w].later = 0

\* hasDispatchRequest: the event is still in the log.
hasDispatchRequest(w, r) ==
    Saved(w) /\ worker[w].request = {r} /\ worker[w].later < EventCap

Matching(r, role) == {w \in Ids : w[2] = role /\ hasDispatchRequest(w, r)}

\* Replay keeps the last match of each role; ListWorkers sorts by updated_at, newest first.
Replay(r, role) ==
    {w \in Matching(r, role) : \A x \in Matching(r, role) : worker[w].updatedAt <= worker[x].updatedAt}

Found(r) == \A role \in Roles : Matching(r, role) # {}

\* Mutant: any prompt is accepted for a request that was seen.
FitsAny(c, i) == TRUE

\* The fingerprint of the replay: the prompt (issue and repository are one here).
Fits(c, i) == worker[i].prompt = prompt[c]

\* ListWorkers and Replay of one Execute: the pair is found and answered, found for
\* another plan and refused, or missing.
ListWorkers(c) ==
    /\ pc[c] = "idle" /\ clock < MaxClock
    /\ clock' = clock + 1
    /\ began' = [began EXCEPT ![c] = clock]
    /\ \/ /\ ~Found(request[c])
          /\ pc' = [pc EXCEPT ![c] = "saving"]
          /\ UNCHANGED <<ended, answer>>
       \/ /\ Found(request[c])
          /\ \E i \in Replay(request[c], "implementer"), v \in Replay(request[c], "validator") :
               \/ /\ Fits(c, i)
                  /\ answer' = [answer EXCEPT ![c] =
                                  [status |-> "replayed", implementer |-> i, validator |-> v]]
                  /\ pc' = [pc EXCEPT ![c] = "done"]
               \/ /\ ~Fits(c, i)
                  /\ pc' = [pc EXCEPT ![c] = "refused"]
                  /\ UNCHANGED answer
          /\ ended' = [ended EXCEPT ![c] = clock]
    /\ UNCHANGED <<worker, request, prompt>>

\* SaveWorkers: the pair, each with the dispatch event, in one transaction.
SaveWorkers(c) ==
    LET i == <<c, "implementer">>
        v == <<c, "validator">>
    IN  /\ pc[c] = "saving"
        /\ worker' = [w \in Ids |-> IF w \in {i, v}
                                    THEN newWorker({request[c]}, prompt[c], began[c])
                                    ELSE worker[w]]
        /\ answer' = [answer EXCEPT ![c] = [status |-> "created", implementer |-> i, validator |-> v]]
        /\ ended' = [ended EXCEPT ![c] = clock]
        /\ pc' = [pc EXCEPT ![c] = "done"]
        /\ UNCHANGED <<clock, request, prompt, began>>

\* One SaveWorker of validate start; the clock was read before the first.
SaveWorker(s, role) ==
    /\ \E p \in Prompts :
         worker' = [worker EXCEPT ![<<s, role>>] =
                      newWorker({}, p, IF pc[s] = "idle" THEN clock ELSE began[s])]
    /\ UNCHANGED <<clock, request, prompt, ended, answer>>

\* Mutant: the validator is saved first.
validateStartReversed(s) ==
    \/ /\ pc[s] = "idle" /\ SaveWorker(s, "validator")
       /\ pc' = [pc EXCEPT ![s] = "saving"] /\ began' = [began EXCEPT ![s] = clock]
    \/ /\ pc[s] = "saving" /\ SaveWorker(s, "implementer")
       /\ pc' = [pc EXCEPT ![s] = "done"] /\ UNCHANGED began

\* validate start: the implementer, then the validator.
validateStart(s) ==
    \/ /\ pc[s] = "idle" /\ SaveWorker(s, "implementer")
       /\ pc' = [pc EXCEPT ![s] = "saving"] /\ began' = [began EXCEPT ![s] = clock]
    \/ /\ pc[s] = "saving" /\ SaveWorker(s, "validator")
       /\ pc' = [pc EXCEPT ![s] = "done"] /\ UNCHANGED began

\* The process ends before its second transaction.
Die(c) ==
    /\ pc[c] = "saving"
    /\ pc' = [pc EXCEPT ![c] = "dead"]
    /\ UNCHANGED <<clock, worker, request, prompt, began, ended, answer>>

\* Mutant: the log is appended to without a bound.
recordTimelineUnbounded(w) ==
    /\ Saved(w) /\ clock < MaxClock
    /\ clock' = clock + 1
    /\ worker' = [worker EXCEPT ![w].updatedAt = clock, ![w].later = @ + 1]
    /\ UNCHANGED <<pc, request, prompt, began, ended, answer>>

\* recordTimeline: a message to or from a worker adds a bounded event and updates it.
recordTimeline(w) ==
    /\ Saved(w) /\ clock < MaxClock
    /\ clock' = clock + 1
    /\ worker' = [worker EXCEPT ![w].updatedAt = clock,
                                ![w].later = IF @ < EventCap THEN @ + 1 ELSE @]
    /\ UNCHANGED <<pc, request, prompt, began, ended, answer>>

Next ==
    \/ \E c \in Calls : ListWorkers(c) \/ SaveWorkers(c)
    \/ \E s \in Starts : validateStart(s)
    \/ \E c \in Calls \cup Starts : Die(c)
    \/ \E w \in Ids : recordTimeline(w)

Spec == Init /\ [][Next]_vars
----------------------------------------------------------------------------

TypeOK ==
    /\ clock \in 0 .. MaxClock
    /\ pc \in [Calls \cup Starts -> {"idle", "saving", "done", "refused", "dead"}]
    /\ request \in [Calls -> Requests] /\ prompt \in [Calls -> Prompts]
    /\ began \in [Calls \cup Starts -> 0 .. MaxClock] /\ ended \in [Calls -> 0 .. MaxClock]
    /\ \A w \in Ids : Saved(w) =>
         /\ worker[w].request \subseteq Requests /\ worker[w].prompt \in Prompts
         /\ worker[w].updatedAt \in 0 .. MaxClock /\ worker[w].later \in 0 .. EventCap
    /\ \A c \in Calls : pc[c] = "done" <=> answer[c] # NoAnswer

\* A validator names its implementer as parent and as the worker it validates: no
\* validator is ever in the store without it, wherever the process that makes the
\* two dies.
ValidatorBacked ==
    \A c \in Calls \cup Starts : Saved(<<c, "validator">>) => Saved(<<c, "implementer">>)

\* The workers a call names to its caller, be they new or the ones of an earlier
\* call, were made for its request and its prompt.
AnswerFits ==
    \A c \in Calls : answer[c] # NoAnswer =>
        /\ worker[answer[c].implementer].request = {request[c]}
        /\ worker[answer[c].validator].request = {request[c]}
        /\ worker[answer[c].implementer].prompt = prompt[c]

InFlightTogether(c, d) == began[c] < ended[d] /\ began[d] < ended[c]
Forgotten(c) == \E role \in Roles : worker[<<c, role>>].later >= EventCap

\* Calls that follow one another make one pair: a second pair for a request means
\* that two calls were between their transactions together, or that as many events
\* as the log holds were added to a worker of the first.
SerialReplay ==
    \A c, d \in Calls :
        ( /\ c # d /\ request[c] = request[d]
          /\ Saved(<<c, "implementer">>) /\ Saved(<<d, "implementer">>) )
        => InFlightTogether(c, d) \/ Forgotten(c) \/ Forgotten(d)

\* README: dispatch is idempotent.  A request makes at most one pair as long as its
\* events are in the logs.
OnePairPerRequest ==
    \A c, d \in Calls :
        ( /\ request[c] = request[d]
          /\ Saved(<<c, "implementer">>) /\ Saved(<<d, "implementer">>)
          /\ ~Forgotten(c) /\ ~Forgotten(d) ) => c = d

=============================================================================
