------------------------------ MODULE FileTouch ------------------------------
(***************************************************************************)
(* File touches and their warnings: cs touch, POST /v1/touches and the     *)
(* turns of an app-server worker all call coordination.Service.Touch,      *)
(* which stores the touch and finds the overlapping writes of the others   *)
(* in one transaction (store.RecordFileTouch), and then creates one        *)
(* conflict message per worker it found, each in a transaction of its own  *)
(* and each with a request ID made of the touch's request ID and its place *)
(* in the list.  A caller that has lost the answer sends the request again *)
(* under the same ID, possibly while the first call is still at work.      *)
(*                                                                         *)
(* A touch is a row [worker, file, operation, lo, hi, intent]; line number *)
(* 0 means the whole file.  The clock is read once, before the lock.       *)
(***************************************************************************)
EXTENDS Integers, Sequences, FiniteSets, SequencesExt

CONSTANTS
    Requests,   \* request IDs; the touch of request r is stored as t-r
    Touch,      \* what each request touches
    Tries,      \* how often the caller of each request sends it
    Retention,  \* touchRetention: rows older than this are pruned
    ConflictCap,\* LIMIT 100 of the query for conflicts
    MaxLag,     \* bound: how long a call waits for the lock after reading the clock
    MaxTime     \* bound on the clock

TouchAssumption ==
    /\ Retention \in Nat /\ MaxLag \in Nat /\ MaxTime \in Nat /\ ConflictCap \in Nat \ {0}
    /\ IsFiniteSet(Requests) /\ Tries \in [Requests -> Nat \ {0}]
    /\ \A r \in Requests :
         /\ Touch[r].operation \in {"read", "write"}
         /\ Touch[r].lo \in Nat /\ Touch[r].hi \in Nat
         /\ Touch[r].hi > 0 => Touch[r].lo <= Touch[r].hi

Calls == UNION {{r} \X (1 .. Tries[r]) : r \in Requests}

VARIABLES
    clock,
    createdAt,  \* file_touches: when the row of a request was created, or Absent
    warning,    \* the conflict messages stored for a request, in order
    pc, now, conflicts, sent  \* per call: where it is, s.now(), its list, how far it is

vars == <<clock, createdAt, warning, pc, now, conflicts, sent>>

Absent == -1

TypeOK ==
    /\ clock \in 0 .. MaxTime
    /\ createdAt \in [Requests -> -1 .. MaxTime]
    /\ pc \in [Calls -> {"idle", "recording", "warning", "done", "refused", "dead"}]
    /\ now \in [Calls -> 0 .. MaxTime]
    /\ \A c \in Calls :
         /\ conflicts[c] \in Seq(Requests)
         /\ Len(conflicts[c]) <= ConflictCap
         /\ sent[c] \in 0 .. Len(conflicts[c])
         /\ pc[c] = "done" => sent[c] = Len(conflicts[c])

Init ==
    /\ clock = 0
    /\ createdAt = [r \in Requests |-> Absent]
    /\ warning = [r \in Requests |-> <<>>]
    /\ pc = [c \in Calls |-> "idle"]
    /\ now = [c \in Calls |-> 0]
    /\ conflicts = [c \in Calls |-> <<>>]
    /\ sent = [c \in Calls |-> 0]

----------------------------------------------------------------------------

\* Mutant: the last line of a range is not part of it.
HalfOpenRangesOverlap(left, right) ==
    \/ left.lo = 0 \/ left.hi = 0 \/ right.lo = 0 \/ right.hi = 0
    \/ left.lo < right.hi /\ right.lo < left.hi

\* Mutant: adjacent ranges overlap.
AdjacentRangesOverlap(left, right) ==
    \/ left.lo = 0 \/ left.hi = 0 \/ right.lo = 0 \/ right.hi = 0
    \/ left.lo <= right.hi + 1 /\ right.lo <= left.hi + 1

lineRangesOverlap(left, right) ==
    \/ left.lo = 0 \/ left.hi = 0 \/ right.lo = 0 \/ right.hi = 0
    \/ left.lo <= right.hi /\ right.lo <= left.hi

\* What conflictWarning writes about the touch of r and a touch of a peer: the
\* touch of r is the same in every warning of r, and times are not mentioned.
conflictWarning(peer) == [worker |-> Touch[peer].worker, intent |-> Touch[peer].intent]

WritesBy(r, from, to) ==
    {p \in Requests : /\ createdAt[p] # Absent /\ createdAt[p] \in from .. to
                      /\ Touch[p].operation = "write"
                      /\ Touch[p].file = Touch[r].file
                      /\ Touch[p].worker # Touch[r].worker}

\* Mutant: a row is a conflict only if its clock was read before this call's.
PeerWritesBefore(r, cutoff) == WritesBy(r, cutoff, cutoff + Retention)

\* The rows of other workers that write the file of r.  The clock of a row may be
\* later than this call's.
PeerWrites(r, cutoff) == WritesBy(r, cutoff, MaxTime)

\* ORDER BY created_at DESC LIMIT: the first ConflictCap rows, or all of them; rows
\* with the same time come in any order.
Newest(rows) ==
    {first \in SUBSET rows :
        /\ Cardinality(first) <= ConflictCap
        /\ first # rows => Cardinality(first) = ConflictCap
        /\ \A p \in first, q \in rows \ first : createdAt[p] >= createdAt[q]}

\* The loop over the rows: the newest overlapping row of each peer, newest first.
Conflicting(r, first) ==
    LET overlapping == {p \in first : lineRangesOverlap(Touch[r], Touch[p])}
    IN  {list \in BoundedSeq(overlapping, Cardinality(overlapping)) :
           /\ \A i, j \in DOMAIN list : i < j =>
                /\ createdAt[list[i]] >= createdAt[list[j]]
                /\ Touch[list[i]].worker # Touch[list[j]].worker
           /\ \A p \in overlapping : \E i \in DOMAIN list :
                /\ Touch[list[i]].worker = Touch[p].worker
                /\ createdAt[list[i]] >= createdAt[p]}

----------------------------------------------------------------------------

\* Service.Touch begins: the clock is read outside the store's lock.  A further call
\* for the request is sent when the caller has given up on the one before.
Start(c) ==
    /\ pc[c] = "idle"
    /\ c[2] > 1 => pc[<<c[1], c[2] - 1>>] # "idle"
    /\ pc' = [pc EXCEPT ![c] = "recording"]
    /\ now' = [now EXCEPT ![c] = clock]
    /\ UNCHANGED <<clock, createdAt, warning, conflicts, sent>>

\* INSERT OR IGNORE: a row that is already there keeps its time.
Inserted(pruned, r, at) == IF pruned[r] = Absent THEN [pruned EXCEPT ![r] = at] ELSE pruned

\* Mutant: the loop leaves out the last conflict.
ProgressButLast(list, n) == IF n + 1 >= Len(list) THEN "done" ELSE "warning"

\* The loop over the conflicts: the call returns after the last of them.
Progress(list, n) == IF n = Len(list) THEN "done" ELSE "warning"

\* RecordFileTouch: prune, look for conflicts, insert, in one transaction.
RecordFileTouch(c) ==
    LET r == c[1]
        cutoff == now[c] - Retention
        pruned == [p \in Requests |-> IF createdAt[p] < cutoff THEN Absent ELSE createdAt[p]]
    IN  /\ pc[c] = "recording"
        /\ \/ /\ Touch[r].operation = "write"
              /\ \E first \in Newest(PeerWrites(r, cutoff)) : \E list \in Conflicting(r, first) :
                   conflicts' = [conflicts EXCEPT ![c] = list]
           \/ /\ Touch[r].operation = "read"
              /\ UNCHANGED conflicts
        /\ createdAt' = Inserted(pruned, r, now[c])
        /\ pc' = [pc EXCEPT ![c] = Progress(conflicts'[c], 0)]
        /\ UNCHANGED <<clock, warning, now, sent>>

\* createAndDeliver for the next conflict: CreateMessage under request ID
\* <request>-conflict-NNN stores the message, finds it stored already, or finds
\* another message under that ID and fails, which ends the call.
Warn(c) ==
    LET r == c[1]
        n == sent[c] + 1
    IN  /\ pc[c] = "warning"
        /\ LET body == conflictWarning(conflicts[c][n])
           IN  \/ /\ n > Len(warning[r])
                  /\ warning' = [warning EXCEPT ![r] = Append(@, body)]
                  /\ sent' = [sent EXCEPT ![c] = n]
                  /\ pc' = [pc EXCEPT ![c] = Progress(conflicts[c], n)]
               \/ /\ n <= Len(warning[r])
                  /\ warning[r][n] = body
                  /\ sent' = [sent EXCEPT ![c] = n]
                  /\ pc' = [pc EXCEPT ![c] = Progress(conflicts[c], n)]
                  /\ UNCHANGED warning
               \/ /\ n <= Len(warning[r])
                  /\ warning[r][n] # body
                  /\ pc' = [pc EXCEPT ![c] = "refused"]
                  /\ UNCHANGED <<sent, warning>>
        /\ UNCHANGED <<clock, createdAt, now, conflicts>>

\* The process of the call ends: between transactions nothing is rolled back.  One
\* that ends before its first transaction has done nothing, like a call never made.
Die(c) ==
    /\ pc[c] = "warning"
    /\ pc' = [pc EXCEPT ![c] = "dead"]
    /\ UNCHANGED <<clock, createdAt, warning, now, conflicts, sent>>

\* Time passes; no call is kept from the lock for longer than MaxLag.
Tick ==
    /\ clock < MaxTime
    /\ \A c \in Calls : pc[c] = "recording" => clock < now[c] + MaxLag
    /\ clock' = clock + 1
    /\ UNCHANGED <<createdAt, warning, pc, now, conflicts, sent>>

Next ==
    \/ Tick
    \/ \E c \in Calls :
         Start(c) \/ RecordFileTouch(c) \/ Warn(c) \/ Die(c)

Spec == Init /\ [][Next]_vars

----------------------------------------------------------------------------

\* The lines a touch covers, stated without the test the code makes.
WholeFile(t) == t.lo = 0 \/ t.hi = 0
Overlap(r, s) ==
    /\ Touch[r].operation = "write" /\ Touch[s].operation = "write"
    /\ Touch[r].file = Touch[s].file
    /\ Touch[r].worker # Touch[s].worker
    /\ \/ WholeFile(Touch[r]) \/ WholeFile(Touch[s])
       \/ (Touch[r].lo .. Touch[r].hi) \cap (Touch[s].lo .. Touch[s].hi) # {}

CallsOf(r) == {c \in {r} \X (1 .. Tries[r]) : pc[c] # "idle"}
Answered(r) == \E n \in 1 .. Tries[r] : pc[<<r, n>>] = "done"

\* Every attempt at either request was made within the retention of the others, less
\* the lag after which a third touch may have pruned by a later clock.
Together(r, s) ==
    LET made == {now[c] : c \in CallsOf(r) \cup CallsOf(s)}
    IN  \A t, u \in made : t - u <= Retention - MaxLag

\* Some warning of r or s names both workers (both are its recipients).
PairWarned(r, s) ==
    \/ \E i \in DOMAIN warning[r] : warning[r][i].worker = Touch[s].worker
    \/ \E i \in DOMAIN warning[s] : warning[s][i].worker = Touch[r].worker

\* More writes of the file by others than the query returns, within the retention of
\* an attempt at r.
Crowded(r) ==
    \E c \in CallsOf(r) :
        Cardinality({p \in Requests : /\ Touch[p].operation = "write"
                                      /\ Touch[p].file = Touch[r].file
                                      /\ Touch[p].worker # Touch[r].worker
                                      /\ \E d \in CallsOf(p) : now[d] >= now[c] - Retention})
          > ConflictCap

\* Two overlapping writes that were made within the retention and were both answered
\* have warned their two workers, whichever transaction came first, with the clocks
\* of the two read in either order and with calls sent twice, as long as no more than
\* ConflictCap others wrote the file.
BothWarned ==
    \A r, s \in {p \in Requests : Answered(p)} :
        \/ PairWarned(r, s) \/ ~Overlap(r, s) \/ ~Together(r, s)
        \/ Crowded(r) \/ Crowded(s)

\* No worker is warned of a write that does not overlap one of its own: every warning
\* a request has stored is about a touch that overlaps the request's.
WarningsTrue ==
    \A r \in Requests : \A i \in DOMAIN warning[r] :
        \E s \in Requests :
            /\ Overlap(r, s)
            /\ conflictWarning(s) = warning[r][i]
            /\ \E c \in CallsOf(r), d \in CallsOf(s) : now[c] - now[d] <= Retention

\* Writes overlap exactly when their workers were warned of it.
WarningsExact == BothWarned /\ WarningsTrue

\* Docs: overlapping writes create conflict messages for both workers.  Sending a
\* touch again after its process died between two warnings makes the ones that are
\* missing: once the second call has ended, with whatever answer, no overlapping
\* write that had been answered before is left without its warning.
RetryWarns ==
    \A r, s \in Requests :
        ( /\ \E c \in CallsOf(r) : pc[c] \in {"done", "refused"}
          /\ \A c \in CallsOf(r) : pc[c] \in {"done", "refused", "dead"}
          /\ Answered(s) /\ Overlap(r, s) /\ Together(r, s) ) => PairWarned(r, s)
=============================================================================
