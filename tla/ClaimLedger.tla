---------------------------- MODULE ClaimLedger -----------------------------
(***************************************************************************)
(* Advisory claims (internal/claims, cmd/cs/claims.go, janitor.go and the  *)
(* claims part of closeout.go) of one repository.  `claim create` is one   *)
(* transaction and reports the conflicts it saw in it; `claim release` and *)
(* `claim block` read a claim in one transaction and save it in another;   *)
(* the janitor lists workers, then claims, and then saves each candidate.  *)
(***************************************************************************)
EXTENDS Naturals, FiniteSets, Sequences, SequencesExt

CONSTANTS
  Workers, Claims, Updates,  \* Updates: invocations of claim release and block
  Scopes,     \* [kind, value]: the value of a path or live scope is the
              \* sequence of its components
  Paths,      \* every path, task and live resource, as a sequence of components
  NoClaim

ClaimAssumption ==
  /\ Paths \subseteq Seq(STRING)
  /\ \A s \in Scopes : s.kind \in {"path", "task", "live"} /\ s.value \in Paths /\ s.value # << >>
  /\ NoClaim \notin Claims

VARIABLES
  worker,     \* per worker: "absent", "live", "stale" (not updated for the
              \* janitor's threshold) or "terminal"
  claims,     \* per claim: its owner, scope, status and whether it has expired
  warned,     \* per claim: the conflicts its creator was shown
  upc, updates, target, seen, \* per update: where it is, the status it sets,
              \* its claim and the status it read
  jpc, listed, candidates,    \* the janitor: where it is, the workers it
              \* listed and the claims it is going to release
  \* history
  batch,      \* per claim: the claims its command created
  revived,    \* claims that were open again after they had been released
  settled     \* claims some closeout released, and no update wrote since

update == <<upc, updates, target, seen>>
janitor == <<jpc, listed, candidates>>
history == <<batch, revived, settled>>
vars == <<worker, claims, warned, update, janitor, history>>

Absent == [status |-> "absent"]
Exists(c) == claims[c].status # "absent"

Init ==
  /\ worker = [w \in Workers |-> "absent"] /\ claims = [c \in Claims |-> Absent]
  /\ warned = [c \in Claims |-> {}]
  /\ upc = [u \in Updates |-> "off"] /\ updates \in [Updates -> {"released", "blocked"}]
  /\ target = [u \in Updates |-> NoClaim] /\ seen = [u \in Updates |-> "absent"]
  /\ jpc = "off" /\ listed = [w \in Workers |-> "absent"] /\ candidates = {}
  /\ batch = [c \in Claims |-> {}] /\ revived = {} /\ settled = {}

-----------------------------------------------------------------------------
(* Overlap.                                                                *)

\* Mutant: scopes are compared whatever their kinds.
ScopesOverlapOfAnyKind(a, b) == IsPrefix(a.value, b.value) \/ IsPrefix(b.value, a.value)

\* scopesOverlap: tasks by name, paths and live resources by whole components.
ScopesOverlap(a, b) ==
  /\ a.kind = b.kind
  /\ IF a.kind = "task" THEN a.value = b.value
     ELSE IsPrefix(a.value, b.value) \/ IsPrefix(b.value, a.value)

IsOpen(c) == claims[c].status \in {"active", "blocked"} /\ ~claims[c].expired

Conflicts(scope) == {c \in Claims : IsOpen(c) /\ ScopesOverlap(claims[c].scope, scope)}

-----------------------------------------------------------------------------
(* Workers.                                                                *)

\* The worker is created or written by any command; it may be a closed one.
Touch(w) ==
  /\ worker' = [worker EXCEPT ![w] = "live"]
  /\ UNCHANGED <<claims, warned, update, janitor, history>>

Age(w) ==
  /\ worker[w] = "live" /\ worker' = [worker EXCEPT ![w] = "stale"]
  /\ UNCHANGED <<claims, warned, update, janitor, history>>

SetStatus(C, s) == [c \in Claims |-> IF c \in C THEN [claims[c] EXCEPT !.status = s] ELSE claims[c]]

\* Mutant: closeout looks for active claims only.
HeldActive(w) == {c \in Claims : Exists(c) /\ claims[c].owner = w /\ claims[c].status = "active"}

\* The claims closeout releases, whether or not they have expired.
Held(w) == {c \in Claims : Exists(c) /\ claims[c].owner = w /\ claims[c].status \in {"active", "blocked"}}

\* CloseWorker, in one transaction.
CloseWorker(w) ==
  /\ worker[w] # "absent" /\ worker' = [worker EXCEPT ![w] = "terminal"]
  /\ claims' = SetStatus(Held(w), "released")
  /\ settled' = settled \cup {c \in Claims : Exists(c) /\ claims[c].owner = w}
  /\ UNCHANGED <<warned, update, janitor, batch, revived>>

-----------------------------------------------------------------------------
(* claim create, release and block.                                        *)

\* Mutant: conflicts are looked up among the active claims only.
SnapshotActive(scope) == {c \in Conflicts(scope) : claims[c].status = "active"}

\* The conflicts among the claims the transaction found.
Snapshot(scope) == Conflicts(scope)

\* One command creates a claim for each of its scopes; they are compared with
\* the claims before it, not with each other.  The worker must exist; it may be
\* closed.
Create(w, C, scope) ==
  /\ worker[w] # "absent" /\ C # {} /\ \A c \in C : ~Exists(c)
  /\ claims' = [c \in Claims |->
        IF c \in C THEN [owner |-> w, scope |-> scope[c], status |-> "active", expired |-> FALSE]
        ELSE claims[c]]
  /\ warned' = [c \in Claims |-> IF c \in C THEN Snapshot(scope[c]) ELSE warned[c]]
  /\ batch' = [c \in Claims |-> IF c \in C THEN C ELSE batch[c]]
  /\ UNCHANGED <<worker, update, janitor, revived, settled>>

\* The claim's time to live ends.
Expire(c) ==
  /\ Exists(c) /\ ~claims[c].expired
  /\ claims' = [claims EXCEPT ![c].expired = TRUE]
  /\ UNCHANGED <<worker, warned, update, janitor, history>>

\* Mutant: a claim that does not exist is not an error.
ReadClaimUnchecked(u, c) ==
  /\ upc[u] = "off"
  /\ upc' = [upc EXCEPT ![u] = "read"] /\ target' = [target EXCEPT ![u] = c]
  /\ seen' = [seen EXCEPT ![u] = claims[c].status]
  /\ UNCHANGED <<worker, claims, warned, updates, janitor, history>>

\* updateClaim: GetClaim ...
ReadClaim(u, c) ==
  /\ upc[u] = "off" /\ Exists(c)
  /\ upc' = [upc EXCEPT ![u] = "read"] /\ target' = [target EXCEPT ![u] = c]
  /\ seen' = [seen EXCEPT ![u] = claims[c].status]
  /\ UNCHANGED <<worker, claims, warned, updates, janitor, history>>

\* ... and SaveClaim, whatever the claim has become.
SaveClaim(u) ==
  LET c == target[u] IN
  /\ upc[u] = "read" /\ upc' = [upc EXCEPT ![u] = "done"]
  /\ claims' = SetStatus({c}, updates[u])
  /\ revived' = IF claims[c].status = "released" /\ updates[u] = "blocked"
                THEN revived \cup {c} ELSE revived
  /\ settled' = settled \ {c}
  /\ UNCHANGED <<worker, warned, updates, target, seen, janitor, batch>>

-----------------------------------------------------------------------------
(* janitor release --apply.                                                *)

ListWorkers ==
  /\ jpc = "off" /\ jpc' = "listing" /\ listed' = worker
  /\ UNCHANGED <<worker, claims, warned, update, candidates, history>>

\* janitorClaimCandidates: active claims that expired, or whose worker is
\* unknown, terminal or stale.
Releasable(c, known) ==
  /\ claims[c].status = "active"
  /\ claims[c].expired \/ known[claims[c].owner] \in {"absent", "terminal", "stale"}

ListClaims ==
  /\ jpc = "listing" /\ jpc' = "releasing"
  /\ candidates' = {c \in Claims : Releasable(c, listed)}
  /\ UNCHANGED <<worker, claims, warned, update, listed, history>>

JanitorSave(c) ==
  /\ jpc = "releasing" /\ c \in candidates
  /\ candidates' = candidates \ {c} /\ claims' = SetStatus({c}, "released")
  /\ UNCHANGED <<worker, warned, update, jpc, listed, history>>

JanitorEnds ==
  /\ jpc = "releasing" /\ candidates = {} /\ jpc' = "off"
  /\ UNCHANGED <<worker, claims, warned, update, listed, candidates, history>>

Next ==
  \/ \E w \in Workers :
       \/ Touch(w) \/ Age(w) \/ CloseWorker(w)
       \/ \E C \in SUBSET Claims : \E scope \in [C -> Scopes] : Create(w, C, scope)
  \/ \E c \in Claims : Expire(c) \/ JanitorSave(c) \/ \E u \in Updates : ReadClaim(u, c)
  \/ \E u \in Updates : SaveClaim(u)
  \/ ListWorkers \/ ListClaims \/ JanitorEnds

Spec == Init /\ [][Next]_vars

-----------------------------------------------------------------------------
(* Properties.                                                             *)

\* Every variable has its type.
TypeOK ==
  /\ worker \in [Workers -> {"absent", "live", "stale", "terminal"}]
  /\ \A c \in Claims : Exists(c) =>
        claims[c] \in [owner : Workers, scope : Scopes, expired : BOOLEAN,
                       status : {"active", "blocked", "released"}]
  /\ warned \in [Claims -> SUBSET Claims]
  /\ upc \in [Updates -> {"off", "read", "done"}] /\ target \in [Updates -> Claims \cup {NoClaim}]
  /\ jpc \in {"off", "listing", "releasing"} /\ candidates \subseteq Claims

\* What a scope covers: a task covers itself, a path what lies under it.
Covers(s, p) == IF s.kind = "task" THEN s.value = p ELSE IsPrefix(s.value, p)
Meet(a, b) == a.kind = b.kind /\ \E p \in Paths : Covers(a, p) /\ Covers(b, p)

\* Of two open claims that cover a common path, task or resource one creator
\* was shown the other's claim, unless both came from one command or one of
\* them was opened again after its release.
\* (docs/design.md:225, "Claims cover path, task, or live-resource scopes.")
SomeoneWarned ==
  \A c, d \in Claims :
     c # d /\ IsOpen(c) /\ IsOpen(d) /\ Meet(claims[c].scope, claims[d].scope)
     => c \in warned[d] \/ d \in warned[c] \/ d \in batch[c] \/ {c, d} \cap revived # {}

\* Conversely nobody is warned of a claim with nothing in common.
WarningsTrue ==
  \A c \in Claims : \A d \in warned[c] : Meet(claims[c].scope, claims[d].scope)

\* Claims overlap exactly when somebody was warned of it.
ClaimWarningsExact == SomeoneWarned /\ WarningsTrue

\* A claim of a closed worker stays released until somebody updates it.
\* (docs/design.md:230-231, "releases all active claims")
CloseoutSettles == \A c \in settled : claims[c].status = "released"

\* A released claim is opened again only by a command that knew it was released.
ReleaseSticks ==
  [][\A c \in Claims :
       claims[c].status = "released" /\ claims'[c].status # "released"
       => \E u \in Updates : upc[u] # upc'[u] /\ target[u] = c /\ seen[u] = "released"]_vars

\* The janitor releases claims only while they are releasable.
\* (docs/design.md:237, "Janitor commands identify stale workers and
\* releasable claims")
JanitorSpares ==
  [][\A c \in Claims : c \in candidates /\ c \notin candidates' =>
       Releasable(c, worker) \/ claims[c].status # "active"]_vars
=============================================================================
