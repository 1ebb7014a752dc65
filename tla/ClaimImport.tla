----------------------------- MODULE ClaimImport -----------------------------
(***************************************************************************)
(* cs issue sync and pull: machines, each with its own claims, exchange    *)
(* them through a marker comment on a GitHub issue.  A sync publishes the  *)
(* claims of one machine in the place of what was published last; a pull   *)
(* plans what to import and then imports it, while workers of the machine  *)
(* go on with their claims.  cs legacy import-coordinator saves the claims *)
(* of the coordinator that came before.  GitHub is external.               *)
(***************************************************************************)
EXTENDS Naturals, Sequences, FiniteSets

CONSTANTS
  Machines,
  Claims,    \* IDs, all of one issue
  Legacy,    \* the ID of a claim of the legacy coordinator
  Commands,  \* invocations of cs issue sync and pull
  None,
  MaxClock   \* bound: updates of claims

ClaimImportAssumption == Legacy \in Claims /\ None \notin Machines \cup Claims /\ MaxClock \in Nat

VARIABLES
  clock,
  claim,     \* per machine: ID -> claim or None
  home,      \* ID -> the machine that has the worker of the claim
  comments,  \* marker comments in the order of their creation: published claims
  pc, at, force,  \* per command: where it is, on which machine, --force
  seen,      \* what a sync will publish, what a pull fetched
  number,    \* the marker comment a sync found, 0 if none
  todo, plan \* claims a pull has yet to look at, claims it will import

command == <<pc, at, force, seen, number, todo, plan>>
vars == <<clock, claim, home, comments, command>>

Row(status, updated, external) == [status |-> status, updated |-> updated, external |-> external]
Nothing == [c \in Claims |-> None]

Init ==
  /\ clock = 0 /\ claim = [m \in Machines |-> Nothing] /\ home = Nothing /\ comments = << >>
  /\ pc = [k \in Commands |-> "off"] /\ at = [k \in Commands |-> None]
  /\ force = [k \in Commands |-> FALSE] /\ seen = [k \in Commands |-> Nothing]
  /\ number = [k \in Commands |-> 0]
  /\ todo = [k \in Commands |-> {}] /\ plan = [k \in Commands |-> {}]

To(k, s) == pc' = [pc EXCEPT ![k] = s]

-----------------------------------------------------------------------------
(* Claims on one machine.                                                  *)

Create(m, c) ==
  /\ home[c] = None /\ c # Legacy /\ clock < MaxClock
  /\ clock' = clock + 1 /\ home' = [home EXCEPT ![c] = m]
  /\ claim' = [claim EXCEPT ![m][c] = Row("active", clock', FALSE)]
  /\ UNCHANGED <<comments, command>>

\* cs claim renew, block and release, in one step here; ClaimLedger has their two
\* transactions.
updateClaim(m, c, status) ==
  /\ claim[m][c] # None /\ clock < MaxClock /\ clock' = clock + 1
  /\ claim' = [claim EXCEPT ![m][c].status = status, ![m][c].updated = clock']
  /\ UNCHANGED <<home, comments, command>>

\* The times of the file, and a worker of elsewhere.
mapLegacyClaim(status) == Row(status, 0, TRUE)

\* Open claims, with --all released ones too, are saved whatever is there.
legacyImportCoordinator(m, status) ==
  /\ claim' = [claim EXCEPT ![m][Legacy] = mapLegacyClaim(status)]
  /\ UNCHANGED <<clock, home, comments, command>>

-----------------------------------------------------------------------------
(* issue sync.                                                             *)

\* claimsForIssue.
ListClaims(k, m) ==
  /\ pc[k] = "off" /\ To(k, "listed") /\ at' = [at EXCEPT ![k] = m]
  /\ seen' = [seen EXCEPT ![k] = claim[m]]
  /\ UNCHANGED <<clock, claim, home, comments, force, number, todo, plan>>

\* latestMarkerCommentID: the marker comment that was created last.
latestMarkerCommentID == Len(comments)

FindMarker(k) ==
  /\ pc[k] = "listed" /\ To(k, "found") /\ number' = [number EXCEPT ![k] = latestMarkerCommentID]
  /\ UNCHANGED <<clock, claim, home, comments, at, force, seen, todo, plan>>

\* A new comment if none was found, otherwise new text for the one that was.
upsertIssueMarkerComment(k) ==
  /\ pc[k] = "found" /\ To(k, "done")
  /\ comments' = IF number[k] = 0 THEN Append(comments, seen[k])
                 ELSE [comments EXCEPT ![number[k]] = seen[k]]
  /\ UNCHANGED <<clock, claim, home, at, force, seen, number, todo, plan>>

issueSync(k, m) == ListClaims(k, m) \/ FindMarker(k) \/ upsertIssueMarkerComment(k)

-----------------------------------------------------------------------------
(* issue pull.                                                             *)

\* latestClaimSnapshot: a comment that was created later always wins.
latestClaimSnapshot == comments[Len(comments)]

Fetch(k, m, f) ==
  /\ pc[k] = "off" /\ comments # << >> /\ To(k, "fetched")
  /\ at' = [at EXCEPT ![k] = m] /\ force' = [force EXCEPT ![k] = f]
  /\ seen' = [seen EXCEPT ![k] = latestClaimSnapshot]
  /\ todo' = [todo EXCEPT ![k] = {c \in Claims : latestClaimSnapshot[c] # None}]
  /\ UNCHANGED <<clock, claim, home, comments, number, plan>>

\* A claim that is external, or whose worker is not of this machine, is external.
normalizeImportedClaimWorker(c, row, m) ==
  IF row.external \/ home[c] = m THEN row ELSE [row EXCEPT !.external = TRUE]

\* A newer local claim stays unless --force was given.
Newer(m, c, row) == claim[m][c] # None /\ claim[m][c].updated > row.updated

\* Each claim is looked up in a transaction of its own.
planClaimSnapshotImport(k, c) ==
  /\ pc[k] = "fetched" /\ c \in todo[k]
  /\ LET row == normalizeImportedClaimWorker(c, seen[k][c], at[k]) IN
     /\ seen' = [seen EXCEPT ![k][c] = row]
     /\ plan' = IF ~force[k] /\ Newer(at[k], c, row) THEN plan
                ELSE [plan EXCEPT ![k] = @ \cup {c}]
  /\ todo' = [todo EXCEPT ![k] = @ \ {c}]
  /\ UNCHANGED <<clock, claim, home, comments, pc, at, force, number>>

\* Mutant: the plan is carried out as it was made.
ImportPlanned(k, c) == TRUE

\* ImportClaims looks at every claim again, in the transaction that saves them.
Imports(k, c) == force[k] \/ ~Newer(at[k], c, seen[k][c])

ImportClaims(k) ==
  LET m == at[k] IN
  claim' = [claim EXCEPT ![m] = [c \in Claims |->
              IF c \in plan[k] /\ Imports(k, c) THEN seen[k][c] ELSE claim[m][c]]]

\* --dry-run ends here.
applyClaimImportPlan(k) ==
  /\ pc[k] = "fetched" /\ todo[k] = {} /\ To(k, "done")
  /\ ImportClaims(k) \/ UNCHANGED claim
  /\ UNCHANGED <<clock, home, comments, at, force, seen, number, todo, plan>>

issuePull(k, m, f) ==
  \/ Fetch(k, m, f) \/ applyClaimImportPlan(k)
  \/ \E c \in Claims : planClaimSnapshotImport(k, c)

Next ==
  \E m \in Machines :
    \/ \E s \in {"active", "released"} :
         legacyImportCoordinator(m, s) \/ (\E c \in Claims : updateClaim(m, c, s))
    \/ \E c \in Claims : Create(m, c)
    \/ \E k \in Commands : issueSync(k, m) \/ (\E f \in BOOLEAN : issuePull(k, m, f))

Spec == Init /\ [][Next]_vars

-----------------------------------------------------------------------------
(* Properties.                                                             *)

\* A pull without --force never puts an older claim in the place of a newer one,
\* whatever happened to the claims since it fetched them and since it planned.
\* (cmd/cs/issue.go:131, "overwrite newer local claims with issue marker claims")
PullKeepsNewer ==
  [][\A k \in Commands : pc[k] = "fetched" /\ pc'[k] = "done" /\ ~force[k] =>
        \A c \in Claims : claim[at[k]][c] # None =>
           claim'[at[k]][c].updated >= claim[at[k]][c].updated]_vars

\* A claim stays a claim of its machine's worker, whoever pulled and published it.
OwnStaysOwn == \A c \in Claims \ {Legacy} : home[c] # None => ~claim[home[c]][c].external

\* A sync never unpublishes a claim of another machine.
StaysPublished ==
  [][\A i \in DOMAIN comments, c \in Claims : comments[i][c] # None => comments'[i][c] # None]_vars

\* A released claim becomes active again only by an update or a forced pull.
ReleasedStays ==
  [][\A m \in Machines, c \in Claims :
        /\ claim[m][c] # None /\ claim[m][c].status = "released"
        /\ clock' = clock /\ \A k \in Commands : ~force[k]
        => claim'[m][c].status = "released" \/ claim'[m][c].updated > claim[m][c].updated]_vars
=============================================================================
