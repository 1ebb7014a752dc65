--------------------------- MODULE TaskIndexProofs ---------------------------
(***************************************************************************)
(* Proofs about TaskIndex, for all tasks, observations, page requests,     *)
(* snapshots, caps and numbers of ingestions; about the dispatch of        *)
(* validation pairs (Dispatch, instance D of MCTasks) for any number of    *)
(* calls; and about the paged listing (TaskListing, instance L) for any    *)
(* rows and page sizes.                                                    *)
(***************************************************************************)
EXTENDS MCTasks, FiniteSetTheorems, SequenceTheorems, TLAPS

Sources == {"", Source} \cup {d.source : d \in Directs}

RowType == [known : BOOLEAN, at : Nat, by : RequestIDs \cup {""}, missing : BOOLEAN,
            tombstoned : BOOLEAN, source : Sources, classAt : Nat, classBy : RequestIDs \cup {""}]

HeardType == [at : Nat, by : RequestIDs, says : {"live", "tombstoned", "absent"}]
ClassType == [at : Nat, by : RequestIDs]

CollectionType(o) ==
  [stage : {"none", "open"} \cup Coverages, at : Nat, received : Nat, pages : Seq(Pages[o])]

IsSnapshot(s) ==
  /\ s.req \in RequestIDs /\ s.at \in Nat \ {0} /\ s.source \in Sources
  /\ DOMAIN s.tasks \subseteq Tasks
  /\ \A t \in DOMAIN s.tasks : s.tasks[t] \in {"live", "tombstoned"}
  /\ s.classifies \subseteq DOMAIN s.tasks /\ s.classifiedAt \in Nat \ {0}

\* The snapshot of time x and request y is not newer than the one of time at and
\* request req.
NotNewer(x, y, at, req) == x < at \/ (x = at /\ Rank[y] <= Rank[req])

\* A row says what the newest of the snapshots in H said.
StateFits(row, H) ==
  /\ H \subseteq HeardType
  /\ row.known => row.by \in RequestIDs
  /\ ~row.known => H = {}
  /\ row.known => \E h \in H : /\ h.at = row.at /\ h.by = row.by
                               /\ row.missing = (h.says = "absent")
                               /\ row.tombstoned = (h.says = "tombstoned")
  /\ \A h \in H : NotNewer(h.at, h.by, row.at, row.by)

\* Its classification is the newest of those in C.
ClassFits(row, C) ==
  /\ C \subseteq ClassType
  /\ row.classBy = "" => C = {} /\ row.classAt = 0
  /\ \A c \in C : NotNewer(c.at, c.by, row.classAt, row.classBy)

\* The inductive invariant.
IndexInv ==
  /\ clock \in Nat \ {0}
  /\ index \in [Tasks -> RowType]
  /\ \A t \in Tasks : StateFits(index[t], heard[t]) /\ ClassFits(index[t], classified[t])
  /\ collection = [o \in Observations |-> collection[o]]
  /\ \A o \in Observations : /\ collection[o] \in CollectionType(o)
                             /\ collection[o].stage = "open" => collection[o].at # 0

-----------------------------------------------------------------------------
(* Facts about the operators.                                              *)

\* snapshotWins is a strict order on (time, request ID): who does not win is older
\* or the same.
LEMMA Losers ==
  ASSUME NEW at \in Nat, NEW req \in RequestIDs, NEW stateAt \in Nat, NEW stateReq \in RequestIDs,
         ~snapshotWins(at, req, stateAt, stateReq)
  PROVE  NotNewer(at, req, stateAt, stateReq)
<1>1. Rank[req] \in Nat /\ Rank[stateReq] \in Nat
  BY IndexAssumption DEF IndexAssumption
<1>2. ~(at > stateAt) /\ ~(at = stateAt /\ Rank[req] > Rank[stateReq])
  BY Zenon DEF snapshotWins
<1>3. QED
  BY <1>1, <1>2 DEF NotNewer

\* Who wins is newer than everything the loser is newer than.
LEMMA Winners ==
  ASSUME NEW at \in Nat, NEW req \in RequestIDs, NEW stateAt \in Nat, NEW stateReq \in RequestIDs,
         snapshotWins(at, req, stateAt, stateReq),
         NEW x \in Nat, NEW y \in RequestIDs, NotNewer(x, y, stateAt, stateReq)
  PROVE  NotNewer(x, y, at, req)
<1>1. Rank[req] \in Nat /\ Rank[stateReq] \in Nat /\ Rank[y] \in Nat
  BY IndexAssumption DEF IndexAssumption
<1>2. stateReq # ""
  BY IndexAssumption, Zenon DEF IndexAssumption
<1>3. at > stateAt \/ (at = stateAt /\ Rank[req] > Rank[stateReq])
  BY <1>2, Zenon DEF snapshotWins
<1>4. QED
  BY <1>1, <1>3 DEF NotNewer

\* Appending keeps the type of a sequence.
LEMMA AppendType ==
  ASSUME NEW S, NEW q \in Seq(S), NEW p \in S PROVE Append(q, p) \in Seq(S)
OBVIOUS

\* A sequence of one.
LEMMA SingletonType ==
  ASSUME NEW S, NEW p \in S PROVE <<p>> \in Seq(S)
OBVIOUS

\* A listing says of some tasks that they are live or tombstoned.
LEMMA ListingType ==
  ASSUME NEW f \in Listings
  PROVE  DOMAIN f \subseteq Tasks /\ \A t \in DOMAIN f : f[t] \in {"live", "tombstoned"}
<1>1. PICK T \in SUBSET Tasks : f \in [T -> {"live", "tombstoned"}]
  BY DEF Listings
<1>2. QED
  BY <1>1

\* A direct snapshot is a snapshot.
LEMMA DirectIsSnapshot ==
  ASSUME NEW d \in Directs PROVE IsSnapshot(d)
<1>1. d.req \in RequestIDs /\ d.source \in Sources
  BY DEF RequestIDs, Sources
<1>2. /\ d.at \in Nat \ {0} /\ d.tasks \in Listings
      /\ d.classifies \subseteq DOMAIN d.tasks /\ d.classifiedAt \in Nat \ {0}
  BY IndexAssumption DEF IndexAssumption
<1>3. DOMAIN d.tasks \subseteq Tasks /\ \A t \in DOMAIN d.tasks : d.tasks[t] \in {"live", "tombstoned"}
  BY <1>2, ListingType
<1>4. QED
  BY <1>1, <1>2, <1>3 DEF IsSnapshot

\* What the pages of an open collection say together is a snapshot.
LEMMA PublishedIsSnapshot ==
  ASSUME IndexInv, NEW o \in Observations, collection[o].stage = "open", NEW coverage
  PROVE  IsSnapshot(Published(o, coverage))
<1> DEFINE s == Published(o, coverage)
<1>1. \A p \in Staged(o) : p \in Pages[o]
  <2>1. collection[o].pages \in Seq(Pages[o])
    BY DEF IndexInv, CollectionType
  <2>2. QED
    BY <2>1 DEF Staged
<1>2. \A p \in Staged(o) : /\ DOMAIN p.tasks \subseteq Tasks
                          /\ \A t \in DOMAIN p.tasks : p.tasks[t] \in {"live", "tombstoned"}
  <2>1. SUFFICES ASSUME NEW p \in Staged(o)
                 PROVE  /\ DOMAIN p.tasks \subseteq Tasks
                        /\ \A t \in DOMAIN p.tasks : p.tasks[t] \in {"live", "tombstoned"}
    OBVIOUS
  <2>2. p.tasks \in Listings
    BY <1>1, IndexAssumption DEF IndexAssumption
  <2>3. QED
    BY <2>2, ListingType
<1>3. /\ s.req = o /\ s.at = collection[o].at /\ s.source = Source /\ s.classifies = {}
      /\ s.classifiedAt = collection[o].at
      /\ s.tasks = [t \in StagedTasks(o) |-> (CHOOSE p \in Staged(o) : t \in DOMAIN p.tasks).tasks[t]]
  BY DEF Published
<1>4. collection[o].at \in Nat \ {0}
  BY DEF IndexInv, CollectionType
<1>5. DOMAIN s.tasks = StagedTasks(o)
  BY <1>3
<1>6. StagedTasks(o) \subseteq Tasks
  BY <1>2 DEF StagedTasks
<1>7. ASSUME NEW t \in StagedTasks(o) PROVE s.tasks[t] \in {"live", "tombstoned"}
  <2> DEFINE q == CHOOSE p \in Staged(o) : t \in DOMAIN p.tasks
  <2>1. \E p \in Staged(o) : t \in DOMAIN p.tasks
    BY <1>7 DEF StagedTasks
  <2>2. q \in Staged(o) /\ t \in DOMAIN q.tasks
    BY <2>1, Zenon
  <2>3. s.tasks[t] = q.tasks[t]
    BY <1>3, <1>7, Zenon
  <2>. HIDE DEF q, s
  <2>4. QED
    BY <1>2, <2>2, <2>3
<1>8. o \in RequestIDs /\ Source \in Sources
  BY DEF RequestIDs, Sources
<1>. HIDE DEF s
<1>9. QED
  <2>1. DOMAIN s.tasks \subseteq Tasks /\ \A t \in DOMAIN s.tasks : s.tasks[t] \in {"live", "tombstoned"}
    BY <1>5, <1>6, <1>7
  <2>2. /\ s.req \in RequestIDs /\ s.at \in Nat \ {0} /\ s.source \in Sources
        /\ s.classifies \subseteq DOMAIN s.tasks /\ s.classifiedAt \in Nat \ {0}
    BY <1>3, <1>4, <1>8
  <2>3. IsSnapshot(s)
    BY <2>1, <2>2 DEF IsSnapshot
  <2>4. QED
    BY <2>3 DEF s

-----------------------------------------------------------------------------
(* One row under one snapshot.                                             *)

\* A classification that is merged leaves the rest of the row alone.
LEMMA ClassificationKeepsState ==
  ASSUME NEW s, IsSnapshot(s), NEW t \in Tasks, NEW row \in RowType
  PROVE  LET r == mergeCodexTaskClassification(s, t, row) IN
         /\ r \in RowType /\ r.known = row.known /\ r.at = row.at /\ r.by = row.by
         /\ r.missing = row.missing /\ r.tombstoned = row.tombstoned
<1>1. s.classifiedAt \in Nat /\ s.req \in RequestIDs \cup {""}
  BY DEF IsSnapshot
<1>2. CASE mergeCodexTaskClassification(s, t, row) = row
  BY <1>2
<1>3. CASE mergeCodexTaskClassification(s, t, row) = [row EXCEPT !.classAt = s.classifiedAt, !.classBy = s.req]
  BY <1>1, <1>3 DEF RowType
<1>4. QED
  BY <1>2, <1>3 DEF mergeCodexTaskClassification

\* and keeps the newest classification.
LEMMA ClassificationFits ==
  ASSUME NEW s, IsSnapshot(s), NEW t \in Tasks, NEW row \in RowType, NEW C, ClassFits(row, C)
  PROVE  ClassFits(mergeCodexTaskClassification(s, t, row),
                   C \cup IF t \in s.classifies THEN {[at |-> s.classifiedAt, by |-> s.req]} ELSE {})
<1> DEFINE r == mergeCodexTaskClassification(s, t, row)
           c == [at |-> s.classifiedAt, by |-> s.req]
           K == C \cup IF t \in s.classifies THEN {c} ELSE {}
<1>1. s.classifiedAt \in Nat \ {0} /\ s.req \in RequestIDs
  BY DEF IsSnapshot
<1>2. /\ c \in ClassType /\ c.at = s.classifiedAt /\ c.by = s.req
      /\ row.classAt \in Nat /\ row.classBy \in RequestIDs \cup {""}
      /\ \A x \in ClassType : x.at \in Nat /\ x.by \in RequestIDs
  BY <1>1 DEF ClassType, RowType
<1>3. CASE t \notin s.classifies
  <2>1. r = row
    BY <1>3, Zenon DEF mergeCodexTaskClassification
  <2>2. K = C
    BY <1>3
  <2>3. QED
    BY <2>1, <2>2
<1>4. CASE t \in s.classifies /\ snapshotWins(s.classifiedAt, s.req, row.classAt, row.classBy)
  <2>1. r = [row EXCEPT !.classAt = s.classifiedAt, !.classBy = s.req]
    BY <1>4, Zenon DEF mergeCodexTaskClassification
  <2>2. r.classAt = s.classifiedAt /\ r.classBy = s.req
    BY <2>1 DEF RowType
  <2>3. K = C \cup {c}
    BY <1>4
  <2>4. r.classBy # ""
    BY <1>1, <2>2, IndexAssumption, Zenon DEF IndexAssumption
  <2>5. K \subseteq ClassType
    BY <1>2, <2>3 DEF ClassFits
  <2>. HIDE DEF c, r, K
  <2>6. ASSUME NEW x \in C
        PROVE  NotNewer(x.at, x.by, r.classAt, r.classBy)
    <3>1. row.classBy \in RequestIDs /\ x \in ClassType
      BY <1>2 DEF ClassFits
    <3>2. NotNewer(x.at, x.by, row.classAt, row.classBy)
      BY DEF ClassFits
    <3>3. x.at \in Nat /\ x.by \in RequestIDs
      BY <1>2, <3>1
    <3>4. QED
      <4>1. NotNewer(x.at, x.by, s.classifiedAt, s.req)
        <5>1. s.classifiedAt \in Nat /\ s.req \in RequestIDs /\ row.classAt \in Nat
          BY <1>1, <1>2
        <5>2. snapshotWins(s.classifiedAt, s.req, row.classAt, row.classBy)
          BY <1>4
        <5>3. QED
          BY <5>1, <5>2, <3>1, <3>2, <3>3, Winners, Zenon
      <4>2. QED
        BY <2>2, <4>1
  <2>7. NotNewer(c.at, c.by, r.classAt, r.classBy)
    <3>1. Rank[s.req] \in Nat
      BY <1>1, IndexAssumption DEF IndexAssumption
    <3>2. QED
      <4>1. c.at = r.classAt /\ c.by = r.classBy
        BY <1>2, <2>2
      <4>2. Rank[r.classBy] <= Rank[r.classBy]
        BY <2>2, <3>1
      <4>3. QED
        BY <4>1, <4>2 DEF NotNewer
  <2>8. ClassFits(r, K)
    BY <2>3, <2>4, <2>5, <2>6, <2>7 DEF ClassFits
  <2>9. QED
    BY <2>8 DEF K, c, r
<1>5. CASE t \in s.classifies /\ ~snapshotWins(s.classifiedAt, s.req, row.classAt, row.classBy)
  <2>1. r = row
    BY <1>5, Zenon DEF mergeCodexTaskClassification
  <2>2. K = C \cup {c}
    BY <1>5
  <2>3. row.classBy # ""
    <3>1. SUFFICES ASSUME row.classBy = "" PROVE FALSE
      OBVIOUS
    <3>2. ~(s.classifiedAt > row.classAt) /\ ~(s.classifiedAt = row.classAt)
      BY <1>5, <3>1, Zenon DEF snapshotWins
    <3>3. row.classAt = 0
      BY <3>1 DEF ClassFits
    <3>4. s.classifiedAt > 0
      BY <1>1
    <3>5. QED
      BY <3>2, <3>3, <3>4
  <2>4. NotNewer(s.classifiedAt, s.req, row.classAt, row.classBy)
    BY <1>1, <1>2, <1>5, <2>3, Losers
  <2>. HIDE DEF c, r, K
  <2>5. ClassFits(row, K)
    BY <1>2, <2>2, <2>3, <2>4 DEF ClassFits
  <2>6. QED
    BY <2>1, <2>5 DEF K, c, r
<1>6. QED
  BY <1>3, <1>4, <1>5

\* A row that a snapshot wrote fits, if the snapshot is the first to speak of the
\* task or won over the row.
LEMMA WrittenFits ==
  ASSUME NEW s, IsSnapshot(s), NEW t \in Tasks, NEW old \in RowType, NEW H, StateFits(old, H),
         ~old.known \/ snapshotWins(s.at, s.req, old.at, old.by),
         NEW new \in RowType, new.known, new.at = s.at, new.by = s.req,
         new.missing = (Says(s, t) = "absent"), new.tombstoned = (Says(s, t) = "tombstoned")
  PROVE  StateFits(new, H \cup {[at |-> s.at, by |-> s.req, says |-> Says(s, t)]})
<1> DEFINE h == [at |-> s.at, by |-> s.req, says |-> Says(s, t)]
           G == H \cup {h}
<1>1. s.at \in Nat /\ s.req \in RequestIDs /\ Says(s, t) \in {"live", "tombstoned", "absent"}
  BY DEF IsSnapshot, Says
<1>2. h \in HeardType /\ h.at = s.at /\ h.by = s.req /\ h.says = Says(s, t)
  BY <1>1 DEF HeardType
<1>3. H \subseteq HeardType /\ \A x \in HeardType : x.at \in Nat /\ x.by \in RequestIDs
  BY DEF StateFits, HeardType
<1>4. ASSUME NEW x \in H PROVE NotNewer(x.at, x.by, s.at, s.req)
  <2>1. old.known /\ old.by \in RequestIDs /\ old.at \in Nat
    BY DEF StateFits, RowType
  <2>2. snapshotWins(s.at, s.req, old.at, old.by)
    BY <2>1
  <2>3. NotNewer(x.at, x.by, old.at, old.by)
    BY DEF StateFits
  <2>4. QED
    BY <1>1, <1>3, <2>1, <2>2, <2>3, Winners, Zenon
<1>5. NotNewer(h.at, h.by, s.at, s.req)
  <2>1. Rank[s.req] <= Rank[s.req]
    <3>1. Rank[s.req] \in Nat
      BY <1>1, IndexAssumption DEF IndexAssumption
    <3>2. QED
      BY <3>1
  <2>2. QED
    BY <1>2, <2>1 DEF NotNewer
<1>. HIDE DEF h
<1>6. \A x \in G : NotNewer(x.at, x.by, new.at, new.by)
  BY <1>4, <1>5
<1>7. \E x \in G : /\ x.at = new.at /\ x.by = new.by
                   /\ new.missing = (x.says = "absent") /\ new.tombstoned = (x.says = "tombstoned")
  <2>1. h \in G
    OBVIOUS
  <2>2. QED
    BY <1>2, <2>1, Zenon
<1>8. G \subseteq HeardType /\ new.by \in RequestIDs
  BY <1>1, <1>2, <1>3
<1>. HIDE DEF G
<1>9. StateFits(new, G)
  BY <1>6, <1>7, <1>8, Zenon DEF StateFits
<1>10. QED
  BY <1>9 DEF G, h

\* A row that a snapshot lost against still fits.
LEMMA UnwrittenFits ==
  ASSUME NEW s, IsSnapshot(s), NEW t \in Tasks, NEW row \in RowType, NEW H, StateFits(row, H),
         row.known, ~snapshotWins(s.at, s.req, row.at, row.by)
  PROVE  StateFits(row, H \cup {[at |-> s.at, by |-> s.req, says |-> Says(s, t)]})
<1> DEFINE h == [at |-> s.at, by |-> s.req, says |-> Says(s, t)]
           G == H \cup {h}
<1>1. s.at \in Nat /\ s.req \in RequestIDs /\ Says(s, t) \in {"live", "tombstoned", "absent"}
  BY DEF IsSnapshot, Says
<1>2. h \in HeardType /\ h.at = s.at /\ h.by = s.req
  BY <1>1 DEF HeardType
<1>3. row.by \in RequestIDs /\ row.at \in Nat
  BY DEF StateFits, RowType
<1>. HIDE DEF h
<1>4. NotNewer(h.at, h.by, row.at, row.by)
  BY <1>1, <1>2, <1>3, Losers
<1>5. \A x \in G : NotNewer(x.at, x.by, row.at, row.by)
  BY <1>4 DEF StateFits
<1>6. \E x \in G : /\ x.at = row.at /\ x.by = row.by
                   /\ row.missing = (x.says = "absent") /\ row.tombstoned = (x.says = "tombstoned")
  BY Zenon DEF StateFits
<1>7. G \subseteq HeardType
  BY <1>2 DEF StateFits
<1>. HIDE DEF G
<1>8. StateFits(row, G)
  BY <1>3, <1>5, <1>6, <1>7, Zenon DEF StateFits
<1>9. QED
  BY <1>8 DEF G, h

\* What fits depends on the fields of a row only.
LEMMA SameFits ==
  ASSUME NEW r \in RowType, NEW row \in RowType, NEW H, StateFits(row, H),
         r.known = row.known, r.at = row.at, r.by = row.by, r.missing = row.missing,
         r.tombstoned = row.tombstoned
  PROVE  StateFits(r, H)
BY Zenon DEF StateFits

\* The row of a task after a snapshot says what the newest snapshot says, the new one
\* included.
LEMMA RowFits ==
  ASSUME IndexInv, NEW s, IsSnapshot(s), NEW t \in Tasks
  PROVE  /\ Row(s, t) \in RowType
         /\ StateFits(Row(s, t), heard[t] \cup
               IF t \in DOMAIN s.tasks \cup Absent(s)
               THEN {[at |-> s.at, by |-> s.req, says |-> Says(s, t)]} ELSE {})
         /\ ClassFits(Row(s, t), classified[t] \cup
               IF t \in s.classifies THEN {[at |-> s.classifiedAt, by |-> s.req]} ELSE {})
<1> DEFINE h == [at |-> s.at, by |-> s.req, says |-> Says(s, t)]
           H == heard[t] \cup IF t \in DOMAIN s.tasks \cup Absent(s) THEN {h} ELSE {}
           C == classified[t] \cup
                  IF t \in s.classifies THEN {[at |-> s.classifiedAt, by |-> s.req]} ELSE {}
           row == index[t]
<1>1. row \in RowType /\ StateFits(row, heard[t]) /\ ClassFits(row, classified[t])
  BY DEF IndexInv
<1>2. s.at \in Nat /\ s.req \in RequestIDs \cup {""} /\ s.source \in Sources
  BY DEF IsSnapshot
<1>a. CASE t \in DOMAIN s.tasks /\ (~row.known \/ Supersedes(s, t))
  <2> DEFINE m == mergeCodexTask(s, t)
  <2>1. Row(s, t) = mergeCodexTaskClassification(s, t, m)
    <3>1. t \notin Absent(s)
      BY <1>a DEF Absent
    <3>2. QED
      BY <1>a, <3>1 DEF Row
  <2>2. m = [row EXCEPT !.known = TRUE, !.at = s.at, !.by = s.req, !.source = s.source,
                        !.missing = FALSE, !.tombstoned = (s.tasks[t] = "tombstoned")]
    BY DEF mergeCodexTask
  <2>3. (s.tasks[t] = "tombstoned") \in BOOLEAN
    OBVIOUS
  <2>4. /\ m \in RowType /\ m.known /\ m.at = s.at /\ m.by = s.req
        /\ m.missing = FALSE /\ m.tombstoned = (s.tasks[t] = "tombstoned")
        /\ m.classAt = row.classAt /\ m.classBy = row.classBy
    <3>. HIDE DEF m, row
    <3>1. QED
      BY <1>1, <1>2, <2>2, <2>3 DEF RowType
  <2>5. Says(s, t) = s.tasks[t] /\ Says(s, t) # "absent"
    BY <1>a DEF Says, IsSnapshot
  <2>6. m.missing = (Says(s, t) = "absent") /\ m.tombstoned = (Says(s, t) = "tombstoned")
    BY <2>4, <2>5
  <2>7. H = heard[t] \cup {h}
    BY <1>a
  <2>8. ~row.known \/ snapshotWins(s.at, s.req, row.at, row.by)
    BY <1>a DEF Supersedes
  <2>. HIDE DEF m, row, H, C
  <2>9. StateFits(m, H)
    BY <1>1, <2>4, <2>6, <2>7, <2>8, WrittenFits
  <2>10. ClassFits(m, classified[t])
    BY <1>1, <2>4 DEF ClassFits
  <2>11. LET r == mergeCodexTaskClassification(s, t, m) IN
         /\ r \in RowType /\ r.known = m.known /\ r.at = m.at /\ r.by = m.by
         /\ r.missing = m.missing /\ r.tombstoned = m.tombstoned
    BY <2>4, ClassificationKeepsState, Zenon
  <2>12. ClassFits(mergeCodexTaskClassification(s, t, m), C)
    BY <2>4, <2>10, ClassificationFits, Zenon DEF C
  <2>13. StateFits(mergeCodexTaskClassification(s, t, m), H)
    BY <2>4, <2>9, <2>11, SameFits, Zenon
  <2>14. QED
    BY <2>1, <2>11, <2>12, <2>13, Zenon DEF C, H
<1>b. CASE t \in DOMAIN s.tasks /\ row.known /\ ~Supersedes(s, t)
  <2>1. Row(s, t) = mergeCodexTaskClassification(s, t, row)
    BY <1>b, Zenon DEF Row
  <2>2. H = heard[t] \cup {h}
    BY <1>b
  <2>3. row.known /\ ~snapshotWins(s.at, s.req, row.at, row.by)
    BY <1>b DEF Supersedes
  <2>. HIDE DEF row, H, C
  <2>4. StateFits(row, H)
    BY <1>1, <2>2, <2>3, UnwrittenFits
  <2>5. LET r == mergeCodexTaskClassification(s, t, row) IN
         /\ r \in RowType /\ r.known = row.known /\ r.at = row.at /\ r.by = row.by
         /\ r.missing = row.missing /\ r.tombstoned = row.tombstoned
    BY <1>1, ClassificationKeepsState, Zenon
  <2>6. ClassFits(mergeCodexTaskClassification(s, t, row), C)
    BY <1>1, ClassificationFits, Zenon DEF C
  <2>7. StateFits(mergeCodexTaskClassification(s, t, row), H)
    BY <1>1, <2>4, <2>5, SameFits, Zenon
  <2>8. QED
    BY <2>1, <2>5, <2>6, <2>7, Zenon DEF C, H
<1>3. ASSUME t \notin DOMAIN s.tasks PROVE C = classified[t]
  BY <1>3 DEF IsSnapshot
<1>c. CASE t \in Absent(s) /\ Supersedes(s, t)
  <2>1. t \notin DOMAIN s.tasks /\ row.known /\ ~row.tombstoned
    BY <1>c DEF Absent
  <2>2. Row(s, t) = MarkMissing(s, t)
    BY <1>c, <2>1, Zenon DEF Row
  <2> DEFINE m == MarkMissing(s, t)
  <2>3. m = [row EXCEPT !.missing = TRUE, !.at = s.at, !.by = s.req]
    BY DEF MarkMissing
  <2>4. /\ m \in RowType /\ m.known /\ m.at = s.at /\ m.by = s.req
        /\ m.missing = TRUE /\ m.tombstoned = row.tombstoned
        /\ m.classAt = row.classAt /\ m.classBy = row.classBy
    <3>. HIDE DEF m, row
    <3>1. QED
      BY <1>1, <1>2, <2>1, <2>3 DEF RowType
  <2>5. Says(s, t) = "absent"
    BY <2>1 DEF Says
  <2>6. m.missing = (Says(s, t) = "absent") /\ m.tombstoned = (Says(s, t) = "tombstoned")
    <3>1. row.tombstoned = FALSE
      <4>. HIDE DEF row
      <4>1. QED
        BY <1>1, <2>1 DEF RowType
    <3>2. QED
      BY <2>4, <2>5, <3>1
  <2>7. H = heard[t] \cup {h}
    BY <1>c
  <2>8. snapshotWins(s.at, s.req, row.at, row.by)
    BY <1>c DEF Supersedes
  <2>9. C = classified[t]
    BY <1>3, <2>1
  <2>. HIDE DEF m, row, H, C
  <2>10. StateFits(m, H)
    BY <1>1, <2>4, <2>6, <2>7, <2>8, WrittenFits
  <2>11. ClassFits(m, C)
    BY <1>1, <2>4, <2>9 DEF ClassFits
  <2>12. QED
    BY <2>2, <2>4, <2>10, <2>11 DEF C, H, m
<1>d. CASE t \in Absent(s) /\ ~Supersedes(s, t)
  <2>1. t \notin DOMAIN s.tasks /\ row.known
    BY <1>d DEF Absent
  <2>2. Row(s, t) = row
    BY <1>d, <2>1, Zenon DEF Row
  <2>3. H = heard[t] \cup {h}
    BY <1>d
  <2>4. ~snapshotWins(s.at, s.req, row.at, row.by)
    BY <1>d DEF Supersedes
  <2>5. C = classified[t]
    BY <1>3, <2>1
  <2>. HIDE DEF row, H, C
  <2>6. StateFits(row, H)
    BY <1>1, <2>1, <2>3, <2>4, UnwrittenFits
  <2>7. QED
    BY <1>1, <2>2, <2>5, <2>6, Zenon DEF C, H
<1>e. CASE t \notin DOMAIN s.tasks /\ t \notin Absent(s)
  <2>1. Row(s, t) = row
    BY <1>e, Zenon DEF Row
  <2>2. H = heard[t] /\ C = classified[t]
    BY <1>e, <1>3
  <2>. HIDE DEF row, H, C
  <2>3. QED
    BY <1>1, <2>1, <2>2, Zenon DEF C, H
<1>4. QED
  BY <1>a, <1>b, <1>c, <1>d, <1>e

-----------------------------------------------------------------------------
(* The invariant.                                                          *)

\* The empty index satisfies the invariant.
LEMMA IndexInit == Init => IndexInv
<1> SUFFICES ASSUME Init PROVE IndexInv
  OBVIOUS
<1>1. Unknown \in RowType
  BY DEF Unknown, RowType, Sources
<1>2. Unknown.known = FALSE /\ Unknown.classAt = 0
  BY DEF Unknown
<1>3. index \in [Tasks -> RowType] /\ \A t \in Tasks : index[t] = Unknown /\ heard[t] = {} /\ classified[t] = {}
  BY <1>1 DEF Init
<1>4. \A t \in Tasks : StateFits(index[t], heard[t]) /\ ClassFits(index[t], classified[t])
  BY <1>2, <1>3 DEF StateFits, ClassFits
<1>5. clock \in Nat \ {0}
  BY DEF Init
<1>6. /\ collection = [o \in Observations |-> collection[o]]
      /\ \A o \in Observations : /\ collection[o] \in CollectionType(o)
                                 /\ collection[o].stage = "open" => collection[o].at # 0
  <2>1. \A o \in Observations : NoCollection \in CollectionType(o) /\ NoCollection.stage # "open"
    <3>1. \A o \in Observations : <<>> \in Seq(Pages[o])
      OBVIOUS
    <3>2. QED
      BY <3>1 DEF NoCollection, CollectionType
  <2>2. collection = [o \in Observations |-> NoCollection]
    BY DEF Init
  <2>3. QED
    BY <2>1, <2>2
<1>7. QED
  BY <1>3, <1>4, <1>5, <1>6 DEF IndexInv

\* Ingesting a snapshot keeps the rows.
LEMMA IngestKeepsRows ==
  ASSUME IndexInv, NEW s, IsSnapshot(s), IngestNew(s)
  PROVE  /\ index' \in [Tasks -> RowType]
         /\ \A t \in Tasks : StateFits(index[t], heard[t])' /\ ClassFits(index[t], classified[t])'
<1>1. ASSUME NEW t \in Tasks
      PROVE  /\ index'[t] = Row(s, t)
             /\ heard'[t] = heard[t] \cup
                  IF t \in DOMAIN s.tasks \cup Absent(s)
                  THEN {[at |-> s.at, by |-> s.req, says |-> Says(s, t)]} ELSE {}
             /\ classified'[t] = classified[t] \cup
                  IF t \in s.classifies THEN {[at |-> s.classifiedAt, by |-> s.req]} ELSE {}
  BY <1>1, Zenon DEF IngestNew
<1>2. ASSUME NEW t \in Tasks
      PROVE  index'[t] \in RowType /\ StateFits(index'[t], heard'[t]) /\ ClassFits(index'[t], classified'[t])
  <2>1. /\ Row(s, t) \in RowType
        /\ StateFits(Row(s, t), heard[t] \cup
              IF t \in DOMAIN s.tasks \cup Absent(s)
              THEN {[at |-> s.at, by |-> s.req, says |-> Says(s, t)]} ELSE {})
        /\ ClassFits(Row(s, t), classified[t] \cup
              IF t \in s.classifies THEN {[at |-> s.classifiedAt, by |-> s.req]} ELSE {})
    BY <1>2, RowFits
  <2>2. QED
    BY <1>1, <1>2, <2>1
<1>3. index' = [t \in Tasks |-> Row(s, t)] /\ \A t \in Tasks : Row(s, t) \in RowType
  BY <1>1, <1>2, Zenon DEF IngestNew
<1>4. index' \in [Tasks -> RowType]
  BY <1>3, Zenon
<1>5. ASSUME NEW t \in Tasks
      PROVE  StateFits(index[t], heard[t])' /\ ClassFits(index[t], classified[t])'
  BY <1>2, <1>5, Zenon DEF StateFits, ClassFits
<1>6. QED
  BY <1>4, <1>5

\* One step keeps the invariant.
LEMMA IndexStep == IndexInv /\ [Next]_vars => IndexInv'
<1> SUFFICES ASSUME IndexInv, [Next]_vars PROVE IndexInv'
  OBVIOUS
<1> DEFINE RowsKept == /\ index' \in [Tasks -> RowType]
                       /\ \A t \in Tasks : StateFits(index[t], heard[t])' /\ ClassFits(index[t], classified[t])'
           Typed(c, o) == c \in CollectionType(o) /\ (c.stage = "open" => c.at # 0)
           PagesKept == /\ collection' = [o \in Observations |-> collection'[o]]
                        /\ \A o \in Observations : Typed(collection'[o], o)
<1>1. ASSUME index' = index, heard' = heard, classified' = classified PROVE RowsKept
  BY <1>1 DEF IndexInv, StateFits, ClassFits
<1>2. ASSUME collection' = collection PROVE PagesKept
  BY <1>2 DEF IndexInv
<1>3. ASSUME clock' = clock, RowsKept, PagesKept PROVE IndexInv'
  BY <1>3 DEF IndexInv
<1>4. clock \in Nat \ {0}
  BY DEF IndexInv
<1>5. CASE Tick
  <2>1. RowsKept /\ PagesKept
    BY <1>1, <1>2, <1>5 DEF Tick
  <2>2. clock' \in Nat \ {0}
    BY <1>4, <1>5 DEF Tick
  <2>3. QED
    BY <2>1, <2>2 DEF IndexInv
<1>6. ASSUME NEW d \in Directs, IngestCodexTasks(d) PROVE IndexInv'
  <2>1. IngestNew(d) /\ clock' = clock /\ collection' = collection
    BY <1>6 DEF IngestCodexTasks
  <2>2. RowsKept
    BY <2>1, DirectIsSnapshot, IngestKeepsRows
  <2>3. QED
    BY <1>2, <1>3, <2>1, <2>2
<1>a. /\ collection = [o \in Observations |-> collection[o]]
      /\ \A o \in Observations : Typed(collection[o], o)
  BY DEF IndexInv
<1>b. \A o \in Observations : Typed(NoCollection, o)
  <2>1. \A o \in Observations : <<>> \in Seq(Pages[o])
    OBVIOUS
  <2>2. QED
    BY <2>1 DEF NoCollection, CollectionType
<1>7. ASSUME NEW o \in Observations, NEW p \in Pages[o], AddPage(o, p) PROVE IndexInv'
  <2>1. /\ clock' = clock /\ index' = index /\ heard' = heard /\ classified' = classified
        /\ collection' = [collection EXCEPT ![o].pages = Append(@, p)]
    BY <1>7 DEF AddPage
  <2> DEFINE c == [collection[o] EXCEPT !.pages = Append(@, p)]
  <2>2. Typed(c, o)
    <3>1. collection[o] \in CollectionType(o)
      BY <1>a
    <3>2. collection[o].pages \in Seq(Pages[o])
      BY <3>1 DEF CollectionType
    <3>3. Append(collection[o].pages, p) \in Seq(Pages[o])
      BY <1>7, <3>2, AppendType
    <3>4. QED
      BY <1>a, <3>1, <3>3 DEF CollectionType
  <2>. HIDE DEF Typed
  <2>a. /\ collection' = [q \in Observations |-> collection'[q]] /\ collection'[o] = c
        /\ \A q \in Observations \ {o} : collection'[q] = collection[q]
    BY <1>a, <2>1
  <2>. HIDE DEF c
  <2>3. PagesKept
    BY <1>a, <2>2, <2>a
  <2>4. QED
    BY <1>1, <1>3, <2>1, <2>3
<1>8. ASSUME NEW o \in Observations, NEW p \in Pages[o], NEW at \in 1 .. clock, OpenCollection(o, p, at)
      PROVE  IndexInv'
  <2> DEFINE kept == pruneStaleCodexTaskCollections
             c == [stage |-> "open", at |-> at, received |-> clock, pages |-> <<p>>]
  <2>1. /\ clock' = clock /\ index' = index /\ heard' = heard /\ classified' = classified
        /\ collection' = [kept EXCEPT ![o] = c]
    BY <1>8 DEF OpenCollection
  <2>2. Typed(c, o)
    <3>1. <<p>> \in Seq(Pages[o])
      BY <1>8, SingletonType
    <3>a. at \in Nat /\ at # 0
      BY <1>4, <1>8
    <3>2. QED
      BY <1>4, <3>1, <3>a DEF CollectionType
  <2>. HIDE DEF Typed
  <2>3. /\ kept = [q \in Observations |-> kept[q]]
        /\ \A q \in Observations : Typed(kept[q], q)
    BY <1>a, <1>b DEF pruneStaleCodexTaskCollections
  <2>. HIDE DEF kept, c
  <2>4. PagesKept
    BY <2>1, <2>2, <2>3
  <2>5. QED
    BY <1>1, <1>3, <2>1, <2>4
<1>9. ASSUME NEW o \in Observations, NEW coverage \in Coverages, FinishCodexTaskCollection(o, coverage)
      PROVE  IndexInv'
  <2> DEFINE done == Append(finalized, o)
             gone == {done[i] : i \in 1 .. Len(done) - Len(Retained(done))}
             c == [collection[o] EXCEPT !.stage = coverage]
  <2>1. /\ clock' = clock /\ collection[o].stage = "open"
        /\ IngestNew(Published(o, coverage)) \/ IngestReplay(Published(o, coverage))
    BY <1>9 DEF FinishCodexTaskCollection
  <2>2. collection' = [q \in Observations |->
                         IF q \in gone THEN NoCollection
                         ELSE IF q = o THEN [collection[q] EXCEPT !.stage = coverage]
                         ELSE collection[q]]
    BY <1>9 DEF FinishCodexTaskCollection
  <2>3. Typed(c, o)
    <3>1. collection[o] \in CollectionType(o)
      BY <1>a
    <3>2. coverage # "open"
      BY <1>9 DEF Coverages
    <3>3. QED
      BY <1>9, <3>1, <3>2 DEF CollectionType
  <2>. HIDE DEF Typed, gone
  <2>4. \A q \in Observations : Typed(collection'[q], q)
    BY <1>a, <1>b, <2>2, <2>3
  <2>5. collection' = [q \in Observations |-> collection'[q]]
    BY <2>2
  <2>6. RowsKept
    <3>1. CASE IngestNew(Published(o, coverage))
      BY <2>1, <3>1, PublishedIsSnapshot, IngestKeepsRows
    <3>2. CASE IngestReplay(Published(o, coverage))
      BY <1>1, <3>2 DEF IngestReplay
    <3>3. QED
      BY <2>1, <3>1, <3>2
  <2>7. QED
    BY <1>3, <2>1, <2>4, <2>5, <2>6
<1>10. CASE UNCHANGED vars
  BY <1>1, <1>2, <1>3, <1>10 DEF vars
<1>11. QED
  BY <1>5, <1>6, <1>7, <1>8, <1>9, <1>10 DEF Next

\* In every reachable state the rows of the index fit what was heard of their tasks.
THEOREM IndexInvariance == Spec => []IndexInv
BY IndexInit, IndexStep, PTL DEF Spec

\* The row of a task says what the newest snapshot says that ever spoke of it, and its
\* classification is the newest: in whatever order snapshots arrive, directly or
\* published by collections, once or again after they were forgotten.
THEOREM LatestWinsHolds == Spec => []LatestWins
<1>1. IndexInv => LatestWins
  <2> SUFFICES ASSUME IndexInv, NEW t \in Tasks
               PROVE  /\ index[t].known =>
                           \E h \in heard[t] :
                              /\ h.at = index[t].at /\ h.by = index[t].by
                              /\ index[t].missing = (h.says = "absent")
                              /\ index[t].tombstoned = (h.says = "tombstoned")
                      /\ \A h \in heard[t] : NotNewer(h.at, h.by, index[t].at, index[t].by)
                      /\ \A c \in classified[t] : NotNewer(c.at, c.by, index[t].classAt, index[t].classBy)
    BY Zenon DEF LatestWins, NotNewer
  <2>1. StateFits(index[t], heard[t]) /\ ClassFits(index[t], classified[t])
    BY DEF IndexInv
  <2>2. QED
    BY <2>1, Zenon DEF StateFits, ClassFits
<1>2. QED
  BY <1>1, IndexInvariance, PTL

-----------------------------------------------------------------------------
(* Collections.                                                            *)

\* The cursor of the first page, and what is left of a listing that is exhausted.
NoCursor == ""

\* An unbroken chain whose last cursor leads to no page that is staged.
Chained(pages) ==
  /\ Len(pages) > 0 /\ pages[1].cursor = NoCursor
  /\ \A i \in 1 .. Len(pages) : pages[i].n = i
  /\ \A i \in 2 .. Len(pages) : pages[i].cursor = pages[i - 1].next
  /\ \A i, j \in 1 .. Len(pages) : i # j => /\ pages[i].cursor # pages[j].cursor
                                            /\ DOMAIN pages[i].tasks \cap DOMAIN pages[j].tasks = {}
  /\ pages[Len(pages)].next # NoCursor => \A i \in 1 .. Len(pages) : pages[Len(pages)].next # pages[i].cursor

Whole(c) == c.stage # "none" => Chained(c.pages) /\ (c.stage = "complete" => Last(c.pages).next = NoCursor)

CollectionInv == IndexInv /\ \A o \in Observations : Whole(collection[o])

\* A page that continues the chain.
LEMMA ChainGrows ==
  ASSUME NEW S, NEW pages \in Seq(S), Chained(pages), NEW p \in S,
         p.n = Len(pages) + 1, p.cursor = pages[Len(pages)].next, p.cursor # NoCursor,
         p.next # NoCursor => p.next # p.cursor /\ \A i \in 1 .. Len(pages) : p.next # pages[i].cursor,
         \A i \in 1 .. Len(pages) : DOMAIN p.tasks \cap DOMAIN pages[i].tasks = {}
  PROVE  Chained(Append(pages, p))
<1> DEFINE n == Len(pages)
           longer == Append(pages, p)
<1>a. n \in Nat /\ n > 0
  BY DEF Chained
<1>b. Len(longer) = n + 1 /\ longer[n + 1] = p
  BY <1>a
<1>c. \A i \in 1 .. n : longer[i] = pages[i]
  BY <1>a
<1>1. n \in Nat /\ n > 0 /\ Len(longer) = n + 1 /\ longer[n + 1] = p /\ \A i \in 1 .. n : longer[i] = pages[i]
  BY <1>a, <1>b, <1>c
<1> HIDE DEF longer
<1>2. \A i \in 1 .. n : p.cursor # pages[i].cursor
  BY DEF Chained
<1>3. \A i \in 1 .. n + 1 : longer[i].n = i
  BY <1>1 DEF Chained
<1>4. \A i \in 2 .. n + 1 : longer[i].cursor = longer[i - 1].next
  <2> SUFFICES ASSUME NEW i \in 2 .. n + 1 PROVE longer[i].cursor = longer[i - 1].next
    OBVIOUS
  <2>1. CASE i = n + 1
    BY <1>1, <2>1
  <2>2. CASE i \in 2 .. n
    BY <1>1, <2>2 DEF Chained
  <2>3. QED
    BY <1>1, <2>1, <2>2
<1>5. \A i, j \in 1 .. n + 1 : i # j => /\ longer[i].cursor # longer[j].cursor
                                        /\ DOMAIN longer[i].tasks \cap DOMAIN longer[j].tasks = {}
  <2> SUFFICES ASSUME NEW i \in 1 .. n + 1, NEW j \in 1 .. n + 1, i # j
               PROVE  longer[i].cursor # longer[j].cursor /\ DOMAIN longer[i].tasks \cap DOMAIN longer[j].tasks = {}
    OBVIOUS
  <2>1. CASE i \in 1 .. n /\ j \in 1 .. n
    BY <1>1, <2>1 DEF Chained
  <2>2. CASE i = n + 1 /\ j \in 1 .. n
    BY <1>1, <1>2, <2>2
  <2>3. CASE j = n + 1 /\ i \in 1 .. n
    BY <1>1, <1>2, <2>3
  <2>4. QED
    BY <1>1, <2>1, <2>2, <2>3
<1>6. p.next # NoCursor => \A i \in 1 .. n + 1 : p.next # longer[i].cursor
  BY <1>1
<1>7. longer[1].cursor = NoCursor
  BY <1>1 DEF Chained
<1>8. QED
  BY <1>1, <1>3, <1>4, <1>5, <1>6, <1>7 DEF Chained, longer

\* One step keeps every collection whole.
LEMMA CollectionStep == CollectionInv /\ [Next]_vars => CollectionInv'
<1> SUFFICES ASSUME CollectionInv, [Next]_vars PROVE CollectionInv'
  OBVIOUS
<1>0. IndexInv /\ IndexInv' /\ \A o \in Observations : Whole(collection[o])
  BY IndexStep DEF CollectionInv
<1>1. Whole(NoCollection)
  BY DEF Whole, NoCollection
<1>2. CASE UNCHANGED collection
  BY <1>0, <1>2 DEF CollectionInv
<1>3. ASSUME NEW o \in Observations, NEW p \in Pages[o], AddPage(o, p) PROVE CollectionInv'
  <2>1. collection' = [collection EXCEPT ![o].pages = Append(@, p)]
    BY <1>3 DEF AddPage
  <2>2. collection[o] \in CollectionType(o) /\ DOMAIN collection = Observations
    BY <1>0 DEF IndexInv
  <2> DEFINE pages == collection[o].pages
  <2>3. pages \in Seq(Pages[o]) /\ collection[o].stage = "open"
    BY <1>3, <2>2 DEF CollectionType, AddPage
  <2>4. Chained(pages)
    BY <1>0, <2>3 DEF Whole
  <2>5. \A i \in 1 .. Len(pages) : pages[i] \in Staged(o)
    BY <2>3 DEF Staged
  <2>6. \A i \in 1 .. Len(pages) : DOMAIN pages[i].tasks \subseteq StagedTasks(o)
    BY <2>5 DEF StagedTasks
  <2>7. /\ p.n = Len(pages) + 1 /\ p.cursor = pages[Len(pages)].next /\ p.cursor # NoCursor
        /\ p.next # NoCursor => p.next # p.cursor /\ \A q \in Staged(o) : p.next # q.cursor
        /\ DOMAIN p.tasks \cap StagedTasks(o) = {}
    BY <1>3, Zenon DEF AddPage, Last, FreshCursor, FreshTasks, NoCursor
  <2>8. \A i \in 1 .. Len(pages) : DOMAIN p.tasks \cap DOMAIN pages[i].tasks = {}
    BY <2>6, <2>7
  <2>9. Chained(Append(pages, p))
    BY <1>3, <2>3, <2>4, <2>5, <2>7, <2>8, ChainGrows
  <2>10. collection'[o].pages = Append(pages, p) /\ collection'[o].stage = "open"
    BY <2>1, <2>2, <2>3 DEF CollectionType
  <2>11. \A q \in Observations \ {o} : collection'[q] = collection[q]
    BY <2>1, <2>2
  <2>12. QED
    BY <1>0, <2>9, <2>10, <2>11 DEF CollectionInv, Whole
<1>4. ASSUME NEW o \in Observations, NEW p \in Pages[o], NEW at \in 1 .. clock, OpenCollection(o, p, at)
      PROVE  CollectionInv'
  <2> DEFINE kept == pruneStaleCodexTaskCollections
             c == [stage |-> "open", at |-> at, received |-> clock, pages |-> <<p>>]
  <2>1. collection' = [kept EXCEPT ![o] = c] /\ p.n = 1 /\ p.cursor = NoCursor
    BY <1>4, Zenon DEF OpenCollection, NoCursor
  <2>2. DOMAIN kept = Observations /\ \A q \in Observations : Whole(kept[q])
    BY <1>0, <1>1 DEF pruneStaleCodexTaskCollections
  <2>3. Chained(<<p>>)
    <3>1. Len(<<p>>) = 1 /\ <<p>>[1] = p
      OBVIOUS
    <3>2. 2 .. 1 = {}
      OBVIOUS
    <3>3. \A i \in 1 .. 1 : i = 1
      OBVIOUS
    <3>4. QED
      BY <2>1, <3>1, <3>2, <3>3 DEF Chained
  <2>4. Whole(c)
    BY <2>3 DEF Whole
  <2> HIDE DEF kept, c
  <2>5. \A q \in Observations : Whole(collection'[q])
    BY <2>1, <2>2, <2>4
  <2>6. QED
    BY <1>0, <2>5 DEF CollectionInv
<1>5. ASSUME NEW o \in Observations, NEW coverage \in Coverages, FinishCodexTaskCollection(o, coverage)
      PROVE  CollectionInv'
  <2> DEFINE c == [collection[o] EXCEPT !.stage = coverage]
  <2>1. \A q \in Observations : collection'[q] \in {NoCollection, collection[q]} \/ (q = o /\ collection'[q] = c)
    BY <1>5 DEF FinishCodexTaskCollection
  <2>2. collection[o].stage = "open" /\ (coverage = "complete" => Last(collection[o].pages).next = NoCursor)
    BY <1>5, Zenon DEF FinishCodexTaskCollection, Exhausted, NoCursor
  <2>3. collection[o] \in CollectionType(o)
    BY <1>0 DEF IndexInv
  <2>4. c.pages = collection[o].pages /\ c.stage = coverage
    BY <2>3 DEF CollectionType
  <2>5. Whole(c)
    BY <1>0, <2>2, <2>4 DEF Whole
  <2> HIDE DEF c
  <2>6. \A q \in Observations : Whole(collection'[q])
    BY <1>0, <1>1, <2>1, <2>5
  <2>7. QED
    BY <1>0, <2>6 DEF CollectionInv
<1>6. QED
  BY <1>2, <1>3, <1>4, <1>5 DEF Next, Tick, IngestCodexTasks, vars

\* Collections stay typed and whole.
THEOREM CollectionInvariance == Spec => []CollectionInv
<1>1. Init => CollectionInv
  <2> SUFFICES ASSUME Init PROVE CollectionInv
    OBVIOUS
  <2>1. \A o \in Observations : collection[o] = NoCollection
    BY DEF Init
  <2>2. Whole(NoCollection)
    BY DEF Whole, NoCollection
  <2>3. QED
    BY <2>1, <2>2, IndexInit DEF CollectionInv
<1>2. QED
  BY <1>1, CollectionStep, PTL DEF Spec

\* A collection is an unbroken chain of pages from the start of the listing, no thread is
\* on two of them, and one published as complete reached the end, so that nothing is marked
\* missing because a page was lost (AddCodexTaskCollectionPage, FinishCodexTaskCollection).
THEOREM StagedWholeHolds == Spec => []StagedWhole
<1>1. CollectionInv => StagedWhole
  <2> SUFFICES ASSUME CollectionInv, NEW o \in Observations, collection[o].stage # "none"
               PROVE  LET pages == collection[o].pages IN
                      /\ pages # <<>> /\ pages[1].cursor = ""
                      /\ \A i \in DOMAIN pages : pages[i].n = i
                      /\ \A i \in 2 .. Len(pages) : pages[i].cursor = pages[i - 1].next
                      /\ \A i, j \in DOMAIN pages : i # j => /\ pages[i].cursor # pages[j].cursor
                                                             /\ DOMAIN pages[i].tasks \cap DOMAIN pages[j].tasks = {}
                      /\ collection[o].stage = "complete" => Last(pages).next = ""
    BY Zenon DEF StagedWhole
  <2>1. collection[o].pages \in Seq(Pages[o])
    BY DEF CollectionInv, IndexInv, CollectionType
  <2>2. Chained(collection[o].pages) /\ (collection[o].stage = "complete" => Last(collection[o].pages).next = NoCursor)
    BY DEF CollectionInv, Whole
  <2>3. DOMAIN collection[o].pages = 1 .. Len(collection[o].pages) /\ collection[o].pages # <<>>
    BY <2>1, <2>2 DEF Chained
  <2>4. QED
    BY <2>2, <2>3, Zenon DEF Chained, NoCursor
<1>2. QED
  BY <1>1, CollectionInvariance, PTL

-----------------------------------------------------------------------------
(* The snapshots that are remembered.                                      *)

Ingestible ==
  Directs \cup [req : Observations, at : Nat, coverage : Coverages, source : {Source}, tasks : Listings,
                classifies : {{}}, classifiedAt : Nat]

\* The newest snapshots are remembered, as many as the cap allows.
Recent(kept, all) ==
  /\ kept \in Seq(Ingestible) /\ all \in Seq(Ingestible)
  /\ Len(kept) <= Len(all) /\ (Len(kept) = IngestCap \/ Len(kept) = Len(all))
  /\ \A i \in 1 .. Len(kept) : kept[i] = all[Len(all) - Len(kept) + i]

ReplayInv == IndexInv /\ Recent(ingests, applied) /\ OneSnapshotPerRequest

\* What the pages of an open collection say together is one of them.
LEMMA PublishedSnapshot ==
  ASSUME IndexInv, NEW o \in Observations, collection[o].stage = "open", NEW coverage \in Coverages
  PROVE  Published(o, coverage) \in Ingestible
<1> DEFINE s == Published(o, coverage)
<1>1. /\ s = [req |-> o, at |-> collection[o].at, coverage |-> coverage, source |-> Source, tasks |-> s.tasks,
              classifies |-> {}, classifiedAt |-> collection[o].at]
      /\ s.tasks = [t \in StagedTasks(o) |-> s.tasks[t]]
  BY DEF Published
<1>2. IsSnapshot(s)
  BY PublishedIsSnapshot
<1>3. collection[o].at \in Nat
  BY DEF IndexInv, CollectionType
<1> HIDE DEF s
<1>4. StagedTasks(o) \subseteq Tasks /\ \A t \in StagedTasks(o) : s.tasks[t] \in {"live", "tombstoned"}
  <2>1. DOMAIN s.tasks = StagedTasks(o)
    BY <1>1
  <2>2. QED
    BY <1>2, <2>1 DEF IsSnapshot
<1>5. s.tasks \in [StagedTasks(o) -> {"live", "tombstoned"}]
  BY <1>1, <1>4
<1>6. s.tasks \in Listings
  BY <1>4, <1>5 DEF Listings
<1>7. s \in Ingestible
  BY <1>1, <1>3, <1>6 DEF Ingestible
<1>8. QED
  BY <1>7 DEF s

\* Pruning after an append leaves the newest.
LEMMA RecentGrows ==
  ASSUME NEW kept, NEW all, Recent(kept, all), NEW s \in Ingestible
  PROVE  Recent(pruneCodexTaskIngestReplays(Append(kept, s)), Append(all, s))
<1> DEFINE q == Append(kept, s)
           next == Append(all, s)
           from == IF Len(q) > IngestCap THEN Len(q) - IngestCap + 1 ELSE 1
           p == SubSeq(q, from, Len(q))
<1>a. IngestCap \in Nat
  BY IndexAssumption, Zenon DEF IndexAssumption
<1>1. kept \in Seq(Ingestible) /\ all \in Seq(Ingestible) /\ Len(kept) \in Nat /\ Len(all) \in Nat
  BY DEF Recent
<1>2. /\ q \in Seq(Ingestible) /\ Len(q) = Len(kept) + 1 /\ q[Len(q)] = s
      /\ \A i \in 1 .. Len(kept) : q[i] = kept[i]
  BY <1>1
<1>3. /\ next \in Seq(Ingestible) /\ Len(next) = Len(all) + 1
      /\ next[Len(all) + 1] = s /\ \A i \in 1 .. Len(all) : next[i] = all[i]
  BY <1>1
<1> HIDE DEF q, next
<1>4. /\ from \in Int /\ from >= 1 /\ from <= Len(q) + 1
      /\ Len(q) > IngestCap => from = Len(q) - IngestCap + 1
      /\ Len(q) <= IngestCap => from = 1
  BY <1>a, <1>1, <1>2
<1>5. \A i \in from .. Len(q) : q[i] \in Ingestible
  BY <1>1, <1>2, <1>4
<1>6. /\ p \in Seq(Ingestible) /\ Len(p) = IF from <= Len(q) THEN Len(q) - from + 1 ELSE 0
      /\ \A i \in 1 .. Len(q) - from + 1 : p[i] = q[from + i - 1]
  BY <1>1, <1>2, <1>4, <1>5, SubSeqProperties
<1>7. p = pruneCodexTaskIngestReplays(q)
  BY DEF pruneCodexTaskIngestReplays, Newest
<1> HIDE DEF p, from
<1>b. Len(q) \in Nat /\ Len(p) \in Nat
  BY <1>1, <1>2, <1>6
<1>8. Len(p) = Len(q) - from + 1
  BY <1>b, <1>4, <1>6
<1>9. /\ Len(kept) <= Len(all) /\ (Len(kept) = IngestCap \/ Len(kept) = Len(all))
      /\ \A i \in 1 .. Len(kept) : kept[i] = all[Len(all) - Len(kept) + i]
  BY DEF Recent
<1>10. Len(p) <= Len(all) + 1 /\ (Len(p) = IngestCap \/ Len(p) = Len(all) + 1)
  BY <1>a, <1>b, <1>1, <1>2, <1>4, <1>8, <1>9
<1>11. ASSUME NEW i \in 1 .. Len(p) PROVE p[i] = next[Len(all) + 1 - Len(p) + i]
  <2> DEFINE j == from + i - 1
  <2>1. j \in 1 .. Len(q) /\ p[i] = q[j] /\ Len(all) + 1 - Len(p) + i = Len(all) - Len(kept) + j
    <3>1. j \in 1 .. Len(q) /\ i \in 1 .. Len(q) - from + 1
      BY <1>b, <1>4, <1>8, <1>11
    <3>2. p[i] = q[j]
      BY <1>6, <3>1
    <3>3. Len(all) + 1 - Len(p) + i = Len(all) - Len(kept) + j
      BY <1>b, <1>1, <1>2, <1>4, <1>8, <1>11
    <3>4. QED
      BY <3>1, <3>2, <3>3
  <2> HIDE DEF j
  <2>2. CASE j = Len(q)
    <3>1. Len(all) - Len(kept) + j = Len(all) + 1
      BY <1>b, <1>1, <1>2, <2>2
    <3>2. QED
      BY <1>2, <1>3, <2>1, <2>2, <3>1
  <2>3. CASE j # Len(q)
    <3>1. j \in 1 .. Len(kept) /\ Len(all) - Len(kept) + j \in 1 .. Len(all)
      BY <1>1, <1>2, <1>9, <2>1, <2>3
    <3>2. QED
      BY <1>2, <1>3, <1>9, <2>1, <3>1
  <2>4. QED
    BY <2>2, <2>3
<1>12. Recent(p, next)
  <2>1. \A i \in 1 .. Len(p) : p[i] = next[Len(next) - Len(p) + i]
    <3>1. Len(next) = Len(all) + 1
      BY <1>3
    <3>2. QED
      BY <1>11, <3>1
  <2>2. QED
    BY <1>3, <1>6, <1>10, <2>1 DEF Recent
<1>13. QED
  BY <1>7, <1>12 DEF q, next

\* A snapshot whose request is not remembered is far from any other of that request.
LEMMA IngestKeepsReplays ==
  ASSUME ReplayInv, NEW s \in Ingestible, IngestNew(s)
  PROVE  Recent(ingests, applied)' /\ OneSnapshotPerRequest'
<1>1. /\ Remembered(s.req) = {} /\ applied' = Append(applied, s)
      /\ ingests' = pruneCodexTaskIngestReplays(Append(ingests, s))
  BY DEF IngestNew
<1>2. Recent(ingests, applied)
  BY DEF ReplayInv
<1>3. Recent(ingests, applied)'
  <2>1. Recent(pruneCodexTaskIngestReplays(Append(ingests, s)), Append(applied, s))
    BY <1>2, RecentGrows
  <2>2. Recent(ingests', applied')
    BY <1>1, <2>1
  <2>3. QED
    BY <2>2 DEF Recent
<1>4. /\ applied \in Seq(Ingestible) /\ ingests \in Seq(Ingestible) /\ Len(applied) \in Nat /\ Len(ingests) \in Nat
      /\ Len(ingests) <= Len(applied) /\ (Len(ingests) = IngestCap \/ Len(ingests) = Len(applied))
      /\ \A i \in 1 .. Len(ingests) : ingests[i] = applied[Len(applied) - Len(ingests) + i]
  BY <1>2 DEF Recent
<1>a. IngestCap \in Nat
  BY IndexAssumption, Zenon DEF IndexAssumption
<1>5. /\ DOMAIN applied' = 1 .. Len(applied) + 1 /\ applied'[Len(applied) + 1] = s
      /\ \A i \in 1 .. Len(applied) : applied'[i] = applied[i]
  BY <1>1, <1>4
<1>6. \A i \in 1 .. Len(ingests) : ingests[i].req # s.req
  BY <1>1, <1>4 DEF Remembered
<1>7. ASSUME NEW i \in 1 .. Len(applied), applied[i].req = s.req PROVE Len(applied) + 1 - i > IngestCap
  <2>1. CASE i > Len(applied) - Len(ingests)
    <3> DEFINE j == i - (Len(applied) - Len(ingests))
    <3>1. j \in 1 .. Len(ingests) /\ Len(applied) - Len(ingests) + j = i
      BY <1>4, <1>7, <2>1
    <3> HIDE DEF j
    <3>2. QED
      BY <1>4, <1>6, <1>7, <3>1
  <2>2. CASE i <= Len(applied) - Len(ingests)
    BY <1>a, <1>4, <1>7, <2>2
  <2>3. QED
    BY <1>4, <2>1, <2>2
<1>8. \A i, j \in 1 .. Len(applied) : i < j /\ applied[i].req = applied[j].req => j - i > IngestCap
  <2>1. DOMAIN applied = 1 .. Len(applied)
    BY <1>4
  <2>2. QED
    BY <2>1, Zenon DEF ReplayInv, OneSnapshotPerRequest
<1>9. OneSnapshotPerRequest'
  <2> SUFFICES ASSUME NEW i \in 1 .. Len(applied) + 1, NEW j \in 1 .. Len(applied) + 1, i < j,
                      applied'[i].req = applied'[j].req
               PROVE  j - i > IngestCap
    BY <1>5 DEF OneSnapshotPerRequest
  <2>1. i \in 1 .. Len(applied) /\ applied'[i] = applied[i]
    BY <1>4, <1>5
  <2>2. CASE j = Len(applied) + 1
    BY <1>5, <1>7, <2>1, <2>2
  <2>3. CASE j # Len(applied) + 1
    <3>1. j \in 1 .. Len(applied)
      <4>1. Len(applied) \in Nat
        BY <1>4
      <4>2. QED
        BY <2>3, <4>1
    <3>2. QED
      BY <1>5, <1>8, <2>1, <3>1
  <2>4. QED
    BY <2>2, <2>3
<1>10. QED
  BY <1>3, <1>9

LEMMA ReplayStep == ReplayInv /\ [Next]_vars => ReplayInv'
<1> SUFFICES ASSUME ReplayInv, [Next]_vars PROVE ReplayInv'
  OBVIOUS
<1>1. IndexInv /\ IndexInv'
  BY IndexStep DEF ReplayInv
<1>2. CASE ingests' = ingests /\ applied' = applied
  BY <1>1, <1>2 DEF ReplayInv, Recent, OneSnapshotPerRequest
<1>3. ASSUME NEW d \in Directs, IngestCodexTasks(d) PROVE ReplayInv'
  <2>1. d \in Ingestible /\ IngestNew(d)
    BY <1>3 DEF Ingestible, IngestCodexTasks
  <2>2. QED
    BY <1>1, <2>1, IngestKeepsReplays DEF ReplayInv
<1>4. ASSUME NEW o \in Observations, NEW coverage \in Coverages, FinishCodexTaskCollection(o, coverage) PROVE ReplayInv'
  <2>1. collection[o].stage = "open" /\ (IngestNew(Published(o, coverage)) \/ IngestReplay(Published(o, coverage)))
    BY <1>4 DEF FinishCodexTaskCollection
  <2>2. CASE IngestNew(Published(o, coverage))
    <3>1. Published(o, coverage) \in Ingestible
      BY <1>1, <2>1, PublishedSnapshot
    <3>2. QED
      BY <1>1, <2>2, <3>1, IngestKeepsReplays DEF ReplayInv
  <2>3. CASE IngestReplay(Published(o, coverage))
    BY <1>2, <2>3 DEF IngestReplay
  <2>4. QED
    BY <2>1, <2>2, <2>3
<1>5. CASE Tick \/ \E o \in Observations : \E p \in Pages[o] : AddPage(o, p) \/ \E at \in 1 .. clock : OpenCollection(o, p, at)
  <2>1. Tick => ingests' = ingests /\ applied' = applied
    BY DEF Tick
  <2>2. ASSUME NEW o, NEW p, AddPage(o, p) PROVE ingests' = ingests /\ applied' = applied
    BY <2>2, Zenon DEF AddPage
  <2>3. ASSUME NEW o, NEW p, NEW at, OpenCollection(o, p, at) PROVE ingests' = ingests /\ applied' = applied
    BY <2>3, Zenon DEF OpenCollection
  <2>4. QED
    BY <1>2, <1>5, <2>1, <2>2, <2>3
<1>6. CASE UNCHANGED vars
  BY <1>2, <1>6 DEF vars
<1>7. QED
  BY <1>3, <1>4, <1>5, <1>6 DEF Next

\* The invariant of what is remembered of snapshots.
THEOREM ReplayInvariance == Spec => []ReplayInv
<1>1. Init => ReplayInv
  <2> SUFFICES ASSUME Init PROVE ReplayInv
    OBVIOUS
  <2>1. ingests = <<>> /\ applied = <<>>
    BY DEF Init
  <2>2. Recent(<<>>, <<>>)
    BY DEF Recent
  <2>3. OneSnapshotPerRequest
    BY <2>1 DEF OneSnapshotPerRequest
  <2>4. QED
    BY <2>1, <2>2, <2>3, IndexInit DEF ReplayInv
<1>2. QED
  BY <1>1, ReplayStep, PTL DEF Spec

\* A request ID is used for a second snapshot only after IngestCap others, also for an
\* observation that was finalized, forgotten and collected again (ingestCodexTasksLocked and
\* pruneCodexTaskIngestReplays).
THEOREM OneSnapshotPerRequestHolds == Spec => []OneSnapshotPerRequest
<1>1. ReplayInv => OneSnapshotPerRequest
  BY DEF ReplayInv
<1>2. QED
  BY <1>1, ReplayInvariance, PTL

-----------------------------------------------------------------------------
(* Worker pairs.                                                           *)

Everyone == Calls \cup Starts
Stored == [status : {"idle"}, request : SUBSET Requests, prompt : Prompts, updatedAt : Nat, later : Nat]

PairTypes ==
  /\ now \in Nat
  /\ worker \in [D!Ids -> Stored \cup {D!Absent}]
  /\ pc \in [Everyone -> {"idle", "saving", "done", "refused", "dead"}]
  /\ request \in [Calls -> Requests] /\ prompt \in [Calls -> Prompts]
  /\ began \in [Everyone -> Nat] /\ ended \in [Calls -> Nat] /\ DOMAIN answer = Calls

\* A call stores its two workers together, and only when it is done.
Pairs ==
  \A c \in Calls : /\ D!Saved(<<c, "implementer">>) <=> D!Saved(<<c, "validator">>)
                   /\ D!Saved(<<c, "implementer">>) => pc[c] = "done"
                   /\ \A role \in D!Roles : D!Saved(<<c, role>>) => worker[<<c, role>>].request = {request[c]}

\* A call that found no pair.
Past(c) == pc[c] = "saving" \/ D!Saved(<<c, "implementer">>)

\* It read the clock before, and what was there then has left a log since or before.
ListedBefore ==
  \A c \in Calls : Past(c) =>
    /\ began[c] < now
    /\ \A d \in Calls : ( /\ c # d /\ request[c] = request[d] /\ D!Saved(<<d, "implementer">>)
                          /\ ended[d] <= began[c] ) => D!Forgotten(d)

PairInv == PairTypes /\ Pairs /\ ListedBefore

\* The invariant says what the property says.
LEMMA PairInvSays == PairInv => SerialReplay
<1> SUFFICES ASSUME PairInv, NEW c \in Calls, NEW d \in Calls, c # d, request[c] = request[d],
                    D!Saved(<<c, "implementer">>), D!Saved(<<d, "implementer">>)
             PROVE  D!InFlightTogether(c, d) \/ D!Forgotten(c) \/ D!Forgotten(d)
  BY DEF SerialReplay, D!SerialReplay
<1>1. began[c] \in Nat /\ began[d] \in Nat /\ ended[c] \in Nat /\ ended[d] \in Nat
  BY DEF PairInv, PairTypes, Everyone
<1>2. Past(c) /\ Past(d)
  BY DEF Past
<1>3. ended[d] <= began[c] => D!Forgotten(d)
  BY <1>2 DEF PairInv, ListedBefore
<1>4. ended[c] <= began[d] => D!Forgotten(c)
  BY <1>2 DEF PairInv, ListedBefore
<1>5. QED
  BY <1>1, <1>3, <1>4 DEF D!InFlightTogether

\* What the types say of a stored worker and of its place.
LEMMA StoredWorker ==
  ASSUME PairInv, NEW c \in Everyone, NEW role \in D!Roles
  PROVE  /\ <<c, role>> \in D!Ids
         /\ D!Saved(<<c, role>>) => worker[<<c, role>>] \in Stored /\ worker[<<c, role>>].later \in Nat
<1>1. <<c, role>> \in D!Ids
  BY DEF D!Ids, Everyone
<1>2. worker[<<c, role>>] \in Stored \cup {D!Absent}
  BY <1>1 DEF PairInv, PairTypes
<1>3. QED
  BY <1>1, <1>2 DEF D!Saved, D!Absent, Stored

\* Both workers of a call are stored when one is.
LEMMA BothStored ==
  ASSUME PairInv, NEW c \in Calls, D!Saved(<<c, "implementer">>), NEW role \in D!Roles
  PROVE  D!Saved(<<c, role>>) /\ worker[<<c, role>>].request = {request[c]} /\ pc[c] = "done"
  BY DEF PairInv, Pairs, D!Roles

\* Steps that leave the calls alone but for their end, and shorten no log.
LEMMA PairFrame ==
  ASSUME PairInv, PairTypes', UNCHANGED <<request, ended>>, now' >= now,
         \A c \in Calls : began'[c] = began[c] /\ (pc'[c] = pc[c] \/ (pc[c] = "saving" /\ pc'[c] = "dead")),
         \A c \in Calls, role \in D!Roles :
            /\ D!Saved(<<c, role>>)' <=> D!Saved(<<c, role>>)
            /\ D!Saved(<<c, role>>) => /\ worker'[<<c, role>>].request = worker[<<c, role>>].request
                                       /\ worker'[<<c, role>>].later >= worker[<<c, role>>].later
                                       /\ worker'[<<c, role>>].later \in Nat
  PROVE  PairInv'
<1>0. EventCap \in Nat
  BY PairsAssumption DEF D!DispatchAssumption
<1>1. Pairs'
  <2>1. \A c \in Calls : D!Saved(<<c, "implementer">>)' => pc'[c] = "done"
    BY BothStored DEF D!Roles
  <2>2. QED
    BY <2>1 DEF PairInv, Pairs, D!Roles
<1>2. ASSUME NEW d \in Calls, D!Saved(<<d, "implementer">>), D!Forgotten(d) PROVE D!Forgotten(d)'
  <2>1. PICK role \in D!Roles : worker[<<d, role>>].later >= EventCap
    BY <1>2 DEF D!Forgotten
  <2>2. D!Saved(<<d, role>>)
    BY <1>2, BothStored
  <2>3. worker[<<d, role>>].later \in Nat
    BY <2>2, StoredWorker DEF Everyone
  <2>4. worker'[<<d, role>>].later >= EventCap
    BY <1>0, <2>1, <2>2, <2>3
  <2>5. QED
    BY <2>4 DEF D!Forgotten
<1>3. ASSUME NEW c \in Calls, Past(c)'
      PROVE  /\ began'[c] < now'
             /\ \A d \in Calls : ( /\ c # d /\ request'[c] = request'[d] /\ D!Saved(<<d, "implementer">>)'
                                   /\ ended'[d] <= began'[c] ) => D!Forgotten(d)'
  <2>1. Past(c)
    BY <1>3 DEF Past, D!Roles
  <2>2. began[c] < now /\ now \in Nat /\ now' \in Nat /\ began[c] \in Nat
    BY <2>1 DEF PairInv, ListedBefore, PairTypes, Everyone
  <2>3. \A d \in Calls : ( /\ c # d /\ request[c] = request[d] /\ D!Saved(<<d, "implementer">>)
                           /\ ended[d] <= began[c] ) => D!Forgotten(d)
    BY <2>1 DEF PairInv, ListedBefore
  <2>4. \A d \in Calls : D!Saved(<<d, "implementer">>)' <=> D!Saved(<<d, "implementer">>)
    BY DEF D!Roles
  <2>5. began'[c] = began[c] /\ request' = request /\ ended' = ended
    OBVIOUS
  <2>6. began'[c] < now'
    BY <2>2, <2>5
  <2>7. ASSUME NEW d \in Calls, c # d, request'[c] = request'[d], D!Saved(<<d, "implementer">>)',
               ended'[d] <= began'[c]
        PROVE  D!Forgotten(d)'
    BY <1>2, <2>3, <2>4, <2>5, <2>7
  <2>8. QED
    BY <2>6, <2>7
<1>4. ListedBefore'
  BY <1>3 DEF ListedBefore
<1>5. QED
  BY <1>1, <1>4 DEF PairInv

\* Listing the workers: a call that finds no pair knows that every pair made before for its
\* request has left a log.
LEMMA ListWorkersKeeps ==
  ASSUME PairInv, NEW c \in Calls, D!ListWorkers(c)
  PROVE  PairInv'
<1>0. /\ pc[c] = "idle" /\ now' = now + 1 /\ began' = [began EXCEPT ![c] = now]
      /\ UNCHANGED <<worker, request, prompt>> /\ c \in Everyone
  BY DEF D!ListWorkers, Everyone
<1>1. now \in Nat /\ EventCap \in Nat /\ ~D!Saved(<<c, "implementer">>)
  BY <1>0, PairsAssumption, BothStored DEF PairInv, PairTypes, D!DispatchAssumption, D!Roles
<1>2. PICK x \in {"saving", "done", "refused"} : pc' = [pc EXCEPT ![c] = x]
  BY DEF D!ListWorkers
<1>3. pc'[c] = x /\ \A d \in Calls : d # c => pc'[d] = pc[d] /\ began'[d] = began[d]
  BY <1>0, <1>2 DEF PairInv, PairTypes, Everyone
<1>4. began'[c] = now
  BY <1>0 DEF PairInv, PairTypes
<1>5. \A w \in D!Ids : D!Saved(w)' <=> D!Saved(w)
  BY <1>0 DEF D!Saved
<1>a. \A d \in Calls, role \in D!Roles : D!Saved(<<d, role>>)' <=> D!Saved(<<d, role>>)
  BY <1>0 DEF D!Saved
<1>6. \A d \in Calls : d # c => ended'[d] = ended[d]
  BY DEF D!ListWorkers, PairInv, PairTypes
<1>7. PairTypes'
  <2>1. ended' \in [Calls -> Nat] /\ DOMAIN answer' = Calls
    BY <1>1 DEF D!ListWorkers, PairInv, PairTypes
  <2>2. QED
    BY <1>0, <1>1, <1>2, <2>1 DEF PairInv, PairTypes
<1>8. Pairs'
  <2>0. "implementer" \in D!Roles
    BY DEF D!Roles
  <2>1. ASSUME NEW d \in Calls, D!Saved(<<d, "implementer">>) PROVE pc'[d] = "done"
    <3>1. d # c
      BY <1>1, <2>1
    <3>2. pc[d] = "done"
      BY <2>0, <2>1, BothStored
    <3>3. QED
      BY <1>3, <3>1, <3>2
  <2>2. QED
    BY <1>0, <1>a, <2>1 DEF PairInv, Pairs, D!Roles
<1>9. \A d \in Calls : D!Forgotten(d)' <=> D!Forgotten(d)
  BY <1>0 DEF D!Forgotten
<1>10. ASSUME NEW e \in Calls, Past(e)'
       PROVE  /\ began'[e] < now'
              /\ \A d \in Calls : ( /\ e # d /\ request'[e] = request'[d] /\ D!Saved(<<d, "implementer">>)'
                                    /\ ended'[d] <= began'[e] ) => D!Forgotten(d)'
  <2>1. CASE e # c
    <3>1. Past(e)
      BY <1>3, <1>10, <1>a, <2>1 DEF Past, D!Roles
    <3>2. /\ began[e] < now /\ began[e] \in Nat
          /\ \A d \in Calls : ( /\ e # d /\ request[e] = request[d] /\ D!Saved(<<d, "implementer">>)
                                /\ ended[d] <= began[e] ) => D!Forgotten(d)
      BY <3>1 DEF PairInv, ListedBefore, PairTypes, Everyone
    <3>3. \A d \in Calls : D!Saved(<<d, "implementer">>)' => D!Saved(<<d, "implementer">>) /\ d # c
      BY <1>1, <1>a DEF D!Roles
    <3>4. QED
      BY <1>0, <1>1, <1>3, <1>6, <1>9, <2>1, <3>2, <3>3
  <2>2. CASE e = c
    <3>1. x = "saving"
      BY <1>1, <1>3, <1>10, <1>a, <2>2 DEF Past, D!Roles
    <3>2. ~D!Found(request[c])
      BY <1>0, <1>2, <1>3, <3>1 DEF D!ListWorkers, PairInv, PairTypes
    <3>3. PICK role \in D!Roles : D!Matching(request[c], role) = {}
      BY <3>2 DEF D!Found
    <3>4. ASSUME NEW d \in Calls, request[d] = request[c], D!Saved(<<d, "implementer">>) PROVE D!Forgotten(d)
      <4>1. D!Saved(<<d, role>>) /\ worker[<<d, role>>].request = {request[c]}
        BY <3>4, BothStored
      <4>2. <<d, role>> \in D!Ids /\ worker[<<d, role>>].later \in Nat
        BY <4>1, StoredWorker DEF Everyone
      <4>3. ~D!hasDispatchRequest(<<d, role>>, request[c])
        BY <3>3, <4>2 DEF D!Matching
      <4>4. worker[<<d, role>>].later >= EventCap
        BY <1>1, <4>1, <4>2, <4>3 DEF D!hasDispatchRequest
      <4>5. QED
        BY <4>4 DEF D!Forgotten
    <3>5. began'[e] < now'
      BY <1>0, <1>1, <1>4, <2>2
    <3>6. QED
      BY <1>0, <1>9, <1>a, <2>2, <3>4, <3>5 DEF D!Roles
  <2>3. QED
    BY <2>1, <2>2
<1>11. ListedBefore'
  BY <1>10 DEF ListedBefore
<1>12. QED
  BY <1>7, <1>8, <1>11 DEF PairInv

\* Saving a pair: whoever listed before ended before, and so was in flight together.
LEMMA SaveWorkersKeeps ==
  ASSUME PairInv, NEW c \in Calls, D!SaveWorkers(c)
  PROVE  PairInv'
<1> DEFINE i == <<c, "implementer">>
           v == <<c, "validator">>
           new == D!newWorker({request[c]}, prompt[c], began[c])
<1>0. /\ pc[c] = "saving" /\ pc' = [pc EXCEPT ![c] = "done"] /\ ended' = [ended EXCEPT ![c] = now]
      /\ UNCHANGED <<now, request, prompt, began>> /\ DOMAIN answer' = Calls
      /\ worker' = [w \in D!Ids |-> IF w \in {i, v} THEN new ELSE worker[w]]
  BY DEF D!SaveWorkers, PairInv, PairTypes
<1>1. i \in D!Ids /\ v \in D!Ids /\ D!Roles = {"implementer", "validator"}
  BY DEF D!Ids, D!Roles
<1>2. new \in Stored /\ new.status = "idle" /\ new.request = {request[c]} /\ new.later = 0
  BY DEF D!newWorker, Stored, PairInv, PairTypes, Everyone
<1> HIDE DEF new
<1>3. worker'[i] = new /\ worker'[v] = new /\ D!Saved(i)' /\ D!Saved(v)'
  BY <1>0, <1>1, <1>2 DEF D!Saved
<1>4. \A d \in Calls, role \in D!Roles : d # c => worker'[<<d, role>>] = worker[<<d, role>>]
                                               /\ (D!Saved(<<d, role>>)' <=> D!Saved(<<d, role>>))
  <2> SUFFICES ASSUME NEW d \in Calls, NEW role \in D!Roles, d # c
               PROVE  worker'[<<d, role>>] = worker[<<d, role>>]
    BY DEF D!Saved
  <2>1. <<d, role>> \in D!Ids /\ <<d, role>> \notin {i, v}
    BY DEF D!Ids
  <2>2. QED
    BY <1>0, <2>1
<1>5. pc'[c] = "done" /\ ended'[c] = now /\ \A d \in Calls : d # c => pc'[d] = pc[d] /\ ended'[d] = ended[d]
  BY <1>0 DEF PairInv, PairTypes, Everyone
<1>6. PairTypes'
  <2>1. worker' \in [D!Ids -> Stored \cup {D!Absent}]
    BY <1>0, <1>2 DEF PairInv, PairTypes
  <2>2. QED
    BY <1>0, <2>1 DEF PairInv, PairTypes, Everyone
<1>7. Pairs'
  <2> SUFFICES ASSUME NEW d \in Calls
               PROVE  /\ D!Saved(<<d, "implementer">>)' <=> D!Saved(<<d, "validator">>)'
                      /\ D!Saved(<<d, "implementer">>)' => pc'[d] = "done"
                      /\ \A role \in D!Roles : D!Saved(<<d, role>>)' => worker'[<<d, role>>].request = {request'[d]}
    BY DEF Pairs
  <2>1. CASE d = c
    BY <1>0, <1>1, <1>2, <1>3, <1>5, <2>1
  <2>2. CASE d # c
    <3>1. /\ D!Saved(<<d, "implementer">>) <=> D!Saved(<<d, "validator">>)
          /\ D!Saved(<<d, "implementer">>) => pc[d] = "done"
          /\ \A role \in D!Roles : D!Saved(<<d, role>>) => worker[<<d, role>>].request = {request[d]}
      BY DEF PairInv, Pairs
    <3>2. /\ D!Saved(<<d, "implementer">>)' <=> D!Saved(<<d, "implementer">>)
          /\ D!Saved(<<d, "validator">>)' <=> D!Saved(<<d, "validator">>)
      BY <1>1, <1>4, <2>2
    <3>3. QED
      BY <1>0, <1>4, <1>5, <2>2, <3>1, <3>2
  <2>3. QED
    BY <2>1, <2>2
<1>8. ASSUME NEW e \in Calls, Past(e)'
      PROVE  /\ began'[e] < now'
             /\ \A d \in Calls : ( /\ e # d /\ request'[e] = request'[d] /\ D!Saved(<<d, "implementer">>)'
                                   /\ ended'[d] <= began'[e] ) => D!Forgotten(d)'
  <2>1. Past(e)
    BY <1>0, <1>1, <1>4, <1>5, <1>8 DEF Past
  <2>2. /\ began[e] < now /\ began[e] \in Nat /\ now \in Nat
        /\ \A d \in Calls : ( /\ e # d /\ request[e] = request[d] /\ D!Saved(<<d, "implementer">>)
                              /\ ended[d] <= began[e] ) => D!Forgotten(d)
    BY <2>1 DEF PairInv, ListedBefore, PairTypes, Everyone
  <2>3. ASSUME NEW d \in Calls, e # d, request[e] = request[d], D!Saved(<<d, "implementer">>)', ended'[d] <= began[e]
        PROVE  D!Forgotten(d)'
    <3>1. d # c
      BY <1>5, <2>2, <2>3
    <3>2. D!Saved(<<d, "implementer">>) /\ ended[d] <= began[e]
      BY <1>1, <1>4, <1>5, <2>3, <3>1
    <3>3. D!Forgotten(d)
      BY <2>2, <2>3, <3>2
    <3>4. QED
      BY <1>4, <3>1, <3>3 DEF D!Forgotten
  <2>4. QED
    BY <1>0, <2>2, <2>3
<1>9. ListedBefore'
  BY <1>8 DEF ListedBefore
<1>10. QED
  BY <1>6, <1>7, <1>9 DEF PairInv

\* validate start stores no worker of a call.
LEMMA ValidateStartKeeps ==
  ASSUME PairInv, NEW s \in Starts, D!validateStart(s)
  PROVE  PairInv'
<1>1. PICK role \in D!Roles, p \in Prompts, at \in Nat, x \in {"saving", "done"}, b \in Nat :
        /\ worker' = [worker EXCEPT ![<<s, role>>] = D!newWorker({}, p, at)]
        /\ pc' = [pc EXCEPT ![s] = x] /\ began' = [began EXCEPT ![s] = b]
  <2>1. now \in Nat /\ began[s] \in Nat /\ began = [began EXCEPT ![s] = began[s]]
    BY DEF PairInv, PairTypes, Everyone
  <2>2. QED
    BY <2>1 DEF D!validateStart, D!SaveWorker, D!Roles
<1>2. UNCHANGED <<now, request, prompt, ended, answer>>
  BY DEF D!validateStart, D!SaveWorker
<1>3. D!newWorker({}, p, at) \in Stored /\ s \notin Calls /\ s \in Everyone
  BY PairsAssumption DEF D!newWorker, Stored, D!DispatchAssumption, Everyone
<1>4. PairTypes'
  BY <1>1, <1>2, <1>3 DEF PairInv, PairTypes
<1>5. \A c \in Calls : began'[c] = began[c] /\ pc'[c] = pc[c]
  BY <1>1, <1>3 DEF PairInv, PairTypes, Everyone
<1>6. \A c \in Calls, r \in D!Roles : worker'[<<c, r>>] = worker[<<c, r>>]
  <2> SUFFICES ASSUME NEW c \in Calls, NEW r \in D!Roles PROVE worker'[<<c, r>>] = worker[<<c, r>>]
    OBVIOUS
  <2>1. <<c, r>> \in D!Ids /\ <<c, r>> # <<s, role>>
    BY <1>3 DEF D!Ids
  <2>2. QED
    BY <1>1, <2>1 DEF PairInv, PairTypes
<1>7. \A c \in Calls, r \in D!Roles :
        /\ D!Saved(<<c, r>>)' <=> D!Saved(<<c, r>>)
        /\ D!Saved(<<c, r>>) => worker[<<c, r>>].later \in Nat
  BY <1>6, StoredWorker DEF D!Saved, Everyone
<1>8. now' >= now
  BY <1>2 DEF PairInv, PairTypes
<1>9. QED
  BY <1>2, <1>4, <1>5, <1>6, <1>7, <1>8, PairFrame

\* A message lengthens a log.
LEMMA TimelineKeeps ==
  ASSUME PairInv, NEW w \in D!Ids, D!recordTimeline(w)
  PROVE  PairInv'
<1> DEFINE n == IF worker[w].later < EventCap THEN worker[w].later + 1 ELSE worker[w].later
           new == [worker[w] EXCEPT !.updatedAt = now, !.later = n]
<1>0. /\ now' = now + 1 /\ D!Saved(w) /\ UNCHANGED <<pc, request, prompt, began, ended, answer>>
      /\ worker' = [worker EXCEPT ![w] = new]
  BY DEF D!recordTimeline
<1>1. worker[w] \in Stored /\ now \in Nat /\ EventCap \in Nat
  BY <1>0, PairsAssumption DEF PairInv, PairTypes, D!Saved, D!Absent, D!DispatchAssumption
<1>2. n \in Nat /\ n >= worker[w].later
  BY <1>1 DEF Stored
<1> HIDE DEF n
<1>3. new \in Stored /\ new.later = n /\ new.request = worker[w].request /\ new.status = "idle"
  BY <1>1, <1>2 DEF Stored
<1> HIDE DEF new
<1>4. worker'[w] = new /\ \A x \in D!Ids : x # w => worker'[x] = worker[x]
  BY <1>0 DEF PairInv, PairTypes
<1>5. PairTypes'
  BY <1>0, <1>1, <1>3 DEF PairInv, PairTypes
<1>6. ASSUME NEW c \in Calls, NEW r \in D!Roles
      PROVE  /\ D!Saved(<<c, r>>)' <=> D!Saved(<<c, r>>)
             /\ D!Saved(<<c, r>>) => /\ worker'[<<c, r>>].request = worker[<<c, r>>].request
                                     /\ worker'[<<c, r>>].later >= worker[<<c, r>>].later
                                     /\ worker'[<<c, r>>].later \in Nat
  <2>1. <<c, r>> \in D!Ids /\ (D!Saved(<<c, r>>) => worker[<<c, r>>].later \in Nat)
    BY StoredWorker DEF Everyone
  <2>2. CASE <<c, r>> = w
    BY <1>0, <1>2, <1>3, <1>4, <2>2 DEF D!Saved
  <2>3. CASE <<c, r>> # w
    BY <1>4, <2>1, <2>3 DEF D!Saved
  <2>4. QED
    BY <2>2, <2>3
<1>7. QED
  BY <1>0, <1>1, <1>5, <1>6, PairFrame

\* One step keeps the invariant.
LEMMA PairStep == PairInv /\ [D!Next]_D!vars => PairInv'
<1> SUFFICES ASSUME PairInv, [D!Next]_D!vars PROVE PairInv'
  OBVIOUS
<1>1. \A c \in Calls, r \in D!Roles : D!Saved(<<c, r>>) => worker[<<c, r>>].later \in Nat
  BY StoredWorker DEF Everyone
<1>2. ASSUME NEW c \in Calls \cup Starts, D!Die(c) PROVE PairInv'
  <2>1. /\ UNCHANGED <<now, worker, request, prompt, began, ended, answer>>
        /\ pc' = [pc EXCEPT ![c] = "dead"] /\ pc[c] = "saving"
    BY <1>2 DEF D!Die
  <2>2. PairTypes' /\ now' >= now
    <3>1. pc' \in [Everyone -> {"idle", "saving", "done", "refused", "dead"}]
      BY <1>2, <2>1 DEF PairInv, PairTypes, Everyone
    <3>2. QED
      BY <2>1, <3>1 DEF PairInv, PairTypes
  <2>3. \A d \in Calls : pc'[d] = pc[d] \/ (pc[d] = "saving" /\ pc'[d] = "dead")
    BY <2>1 DEF PairInv, PairTypes, Everyone
  <2>4. QED
    BY <1>1, <2>1, <2>2, <2>3, PairFrame DEF D!Saved
<1>3. CASE UNCHANGED D!vars
  <2>1. PairTypes' /\ now' >= now
    BY <1>3 DEF D!vars, PairInv, PairTypes
  <2>2. QED
    BY <1>1, <1>3, <2>1, PairFrame DEF D!vars, D!Saved
<1>4. QED
  BY <1>2, <1>3, ListWorkersKeeps, SaveWorkersKeeps, ValidateStartKeeps, TimelineKeeps DEF D!Next

\* At first there is no worker.
LEMMA PairInit == D!Init => PairInv
<1> SUFFICES ASSUME D!Init PROVE PairInv
  OBVIOUS
<1>1. PairTypes
  BY DEF D!Init, PairTypes, Everyone
<1>2. \A c \in Calls, r \in D!Roles : ~D!Saved(<<c, r>>)
  BY DEF D!Init, D!Saved, D!Absent, D!Ids
<1>3. \A c \in Calls : pc[c] = "idle"
  BY DEF D!Init
<1>4. QED
  BY <1>1, <1>2, <1>3 DEF PairInv, Pairs, ListedBefore, Past, D!Roles

\* The invariant of making pairs.
THEOREM PairInvariance == D!Spec => []PairInv
BY PairInit, PairStep, PTL DEF D!Spec

\* Calls that follow one another make one pair: a second pair for a request means that two
\* calls were between their transactions together, or that a log has lost the dispatch event
\* (dispatch.Execute).
THEOREM SerialReplayHolds == D!Spec => []SerialReplay
BY PairInvariance, PairInvSays, PTL

\* What an answer names is stored, and was made for the request and the prompt.
Named(c, w) == w \in D!Ids /\ D!Saved(w) /\ worker[w].request = {request[c]}
Answered(c) ==
  answer[c] # D!NoAnswer =>
    /\ Named(c, answer[c].implementer) /\ Named(c, answer[c].validator)
    /\ worker[answer[c].implementer].prompt = prompt[c]

\* validate start has its implementer before its validator; its workers are for no request.
Started(s) ==
  /\ pc[s] = "saving" \/ D!Saved(<<s, "validator">>) => D!Saved(<<s, "implementer">>)
  /\ \A role \in D!Roles : D!Saved(<<s, role>>) => worker[<<s, role>>].request = {}

AnswerInv == PairInv /\ (\A c \in Calls : Answered(c)) /\ (\A s \in Starts : Started(s))

\* The workers of requests keep their request and their prompt, those of starts their request.
Kept ==
  \A w \in D!Ids : D!Saved(w) =>
    /\ D!Saved(w)' /\ worker'[w].request = worker[w].request
    /\ worker[w].request # {} => worker'[w].prompt = worker[w].prompt

LEMMA AnsweredKeeps ==
  ASSUME Kept, NEW c \in Calls, Answered(c), UNCHANGED <<request, prompt>>, answer'[c] = answer[c]
  PROVE  Answered(c)'
<1> SUFFICES ASSUME answer[c] # D!NoAnswer
             PROVE  /\ Named(c, answer[c].implementer)' /\ Named(c, answer[c].validator)'
                    /\ worker'[answer'[c].implementer].prompt = prompt'[c]
  BY DEF Answered, D!NoAnswer
<1>1. PICK i, v : i = answer[c].implementer /\ v = answer[c].validator
  OBVIOUS
<1>2. Named(c, i) /\ Named(c, v) /\ worker[i].prompt = prompt[c]
  BY <1>1 DEF Answered
<1>3. /\ i \in D!Ids /\ D!Saved(i)' /\ worker'[i].request = {request'[c]} /\ worker'[i].prompt = prompt'[c]
      /\ v \in D!Ids /\ D!Saved(v)' /\ worker'[v].request = {request'[c]}
  BY <1>2 DEF Named, Kept
<1>4. QED
  BY <1>1, <1>3 DEF Named, D!Saved

\* A start that saved nothing new.
LEMMA StartedKeeps ==
  ASSUME PairInv, Kept, NEW s \in Starts, Started(s), pc'[s] = "saving" => pc[s] = "saving",
         \A role \in D!Roles : D!Saved(<<s, role>>)' => D!Saved(<<s, role>>)
  PROVE  Started(s)'
<1>1. \A role \in D!Roles : <<s, role>> \in D!Ids
  BY StoredWorker DEF Everyone
<1>2. D!Roles = {"implementer", "validator"}
  BY DEF D!Roles
<1>3. QED
  BY <1>1, <1>2 DEF Started, Kept

LEMMA ListWorkersAnswers ==
  ASSUME AnswerInv, NEW c \in Calls, D!ListWorkers(c)
  PROVE  AnswerInv'
<1>1. UNCHANGED <<worker, request, prompt>> /\ PairInv
  BY DEF D!ListWorkers, AnswerInv
<1>2. Kept /\ \A w : D!Saved(w)' <=> D!Saved(w)
  BY <1>1 DEF Kept, D!Saved
<1>3. PICK x \in {"saving", "done", "refused"} : pc' = [pc EXCEPT ![c] = x]
  BY DEF D!ListWorkers
<1>4. \A s \in Starts : pc'[s] = pc[s]
  BY <1>1, <1>3, PairsAssumption DEF PairInv, PairTypes, D!DispatchAssumption, Everyone
<1>5. \A s \in Starts : Started(s)'
  BY <1>1, <1>2, <1>4, StartedKeeps DEF AnswerInv
<1>6. \/ answer' = answer
      \/ \E i \in D!Replay(request[c], "implementer"), v \in D!Replay(request[c], "validator") :
           /\ D!Fits(c, i)
           /\ answer' = [answer EXCEPT ![c] = [status |-> "replayed", implementer |-> i, validator |-> v]]
  BY DEF D!ListWorkers
<1>7. CASE answer' = answer
  BY <1>1, <1>2, <1>5, <1>7, AnsweredKeeps, ListWorkersKeeps DEF AnswerInv
<1>8. ASSUME NEW i \in D!Replay(request[c], "implementer"), NEW v \in D!Replay(request[c], "validator"), D!Fits(c, i),
             answer' = [answer EXCEPT ![c] = [status |-> "replayed", implementer |-> i, validator |-> v]]
      PROVE  AnswerInv'
  <2>1. DOMAIN answer = Calls
    BY <1>1 DEF PairInv, PairTypes
  <2>2. answer'[c].implementer = i /\ answer'[c].validator = v /\ \A d \in Calls : d # c => answer'[d] = answer[d]
    BY <1>8, <2>1
  <2>3. Named(c, i) /\ Named(c, v) /\ worker[i].prompt = prompt[c]
    BY <1>8 DEF D!Replay, D!Matching, D!hasDispatchRequest, D!Fits, Named
  <2>4. Answered(c)'
    BY <1>1, <2>2, <2>3 DEF Answered, Named, D!Saved
  <2>5. \A d \in Calls : d # c => Answered(d)'
    BY <1>1, <1>2, <2>2, AnsweredKeeps DEF AnswerInv
  <2>6. QED
    BY <1>1, <1>5, <2>4, <2>5, ListWorkersKeeps DEF AnswerInv
<1>9. QED
  BY <1>6, <1>7, <1>8

LEMMA SaveWorkersAnswers ==
  ASSUME AnswerInv, NEW c \in Calls, D!SaveWorkers(c)
  PROVE  AnswerInv'
<1> DEFINE i == <<c, "implementer">>
           v == <<c, "validator">>
           new == D!newWorker({request[c]}, prompt[c], began[c])
<1>0. PairInv /\ PairInv'
  BY SaveWorkersKeeps DEF AnswerInv
<1>1. /\ pc[c] = "saving" /\ pc' = [pc EXCEPT ![c] = "done"] /\ UNCHANGED <<request, prompt>>
      /\ worker' = [w \in D!Ids |-> IF w \in {i, v} THEN new ELSE worker[w]]
      /\ answer' = [answer EXCEPT ![c] = [status |-> "created", implementer |-> i, validator |-> v]]
  BY DEF D!SaveWorkers
<1>2. i \in D!Ids /\ v \in D!Ids /\ c \notin Starts
  BY PairsAssumption DEF D!Ids, D!Roles, D!DispatchAssumption
<1>3. new.status = "idle" /\ new.request = {request[c]} /\ new.prompt = prompt[c]
  BY DEF D!newWorker
<1> HIDE DEF new
<1>4. ~D!Saved(i) /\ ~D!Saved(v)
  BY <1>0, <1>1, BothStored DEF PairInv, Pairs, D!Roles
<1>5. Kept
  BY <1>1, <1>2, <1>4 DEF Kept, D!Saved
<1>6. \A s \in Starts : Started(s)'
  <2> SUFFICES ASSUME NEW s \in Starts PROVE Started(s)'
    OBVIOUS
  <2>1. pc'[s] = pc[s]
    BY <1>0, <1>1, <1>2 DEF PairInv, PairTypes, Everyone
  <2>2. \A role \in D!Roles : <<s, role>> \in D!Ids /\ <<s, role>> \notin {i, v}
    BY <1>2 DEF D!Ids
  <2>3. \A role \in D!Roles : D!Saved(<<s, role>>)' => D!Saved(<<s, role>>)
    BY <1>1, <2>2 DEF D!Saved
  <2>4. QED
    BY <1>0, <1>5, <2>1, <2>3, StartedKeeps DEF AnswerInv
<1>7. answer'[c].implementer = i /\ answer'[c].validator = v /\ \A d \in Calls : d # c => answer'[d] = answer[d]
  BY <1>0, <1>1 DEF PairInv, PairTypes
<1>8. worker'[i] = new /\ worker'[v] = new
  BY <1>1, <1>2
<1>9. Answered(c)'
  BY <1>1, <1>2, <1>3, <1>7, <1>8 DEF Answered, Named, D!Saved
<1>10. \A d \in Calls : d # c => Answered(d)'
  BY <1>1, <1>5, <1>7, AnsweredKeeps DEF AnswerInv
<1>11. QED
  BY <1>0, <1>6, <1>9, <1>10 DEF AnswerInv

LEMMA ValidateStartAnswers ==
  ASSUME AnswerInv, NEW s \in Starts, D!validateStart(s)
  PROVE  AnswerInv'
<1>0. PairInv /\ PairInv'
  BY ValidateStartKeeps DEF AnswerInv
<1>1. UNCHANGED <<request, prompt, answer>>
  BY DEF D!validateStart, D!SaveWorker
<1>2. PICK role, p, at, x :
        /\ role \in D!Roles
        /\ worker' = [worker EXCEPT ![<<s, role>>] = D!newWorker({}, p, at)] /\ pc' = [pc EXCEPT ![s] = x]
        /\ role = "implementer" \/ (pc[s] = "saving" /\ x = "done")
  BY DEF D!validateStart, D!SaveWorker, D!Roles
<1>3. PICK new : new = D!newWorker({}, p, at)
  OBVIOUS
<1>4. new.status = "idle" /\ new.request = {}
  BY <1>3 DEF D!newWorker
<1>5. <<s, role>> \in D!Ids /\ s \in Everyone
  BY <1>0, <1>2, StoredWorker DEF Everyone
<1>6. worker'[<<s, role>>] = new /\ \A w \in D!Ids : w # <<s, role>> => worker'[w] = worker[w]
  BY <1>0, <1>2, <1>3, <1>5 DEF PairInv, PairTypes
<1>7. Started(s)
  BY DEF AnswerInv
<1>8. D!Saved(<<s, role>>) => worker[<<s, role>>].request = {}
  BY <1>2, <1>7 DEF Started
<1>9. Kept
  BY <1>4, <1>6, <1>8 DEF Kept, D!Saved
<1>10. \A c \in Calls : Answered(c)'
  BY <1>1, <1>9, AnsweredKeeps DEF AnswerInv
<1>11. ASSUME NEW t \in Starts, t # s PROVE Started(t)'
  <2>1. pc'[t] = pc[t]
    BY <1>0, <1>2, <1>11 DEF PairInv, PairTypes, Everyone
  <2>2. \A r \in D!Roles : <<t, r>> \in D!Ids /\ <<t, r>> # <<s, role>>
    BY <1>11 DEF D!Ids
  <2>3. \A r \in D!Roles : D!Saved(<<t, r>>)' => D!Saved(<<t, r>>)
    BY <1>6, <2>2 DEF D!Saved
  <2>4. QED
    BY <1>0, <1>9, <2>1, <2>3, StartedKeeps DEF AnswerInv
<1>12. Started(s)'
  <2>1. \A r \in D!Roles : <<s, r>> \in D!Ids
    BY <1>0, StoredWorker DEF Everyone
  <2>2. D!Saved(<<s, "implementer">>)'
    <3>1. CASE role = "implementer"
      BY <1>4, <1>6, <3>1 DEF D!Saved
    <3>2. CASE role # "implementer"
      <4>1. D!Saved(<<s, "implementer">>)
        BY <1>2, <1>7, <3>2 DEF Started
      <4>2. QED
        BY <1>9, <2>1, <4>1 DEF Kept, D!Roles
    <3>3. QED
      BY <3>1, <3>2
  <2>3. ASSUME NEW r \in D!Roles, D!Saved(<<s, r>>)' PROVE worker'[<<s, r>>].request = {}
    <3>1. CASE r = role
      BY <1>4, <1>6, <3>1
    <3>2. CASE r # role
      <4>1. <<s, r>> # <<s, role>>
        BY <3>2
      <4>2. worker'[<<s, r>>] = worker[<<s, r>>]
        BY <1>6, <2>1, <4>1
      <4>3. QED
        BY <1>7, <2>3, <4>2 DEF Started, D!Saved
    <3>3. QED
      BY <3>1, <3>2
  <2>4. QED
    BY <2>2, <2>3 DEF Started
<1>13. QED
  BY <1>0, <1>10, <1>11, <1>12 DEF AnswerInv

LEMMA TimelineAnswers ==
  ASSUME AnswerInv, NEW w \in D!Ids, D!recordTimeline(w)
  PROVE  AnswerInv'
<1>0. PairInv /\ PairInv'
  BY TimelineKeeps DEF AnswerInv
<1> DEFINE n == IF worker[w].later < EventCap THEN worker[w].later + 1 ELSE worker[w].later
<1>1. worker' = [worker EXCEPT ![w] = [worker[w] EXCEPT !.updatedAt = now, !.later = n]]
  BY DEF D!recordTimeline
<1> HIDE DEF n
<1>2. UNCHANGED <<pc, request, prompt, answer>> /\ D!Saved(w)
  BY DEF D!recordTimeline
<1>3. PICK old \in Stored : old = worker[w]
  BY <1>0, <1>2 DEF PairInv, PairTypes, D!Saved, D!Absent
<1>4. PICK new : new = [old EXCEPT !.updatedAt = now, !.later = n]
  OBVIOUS
<1>5. new.status = "idle" /\ new.request = old.request /\ new.prompt = old.prompt
  BY <1>3, <1>4 DEF Stored
<1>6. worker'[w] = new /\ \A x \in D!Ids : x # w => worker'[x] = worker[x]
  BY <1>0, <1>1, <1>3, <1>4 DEF PairInv, PairTypes
<1>7. Kept
  BY <1>3, <1>5, <1>6 DEF Kept, D!Saved
<1>8. \A s \in Starts : Started(s)'
  <2> SUFFICES ASSUME NEW s \in Starts PROVE Started(s)'
    OBVIOUS
  <2>1. \A role \in D!Roles : <<s, role>> \in D!Ids
    BY <1>0, StoredWorker DEF Everyone
  <2>2. \A role \in D!Roles : D!Saved(<<s, role>>)' => D!Saved(<<s, role>>)
    BY <1>2, <1>6, <2>1 DEF D!Saved
  <2>3. QED
    BY <1>0, <1>2, <1>7, <2>2, StartedKeeps DEF AnswerInv
<1>9. \A c \in Calls : Answered(c)'
  BY <1>2, <1>7, AnsweredKeeps DEF AnswerInv
<1>10. QED
  BY <1>0, <1>8, <1>9 DEF AnswerInv

LEMMA AnswerStep == AnswerInv /\ [D!Next]_D!vars => AnswerInv'
<1> SUFFICES ASSUME AnswerInv, [D!Next]_D!vars PROVE AnswerInv'
  OBVIOUS
<1>0. PairInv /\ PairInv'
  BY PairStep DEF AnswerInv
<1>1. CASE /\ UNCHANGED <<worker, request, prompt, answer>>
           /\ \A s \in Starts : pc'[s] = pc[s] \/ pc'[s] = "dead"
  <2>1. Kept /\ \A w : D!Saved(w)' <=> D!Saved(w)
    BY <1>1 DEF Kept, D!Saved
  <2>2. QED
    BY <1>0, <1>1, <2>1, AnsweredKeeps, StartedKeeps DEF AnswerInv
<1>2. ASSUME NEW c \in Calls \cup Starts, D!Die(c) PROVE AnswerInv'
  <2>1. UNCHANGED <<worker, request, prompt, answer>> /\ pc' = [pc EXCEPT ![c] = "dead"]
    BY <1>2 DEF D!Die
  <2>2. \A s \in Starts : pc'[s] = pc[s] \/ pc'[s] = "dead"
    BY <1>0, <2>1 DEF PairInv, PairTypes, Everyone
  <2>3. QED
    BY <1>1, <2>1, <2>2
<1>3. CASE UNCHANGED D!vars
  BY <1>1, <1>3 DEF D!vars
<1>4. QED
  BY <1>2, <1>3, ListWorkersAnswers, SaveWorkersAnswers, ValidateStartAnswers, TimelineAnswers DEF D!Next

LEMMA AnswerInit == D!Init => AnswerInv
<1> SUFFICES ASSUME D!Init PROVE AnswerInv
  OBVIOUS
<1>1. \A c \in Calls : answer[c] = D!NoAnswer
  BY DEF D!Init
<1>2. \A s \in Starts, r \in D!Roles : ~D!Saved(<<s, r>>)
  BY DEF D!Init, D!Saved, D!Absent, D!Ids
<1>3. \A s \in Starts : pc[s] = "idle"
  BY DEF D!Init
<1>4. QED
  BY <1>1, <1>2, <1>3, PairInit DEF AnswerInv, Answered, Started, D!Roles

\* The invariant of what calls answer and starts leave behind.
THEOREM AnswerInvariance == D!Spec => []AnswerInv
BY AnswerInit, AnswerStep, PTL DEF D!Spec

\* The workers an Execute names to its caller, new or replayed, were made for its request and
\* its prompt, whatever was written about them since.
THEOREM AnswerFitsHolds == D!Spec => []AnswerFits
<1>1. AnswerInv => AnswerFits
  BY DEF AnswerInv, Answered, Named, AnswerFits, D!AnswerFits
<1>2. QED
  BY <1>1, AnswerInvariance, PTL

\* No validator is stored without the worker it validates, wherever dispatch or validate
\* start dies.
THEOREM ValidatorBackedHolds == D!Spec => []ValidatorBacked
<1>1. ASSUME AnswerInv PROVE D!ValidatorBacked
  BY <1>1 DEF AnswerInv, PairInv, Pairs, Started, D!ValidatorBacked
<1>2. AnswerInv => ValidatorBacked
  BY <1>1 DEF ValidatorBacked
<1>3. QED
  BY <1>2, AnswerInvariance, PTL

-----------------------------------------------------------------------------
(* A walk through the list.                                                *)

WalkTypes ==
  /\ time \in 1 .. LastTime
  /\ rows \in [Keys -> [seen : Nat, at : Nat, matches : BOOLEAN]]
  /\ \A k \in Keys : rows[k].seen <= rows[k].at /\ rows[k].at <= time
  /\ walk \in {"on", "ended"} /\ shown \in [Keys -> Nat] /\ wanted \subseteq Keys
  /\ cursor \in [at : Nat, key : Nat]

\* What was shown is not after the cursor, and was shown once.
Behind == \A k \in Keys : shown[k] < 2 /\ (walk = "on" /\ shown[k] = 1 => ~L!After(cursor, k))

\* What must be shown still is after it and listed.
Ahead ==
  walk = "on" /\ cursor # L!Start => \A k \in wanted : k \in L!Listed /\ (shown[k] = 1 \/ L!After(cursor, k))

WalkInv == WalkTypes /\ Behind /\ Ahead /\ WalkComplete

\* The finite sets of the instance are those of this module.
LEMMA SameFiniteSets ==
  ASSUME NEW S
  PROVE  (L!IsFiniteSet(S) <=> IsFiniteSet(S)) /\ L!Cardinality(S) = Cardinality(S)
<1>1. L!IsFiniteSet(S) <=> IsFiniteSet(S)
  BY DEF L!IsFiniteSet, IsFiniteSet
<1>2. L!Cardinality(S) = Cardinality(S)
  BY Zenon DEF L!Cardinality, Cardinality
<1>3. QED
  BY <1>1, <1>2

\* The order of the list is total and transitive, also among rows that were seen together.
LEMMA ListOrder ==
  ASSUME WalkTypes, NEW i \in Keys, NEW j \in Keys, NEW k \in Keys
  PROVE  /\ ~L!Before(i, i)
         /\ i = j \/ L!Before(i, j) \/ L!Before(j, i)
         /\ L!Before(i, j) /\ L!Before(j, k) => L!Before(i, k)
<1>1. i \in Nat /\ j \in Nat /\ k \in Nat
  BY ListingAssumption DEF L!TaskListingAssumption
<1>2. rows[i].seen \in Nat /\ rows[j].seen \in Nat /\ rows[k].seen \in Nat
  BY DEF WalkTypes
<1>3. QED
  BY <1>1, <1>2 DEF L!Before

\* A page is the beginning of what is left: of a row that is not on it, the rows of the
\* page come before.
LEMMA PageIsPrefix ==
  ASSUME WalkTypes, NEW rest \in SUBSET Keys, NEW limit \in Nat,
         NEW k \in rest, NEW last \in rest,
         L!Cardinality({j \in rest : L!Before(j, last)}) < limit,
         ~(L!Cardinality({j \in rest : L!Before(j, k)}) < limit)
  PROVE  L!Before(last, k)
<1> DEFINE A == {j \in rest : L!Before(j, k)}
           B == {j \in rest : L!Before(j, last)}
<1> SUFFICES ASSUME ~L!Before(last, k) PROVE FALSE
  OBVIOUS
<1>1. k = last \/ L!Before(k, last)
  BY ListOrder
<1>2. A \in SUBSET B
  BY <1>1, ListOrder
<1>3. IsFiniteSet(B)
  <2>1. B \in SUBSET Keys
    OBVIOUS
  <2>2. IsFiniteSet(Keys)
    BY ListingAssumption, SameFiniteSets DEF L!TaskListingAssumption
  <2> HIDE DEF B
  <2>3. QED
    BY <2>1, <2>2, FS_Subset
<1> HIDE DEF A, B
<1>4. IsFiniteSet(A) /\ Cardinality(A) <= Cardinality(B)
  BY <1>2, <1>3, FS_Subset
<1>5. Cardinality(A) \in Nat /\ Cardinality(B) \in Nat
  BY <1>3, <1>4, FS_CardinalityType
<1>6. Cardinality(B) < limit /\ ~(Cardinality(A) < limit)
  BY SameFiniteSets DEF A, B
<1>7. QED
  BY <1>4, <1>5, <1>6

\* What fits on a page is all on it.
LEMMA PageIsAll ==
  ASSUME WalkTypes, NEW rest \in SUBSET Keys, NEW limit \in Nat, ~(L!Cardinality(rest) > limit), NEW k \in rest
  PROVE  L!Cardinality({j \in rest : L!Before(j, k)}) < limit
<1> DEFINE A == {j \in rest : L!Before(j, k)}
<1>1. IsFiniteSet(rest)
  <2>1. IsFiniteSet(Keys)
    BY ListingAssumption, SameFiniteSets DEF L!TaskListingAssumption
  <2>2. QED
    BY <2>1, FS_Subset
<1>2. Cardinality(rest) \in Nat
  BY <1>1, FS_CardinalityType
<1>3. IsFiniteSet(rest \ {k}) /\ Cardinality(rest \ {k}) = Cardinality(rest) - 1
  BY <1>1, FS_RemoveElement
<1>4. A \in SUBSET (rest \ {k})
  BY ListOrder
<1> HIDE DEF A
<1>5. IsFiniteSet(A) /\ Cardinality(A) <= Cardinality(rest \ {k})
  BY <1>3, <1>4, FS_Subset
<1>6. Cardinality(A) \in Nat
  BY <1>5, FS_CardinalityType
<1>7. Cardinality(A) < limit
  BY <1>2, <1>3, <1>5, <1>6, SameFiniteSets
<1>8. QED
  BY <1>7, SameFiniteSets DEF A

\* The first page begins before every row.
LEMMA AfterStart ==
  ASSUME WalkTypes, NEW k \in Keys
  PROVE  L!After(L!Start, k) /\ L!Start \in [at : Nat, key : Nat]
<1>1. LastTime \in Nat /\ rows[k].seen \in Nat /\ rows[k].at \in Nat /\ rows[k].seen <= rows[k].at /\ rows[k].at <= time
      /\ time \in Nat /\ time <= LastTime
  BY ListingAssumption DEF WalkTypes, L!TaskListingAssumption
<1>2. QED
  BY <1>1 DEF L!After, L!Start

\* A snapshot moves rows to the front only, and what it does not move keeps its place.
LEMMA IngestKeepsWalk ==
  ASSUME WalkInv, L!Ingest
  PROVE  WalkInv'
<1>0. WalkTypes /\ Behind /\ Ahead /\ WalkComplete
  BY DEF WalkInv
<1>1. PICK at \in 1 .. time, greater \in BOOLEAN, listed \in SUBSET Keys :
        \E missing \in SUBSET {k \in Keys \ listed : rows[k].seen > 0}, matching \in SUBSET listed :
          rows' = [k \in Keys |-> L!Ingested(at, greater, listed, missing, matching, k)]
  BY DEF L!Ingest
<1>2. PICK missing \in SUBSET (Keys \ listed), matching \in SUBSET listed :
        rows' = [k \in Keys |-> L!Ingested(at, greater, listed, missing, matching, k)]
  BY <1>1
<1>3. /\ wanted' = {k \in wanted : rows'[k].seen = rows[k].seen /\ rows'[k].matches}
      /\ UNCHANGED <<time, walk, cursor, shown>>
  BY DEF L!Ingest
<1>4. time \in Nat /\ at \in Nat /\ at <= time
  BY <1>0 DEF WalkTypes
<1>5. ASSUME NEW k \in Keys
      PROVE  /\ rows'[k] \in [seen : Nat, at : Nat, matches : BOOLEAN]
             /\ rows'[k].seen <= rows'[k].at /\ rows'[k].at <= time /\ rows'[k].seen >= rows[k].seen
  <2>1. rows[k] \in [seen : Nat, at : Nat, matches : BOOLEAN] /\ rows[k].seen <= rows[k].at /\ rows[k].at <= time
    BY <1>0 DEF WalkTypes
  <2>2. rows'[k] = L!Ingested(at, greater, listed, missing, matching, k)
    BY <1>2
  <2>3. CASE k \in listed /\ L!Wins(at, greater, k)
    <3>0. k \notin missing
      BY <1>2, <2>3
    <3>1. rows'[k] = [seen |-> at, at |-> at, matches |-> k \in matching]
      BY <2>2, <2>3, <3>0, Zenon DEF L!Ingested
    <3>2. at >= rows[k].at
      BY <1>4, <2>1, <2>3 DEF L!Wins
    <3>3. QED
      BY <1>4, <2>1, <3>1, <3>2
  <2>4. CASE k \in listed /\ ~L!Wins(at, greater, k)
    <3>1. rows'[k] = [rows[k] EXCEPT !.matches = k \in matching]
      BY <2>2, <2>4, Zenon DEF L!Ingested
    <3>2. [rows[k] EXCEPT !.matches = k \in matching]
            = [seen |-> rows[k].seen, at |-> rows[k].at, matches |-> k \in matching]
      BY <2>1
    <3>3. rows'[k] = [seen |-> rows[k].seen, at |-> rows[k].at, matches |-> k \in matching]
      BY <3>1, <3>2, Zenon
    <3>4. QED
      BY <1>4, <2>1, <3>3
  <2>5. CASE k \notin listed /\ k \in missing /\ L!Wins(at, greater, k)
    <3>1. rows'[k] = [rows[k] EXCEPT !.at = at]
      BY <2>2, <2>5 DEF L!Ingested
    <3>2. at >= rows[k].at
      BY <1>4, <2>1, <2>5 DEF L!Wins
    <3>3. QED
      BY <1>4, <2>1, <3>1, <3>2
  <2>6. CASE k \notin listed /\ ~(k \in missing /\ L!Wins(at, greater, k))
    <3>1. rows'[k] = rows[k]
      BY <2>2, <2>6 DEF L!Ingested
    <3>2. QED
      BY <2>1, <3>1
  <2>7. QED
    BY <2>3, <2>4, <2>5, <2>6
<1>6. WalkTypes'
  <2>1. rows' \in [Keys -> [seen : Nat, at : Nat, matches : BOOLEAN]]
    BY <1>2, <1>5
  <2>2. QED
    BY <1>0, <1>3, <1>5, <2>1 DEF WalkTypes
<1>7. \A k \in Keys : L!After(cursor, k)' => L!After(cursor, k)
  <2> SUFFICES ASSUME NEW k \in Keys, L!After(cursor, k)' PROVE L!After(cursor, k)
    OBVIOUS
  <2>1. rows[k].seen \in Nat /\ rows'[k].seen \in Nat /\ rows'[k].seen >= rows[k].seen
    BY <1>0, <1>5 DEF WalkTypes
  <2>2. cursor.at \in Nat /\ cursor.key \in Nat
    BY <1>0 DEF WalkTypes
  <2>3. QED
    BY <1>3, <2>1, <2>2 DEF L!After
<1>8. Behind'
  BY <1>0, <1>3, <1>7 DEF Behind
<1>9. Ahead'
  <2> SUFFICES ASSUME walk = "on", cursor # L!Start, NEW k \in wanted'
               PROVE  k \in L!Listed' /\ (shown[k] = 1 \/ L!After(cursor, k)')
    BY <1>3 DEF Ahead, L!Start
  <2>1. k \in wanted /\ rows'[k].seen = rows[k].seen /\ rows'[k].matches
    BY <1>3
  <2>2. k \in L!Listed /\ (shown[k] = 1 \/ L!After(cursor, k))
    BY <1>0, <2>1 DEF Ahead
  <2>3. QED
    BY <1>3, <2>1, <2>2 DEF L!Listed, L!After
<1>10. WalkComplete'
  BY <1>0, <1>3 DEF WalkComplete, L!WalkComplete
<1>11. QED
  BY <1>6, <1>8, <1>9, <1>10 DEF WalkInv

\* A page shows what comes next, and the cursor it leaves cuts the list behind it.
LEMMA ListKeepsWalk ==
  ASSUME WalkInv, NEW limit \in 1 .. MaxLimit, L!ListCodexTasks(limit)
  PROVE  WalkInv'
<1> DEFINE rest == {k \in L!Listed : L!After(cursor, k)}
           page == {k \in rest : L!Cardinality({j \in rest : L!Before(j, k)}) < limit}
           more == L!Cardinality(rest) > limit
<1>0. WalkTypes /\ Behind /\ Ahead /\ WalkComplete
  BY DEF WalkInv
<1>1. /\ walk = "on" /\ shown' = L!Shown(page)
      /\ wanted' = (IF cursor = L!Start THEN L!Listed ELSE wanted)
      /\ UNCHANGED <<time, rows>>
  BY DEF L!ListCodexTasks
<1>2. \/ /\ more /\ walk' = walk
         /\ \E last \in page : /\ \A k \in page : k = last \/ L!Before(k, last)
                               /\ cursor' = [at |-> rows[last].seen, key |-> last]
      \/ ~more /\ walk' = "ended" /\ UNCHANGED cursor
  BY DEF L!ListCodexTasks
<1>3. limit \in Nat /\ rest \in SUBSET Keys /\ L!Listed \subseteq Keys
  BY ListingAssumption DEF L!Listed, L!TaskListingAssumption
<1>4. \A k \in page : shown[k] = 0
  <2>1. \A k \in Keys : shown[k] \in Nat
    BY <1>0 DEF WalkTypes
  <2>2. QED
    BY <1>0, <1>1, <1>3, <2>1 DEF Behind
<1>5. \A k \in Keys : shown'[k] = IF k \in page THEN 1 ELSE shown[k]
  BY <1>1, <1>4 DEF L!Shown
<1>6. \A k \in wanted' : k \in L!Listed /\ (shown[k] = 1 \/ k \in rest)
  <2>1. CASE cursor = L!Start
    BY <1>0, <1>1, <1>3, <2>1, AfterStart
  <2>2. CASE cursor # L!Start
    BY <1>0, <1>1, <2>2 DEF Ahead
  <2>3. QED
    BY <2>1, <2>2
<1>7. shown' \in [Keys -> Nat] /\ wanted' \subseteq Keys /\ \A k \in Keys : shown'[k] < 2
  <2>1. shown' \in [Keys -> Nat]
    BY <1>0, <1>1 DEF L!Shown, WalkTypes
  <2>2. wanted' \subseteq Keys
    BY <1>3, <1>6
  <2>3. \A k \in Keys : shown'[k] < 2
    <3> HIDE DEF page
    <3>1. \A k \in Keys : shown[k] < 2
      BY <1>0 DEF Behind
    <3>2. QED
      BY <1>5, <3>1
  <2>4. QED
    BY <2>1, <2>2, <2>3
<1>8. CASE ~more /\ walk' = "ended" /\ UNCHANGED cursor
  <2>1. \A k \in rest : k \in page
    BY <1>0, <1>3, <1>8, PageIsAll
  <2>2. \A k \in wanted' : shown'[k] = 1
    BY <1>3, <1>5, <1>6, <2>1
  <2>3. WalkTypes'
    BY <1>0, <1>1, <1>7, <1>8 DEF WalkTypes
  <2>4. Behind' /\ Ahead'
    BY <1>7, <1>8 DEF Behind, Ahead
  <2>5. WalkComplete'
    BY <1>7, <2>2 DEF WalkComplete, L!WalkComplete
  <2>6. QED
    BY <2>3, <2>4, <2>5 DEF WalkInv
<1>9. ASSUME more, walk' = walk, NEW last \in page, \A k \in page : k = last \/ L!Before(k, last),
             cursor' = [at |-> rows[last].seen, key |-> last]
      PROVE  WalkInv'
  <2> HIDE DEF more
  <2>0. last \in rest /\ last \in Keys /\ last \in Nat /\ rows[last].seen \in Nat
    BY <1>0, <1>3, ListingAssumption DEF WalkTypes, L!TaskListingAssumption
  <2>1. cursor' \in [at : Nat, key : Nat] /\ cursor'.at = rows[last].seen /\ cursor'.key = last
    BY <1>9, <2>0
  <2>2. WalkTypes'
    BY <1>0, <1>1, <1>7, <1>9, <2>1 DEF WalkTypes
  <2>3. \A k \in Keys : L!After(cursor, k)' <=> L!Before(last, k)
    BY <1>1, <2>1 DEF L!After, L!Before
  <2>4. \A k \in page : ~L!Before(last, k)
    <3> SUFFICES ASSUME NEW k \in page, L!Before(last, k) PROVE FALSE
      OBVIOUS
    <3>1. k \in Keys
      BY <1>3
    <3>2. k = last \/ L!Before(k, last)
      BY <1>9
    <3>3. ~L!Before(last, last)
      BY <1>0, <2>0, ListOrder
    <3>4. QED
      BY <1>0, <2>0, <3>1, <3>2, <3>3, ListOrder
  <2>5. \A k \in Keys : ~L!After(cursor, k) => ~L!Before(last, k)
    <3> SUFFICES ASSUME NEW k \in Keys, ~L!After(cursor, k), L!Before(last, k) PROVE FALSE
      OBVIOUS
    <3>1. L!After(cursor, last)
      BY <2>0
    <3>2. rows[k].seen \in Nat /\ k \in Nat /\ cursor.at \in Nat /\ cursor.key \in Nat
      BY <1>0, ListingAssumption DEF WalkTypes, L!TaskListingAssumption
    <3>3. QED
      BY <2>0, <3>1, <3>2 DEF L!After, L!Before
  <2>6. Behind'
    <3> SUFFICES ASSUME NEW k \in Keys, shown'[k] = 1 PROVE ~L!After(cursor, k)'
      BY <1>7 DEF Behind
    <3>1. CASE k \in page
      BY <2>3, <2>4, <3>1
    <3>2. CASE k \notin page
      <4>1. ~L!After(cursor, k)
        BY <1>0, <1>1, <1>5, <3>2 DEF Behind
      <4>2. QED
        BY <2>3, <2>5, <4>1
    <3>3. QED
      BY <3>1, <3>2
  <2>7. Ahead'
    <3> SUFFICES ASSUME NEW k \in wanted' PROVE k \in L!Listed' /\ (shown'[k] = 1 \/ L!After(cursor, k)')
      BY DEF Ahead
    <3>1. k \in L!Listed /\ (shown[k] = 1 \/ k \in rest) /\ k \in Keys
      BY <1>3, <1>6
    <3>2. k \in L!Listed'
      BY <1>1, <3>1 DEF L!Listed
    <3>3. CASE k \in page
      BY <1>5, <3>1, <3>2, <3>3
    <3>4. CASE k \notin page /\ k \in rest
      <4>1. L!Before(last, k)
        BY <1>0, <1>3, <2>0, <3>4, PageIsPrefix
      <4>2. QED
        BY <2>3, <3>1, <3>2, <4>1
    <3>5. CASE k \notin page /\ shown[k] = 1
      BY <1>5, <3>1, <3>2, <3>5
    <3>6. QED
      BY <3>1, <3>3, <3>4, <3>5
  <2>8. WalkComplete'
    BY <1>1, <1>7, <1>9 DEF WalkComplete, L!WalkComplete
  <2>9. QED
    BY <2>2, <2>6, <2>7, <2>8 DEF WalkInv
<1>10. QED
  BY <1>2, <1>8, <1>9

\* One step keeps the invariant.
LEMMA WalkStep == WalkInv /\ [L!Next]_L!vars => WalkInv'
<1> SUFFICES ASSUME WalkInv, [L!Next]_L!vars PROVE WalkInv'
  OBVIOUS
<1>0. WalkTypes /\ Behind /\ Ahead /\ WalkComplete
  BY DEF WalkInv
<1>1. ASSUME UNCHANGED <<rows, walk, cursor, shown, wanted>>, time' \in {time, time + 1}, time' \in 1 .. LastTime
      PROVE  WalkInv'
  <2>1. time \in Nat /\ StaleFor \in Nat /\ LastTime \in Nat
    BY <1>0, ListingAssumption DEF WalkTypes, L!TaskListingAssumption
  <2>2. \A k \in Keys : rows[k].seen \in Nat /\ rows[k].at \in Nat
    BY <1>0 DEF WalkTypes
  <2>3. WalkTypes'
    BY <1>0, <1>1, <2>1, <2>2 DEF WalkTypes
  <2>4. \A k \in Keys : L!After(cursor, k)' <=> L!After(cursor, k)
    BY <1>1 DEF L!After
  <2>5. Behind'
    BY <1>0, <1>1, <2>4 DEF Behind
  <2>6. \A k \in L!Listed : k \in L!Listed' /\ k \in Keys
    BY <1>1, <2>1, <2>2 DEF L!Listed
  <2>7. Ahead'
    BY <1>0, <1>1, <2>4, <2>6 DEF Ahead, L!Start
  <2>8. WalkComplete'
    BY <1>0, <1>1 DEF WalkComplete, L!WalkComplete
  <2>9. QED
    BY <2>3, <2>5, <2>7, <2>8 DEF WalkInv
<1>2. CASE L!Tick
  <2>1. time' = time + 1 /\ time < LastTime /\ UNCHANGED <<rows, walk, cursor, shown, wanted>>
    BY <1>2 DEF L!Tick
  <2>2. time \in 1 .. LastTime /\ LastTime \in Nat
    BY <1>0, ListingAssumption DEF WalkTypes, L!TaskListingAssumption
  <2>3. QED
    BY <1>1, <2>1, <2>2
<1>3. CASE UNCHANGED L!vars
  BY <1>0, <1>1, <1>3 DEF L!vars, WalkTypes
<1>4. QED
  BY <1>2, <1>3, IngestKeepsWalk, ListKeepsWalk DEF L!Next

\* At first nothing is seen and nothing shown.
LEMMA WalkInit == L!Init => WalkInv
<1> SUFFICES ASSUME L!Init PROVE WalkInv
  OBVIOUS
<1>1. LastTime \in Nat /\ LastTime > 0
  BY ListingAssumption DEF L!TaskListingAssumption
<1>2. WalkTypes
  BY <1>1 DEF L!Init, WalkTypes, L!Start
<1>3. Behind /\ Ahead
  BY DEF L!Init, Behind, Ahead
<1>4. WalkComplete
  BY DEF L!Init, WalkComplete, L!WalkComplete
<1>5. QED
  BY <1>2, <1>3, <1>4 DEF WalkInv

\* The invariant of a walk.
THEOREM WalkInvariance == L!Spec => []WalkInv
BY WalkInit, WalkStep, PTL DEF L!Spec

\* A walk shows no task twice, and when it has ended it has shown every task that was listed
\* when it began and that no snapshot has moved since (ListCodexTasks).
THEOREM WalkCompleteHolds == L!Spec => []WalkComplete
<1>1. WalkInv => WalkComplete
  BY DEF WalkInv
<1>2. QED
  BY <1>1, WalkInvariance, PTL
=============================================================================
