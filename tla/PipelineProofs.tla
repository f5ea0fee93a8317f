--------------------------- MODULE PipelineProofs ---------------------------
(***************************************************************************)
(* Proofs about the parts of Pipeline, for every value of the bounds.      *)
(* Each part has an inductive invariant of its own: a step of the part in  *)
(* focus keeps it, and the others rest.                                    *)
(***************************************************************************)
EXTENDS Pipeline, FiniteSetTheorems, SequenceTheorems, WellFoundedInduction, TLAPS

-----------------------------------------------------------------------------
(* The repairs of derived rows.                                            *)

Qualities == {"old", "blank", "done"}

\* The turn rows are those of the first events, and say what they come from.
TurnRows == UNION {[1 .. n -> Qualities] : n \in 0 .. NEvents}

RebuildTypes ==
    /\ canon \in [1 .. NEvents -> Qualities \cup {"gone"}]
    /\ timeline \in [current : BOOLEAN, rows : TurnRows]
    /\ gate \subseteq Gates
    /\ purged \in BOOLEAN
    /\ reindexes \in Nat
    /\ ~purged => \A i \in 1 .. NEvents : canon[i] # "gone"

\* Until the first reindex a gate is opened by the repair it stands for only,
\* and in the order of the repairs.
GatesFollowRepairs ==
    /\ reindex = "idle"
    /\ "canonical_blocks" \in gate => \A i \in 1 .. NEvents : canon[i] \in {"done", "gone"}
    /\ maint \in {"usage", "mark", "project", "done"} \/ "timeline_projection" \in gate
         => "canonical_blocks" \in gate
    /\ maint \in {"mark", "project", "done"} \/ "timeline_projection" \in gate
         => "usage_projection" \in gate
    /\ maint \in {"canonical", "usage", "mark", "project"} => "timeline_projection" \notin gate

\* A marked timeline is reduced from repaired events whoever projects it.
MarkedIsRepaired ==
    /\ maint = "project" => ~timeline.current \/ Repaired
    /\ "timeline_projection" \in gate => timeline.current /\ Repaired

\* The purge waits for the gates.
PurgeFollowsGates ==
    /\ archiver = "gated" \/ purged => gate = Gates
    /\ purged => DOMAIN timeline.rows = 1 .. NEvents

\* The inductive form of RepairsHold.
RebuildInv ==
    /\ RebuildTypes
    /\ reindexes = 0 => GatesFollowRepairs /\ MarkedIsRepaired /\ PurgeFollowsGates

\* An upgraded binary finds rows it has not repaired and no gate open.
LEMMA RebuildStarts == RebuildInit => RebuildInv
<1> SUFFICES ASSUME RebuildInit PROVE RebuildInv
  OBVIOUS
<1>1. timeline = [current |-> TRUE, rows |-> <<>>] /\ canon = [i \in 1 .. NEvents |-> "old"]
  BY DEF RebuildInit
<1>2. <<>> \in TurnRows
  <2>1. 0 \in 0 .. NEvents /\ <<>> \in [1 .. 0 -> Qualities]
    BY RebuildAssumption
  <2> QED
    BY <2>1 DEF TurnRows
<1>3. RebuildTypes
  <2>1. canon \in [1 .. NEvents -> Qualities \cup {"gone"}] /\ \A i \in 1 .. NEvents : canon[i] # "gone"
    BY <1>1 DEF Qualities
  <2>2. timeline \in [current : BOOLEAN, rows : TurnRows]
    BY <1>1, <1>2
  <2> QED
    BY <2>1, <2>2 DEF RebuildInit, RebuildTypes
<1> QED
  BY <1>3 DEF RebuildInit, RebuildInv, GatesFollowRepairs, MarkedIsRepaired, PurgeFollowsGates

\* The number of turn rows is the cursor.
LEMMA RowsCounted ==
    ASSUME NEW r \in TurnRows
    PROVE  \E n \in 0 .. NEvents : r \in [1 .. n -> Qualities] /\ Cardinality(DOMAIN r) = n
<1>1. PICK n \in 0 .. NEvents : r \in [1 .. n -> Qualities]
  BY DEF TurnRows
<1>2. Cardinality(1 .. n) = n
  BY <1>1, FS_Interval, RebuildAssumption
<1> QED
  BY <1>1, <1>2

\* A batch keeps the rows behind its cursor and reduces the others from what
\* the events hold; of a purged session it can only keep what is there.
LEMMA ProjectedRows ==
    ASSUME RebuildTypes
    PROVE  /\ Projected \in [current : BOOLEAN, rows : TurnRows] /\ Projected.current
           /\ timeline.current /\ DOMAIN timeline.rows = 1 .. NEvents =>
                 DOMAIN Projected.rows = 1 .. NEvents
           /\ \A i \in DOMAIN Projected.rows :
                 \/ /\ timeline.current /\ i \in DOMAIN timeline.rows
                    /\ Projected.rows[i] = timeline.rows[i]
                 \/ i \in 1 .. NEvents /\ ~purged /\ Projected.rows[i] = canon[i]
<1> DEFINE from == IF timeline.current THEN timeline.rows ELSE <<>>
           n == Cardinality(DOMAIN from)
           m == IF n > Retained THEN n ELSE Retained
           rows == [i \in 1 .. m |-> IF i \in DOMAIN from THEN from[i] ELSE canon[i]]
<1>1. <<>> \in TurnRows
  <2>1. 0 \in 0 .. NEvents /\ <<>> \in [1 .. 0 -> Qualities]
    BY RebuildAssumption
  <2> QED
    BY <2>1 DEF TurnRows
<1>2. from \in TurnRows
  BY <1>1 DEF RebuildTypes
<1>3. n \in 0 .. NEvents /\ from \in [1 .. n -> Qualities]
  BY <1>2, RowsCounted
<1>4. Projected = [current |-> TRUE, rows |-> rows]
  BY DEF Projected
<1> HIDE DEF n
<1>5. m \in 0 .. NEvents /\ (purged => m = n) /\ NEvents \in Nat
  BY <1>3, RebuildAssumption DEF Retained, RebuildTypes
<1> HIDE DEF m
<1>6. ASSUME NEW i \in 1 .. m
      PROVE  /\ rows[i] \in Qualities
             /\ \/ timeline.current /\ i \in DOMAIN timeline.rows /\ rows[i] = timeline.rows[i]
                \/ i \in 1 .. NEvents /\ ~purged /\ rows[i] = canon[i]
  <2>1. i \in 1 .. NEvents
    BY <1>5
  <2>2. CASE i \in DOMAIN from
    BY <1>3, <2>2
  <2>3. CASE i \notin DOMAIN from
    <3>1. ~purged
      BY <1>3, <1>5, <2>3
    <3> QED
      BY <2>1, <2>3, <3>1 DEF RebuildTypes
  <2> QED
    BY <2>2, <2>3
<1>7. rows \in TurnRows
  <2>1. rows \in [1 .. m -> Qualities]
    BY <1>6
  <2> QED
    BY <1>5, <2>1 DEF TurnRows
<1>8. timeline.current /\ DOMAIN timeline.rows = 1 .. NEvents => m = NEvents
  <2> SUFFICES ASSUME timeline.current, DOMAIN timeline.rows = 1 .. NEvents PROVE m = NEvents
    OBVIOUS
  <2>1. DOMAIN from = 1 .. NEvents
    OBVIOUS
  <2>2. Cardinality(1 .. NEvents) = NEvents
    BY FS_Interval, RebuildAssumption
  <2>3. n = NEvents
    BY <2>1, <2>2 DEF n
  <2> QED
    BY <2>3, RebuildAssumption DEF m, Retained
<1> HIDE DEF from
<1> QED
  BY <1>4, <1>6, <1>7, <1>8

\* Reduced from repaired events, or kept from repaired rows.
LEMMA ProjectedIsRepaired ==
    ASSUME RebuildTypes, timeline' = Projected, ~timeline.current \/ Repaired,
           \A i \in 1 .. NEvents : canon[i] \in {"done", "gone"}
    PROVE  Repaired'
BY ProjectedRows DEF Repaired, RebuildTypes

\* The types are kept by every step.
LEMMA RebuildTyped == RebuildTypes /\ RebuildNext => RebuildTypes'
<1> SUFFICES ASSUME RebuildTypes, RebuildNext PROVE RebuildTypes'
  OBVIOUS
<1>1. [timeline EXCEPT !.current = FALSE] \in [current : BOOLEAN, rows : TurnRows]
  BY DEF RebuildTypes
<1>2. Projected \in [current : BOOLEAN, rows : TurnRows]
  BY ProjectedRows
<1>3. [current |-> FALSE, rows |-> <<>>] \in [current : BOOLEAN, rows : TurnRows]
  <2>1. 0 \in 0 .. NEvents /\ <<>> \in [1 .. 0 -> Qualities]
    BY RebuildAssumption
  <2> QED
    BY <2>1 DEF TurnRows
<1>4. CASE /\ UNCHANGED <<canon, purged, reindexes>> /\ gate' \subseteq Gates
           /\ timeline' \in [current : BOOLEAN, rows : TurnRows]
  BY <1>4 DEF RebuildTypes
<1>5. CASE WorkerChecks \/ WorkerProjects \/ PurgeChecksGates \/ RepairFails \/ RestartProcess
  BY <1>2, <1>4, <1>5 DEF WorkerChecks, WorkerProjects, PurgeChecksGates, RepairFails, RestartProcess,
     RebuildTypes
<1>6. CASE RepairUsage \/ MarkForRebuild \/ RepairTimeline
  BY <1>1, <1>2, <1>4, <1>6 DEF RepairUsage, MarkForRebuild, RepairTimeline, RebuildTypes, Gates
<1>7. CASE RepairCanonical \/ ReindexCanonical
  <2>1. UNCHANGED <<timeline, purged, reindexes>> /\ gate' \subseteq Gates
    BY <1>7 DEF RepairCanonical, ReindexCanonical, RebuildTypes, Gates
  <2>2. canon' = canon \/ Rewritten(canon', {"old", "blank"})
    BY <1>7 DEF RepairCanonical, ReindexCanonical
  <2>3. /\ canon' \in [1 .. NEvents -> Qualities \cup {"gone"}]
        /\ \A i \in 1 .. NEvents : canon'[i] = "gone" => canon[i] = "gone"
    BY <2>2 DEF Rewritten, RebuildTypes, Qualities
  <2> QED
    BY <2>1, <2>3 DEF RebuildTypes
<1>8. CASE ReindexClears
  BY <1>3, <1>8 DEF ReindexClears, RebuildTypes, Qualities
<1>9. CASE ReindexChecks \/ ReindexRequests \/ ReindexProjects \/ ReindexMarks \/ ReindexFails
  BY <1>1, <1>2, <1>4, <1>9 DEF ReindexChecks, ReindexRequests, ReindexProjects, ReindexMarks,
     ReindexFails, RebuildTypes
<1>10. CASE PurgeFreezes
  BY <1>10 DEF PurgeFreezes, RebuildTypes
<1> QED
  BY <1>5, <1>6, <1>7, <1>8, <1>9, <1>10 DEF RebuildNext, Maintain, ReindexStep

\* A step before the first reindex keeps the order of repairs, gates and purge.
LEMMA RebuildKeeps == RebuildInv /\ RebuildNext => RebuildInv'
<1> SUFFICES ASSUME RebuildInv, RebuildNext, reindexes' = 0
             PROVE  (GatesFollowRepairs /\ MarkedIsRepaired /\ PurgeFollowsGates)'
  BY RebuildTyped DEF RebuildInv
<1>0. RebuildTypes /\ RebuildTypes'
  BY RebuildTyped DEF RebuildInv
<1>1. reindexes = 0 /\ ~ReindexClears
  BY <1>0 DEF RebuildNext, RebuildTypes, WorkerChecks, WorkerProjects, Maintain, RepairCanonical, RepairUsage,
     MarkForRebuild, RepairTimeline, RepairFails, RestartProcess, ReindexStep, ReindexClears,
     ReindexCanonical, ReindexChecks, ReindexRequests, ReindexProjects, ReindexMarks, ReindexFails,
     PurgeChecksGates, PurgeFreezes
<1>2. GatesFollowRepairs /\ MarkedIsRepaired /\ PurgeFollowsGates
  BY <1>1 DEF RebuildInv
<1>3. ~ReindexStep
  BY <1>1, <1>2 DEF ReindexStep, ReindexCanonical, ReindexChecks, ReindexRequests, ReindexProjects,
     ReindexMarks, ReindexFails, GatesFollowRepairs
<1>4. CASE WorkerChecks \/ PurgeChecksGates
  BY <1>2, <1>4 DEF WorkerChecks, PurgeChecksGates, GatesFollowRepairs, MarkedIsRepaired,
     PurgeFollowsGates, Repaired
<1>5. CASE WorkerProjects
  <2>0. /\ UNCHANGED <<canon, gate, purged, archiver, maint, reindex>> /\ timeline' = Projected
    BY <1>5 DEF WorkerProjects
  <2>1. GatesFollowRepairs'
    BY <1>2, <2>0 DEF GatesFollowRepairs
  <2>2. timeline'.current
    BY <1>0, <2>0, ProjectedRows
  <2>3. "timeline_projection" \in gate \/ maint = "project" => Repaired'
    BY <1>0, <1>2, <2>0, ProjectedIsRepaired DEF GatesFollowRepairs, MarkedIsRepaired
  <2>4. MarkedIsRepaired'
    BY <2>0, <2>2, <2>3 DEF MarkedIsRepaired
  <2>5. PurgeFollowsGates'
    <3>1. purged => timeline.current /\ DOMAIN timeline.rows = 1 .. NEvents
      BY <1>2 DEF PurgeFollowsGates, MarkedIsRepaired, Gates
    <3> QED
      BY <1>0, <1>2, <2>0, <3>1, ProjectedRows DEF PurgeFollowsGates
  <2> QED
    BY <2>1, <2>4, <2>5
<1>6. CASE RepairCanonical
  <2>0. /\ maint = "canonical" /\ UNCHANGED <<timeline, purged, archiver, reindex>>
        /\ "timeline_projection" \notin gate /\ gate # Gates
    BY <1>2, <1>6 DEF RepairCanonical, GatesFollowRepairs, Gates
  <2>1. ~purged /\ archiver # "gated"
    BY <1>2, <2>0 DEF PurgeFollowsGates
  <2>2. CASE Rewritten(canon', {"old", "blank"}) /\ UNCHANGED <<gate, maint>>
    <3>1. \A i \in 1 .. NEvents : canon[i] \in {"done", "gone"} => canon'[i] \in {"done", "gone"}
      BY <1>0, <2>2 DEF Rewritten, RebuildTypes
    <3> QED
      BY <1>2, <2>0, <2>1, <2>2, <3>1 DEF GatesFollowRepairs, MarkedIsRepaired, PurgeFollowsGates
  <2>3. CASE /\ \A i \in 1 .. NEvents : canon[i] \notin {"old", "blank"}
             /\ gate' = gate \cup {"canonical_blocks"} /\ maint' = "usage" /\ UNCHANGED canon
    <3>1. \A i \in 1 .. NEvents : canon[i] \in {"done", "gone"}
      BY <1>0, <2>3 DEF RebuildTypes, Qualities
    <3> QED
      BY <1>2, <2>0, <2>1, <2>3, <3>1 DEF GatesFollowRepairs, MarkedIsRepaired, PurgeFollowsGates
  <2> QED
    BY <1>6, <2>2, <2>3 DEF RepairCanonical
<1>7. CASE RepairFails
  BY <1>2, <1>7 DEF RepairFails, GatesFollowRepairs, MarkedIsRepaired, PurgeFollowsGates, Repaired
<1>8. CASE RepairUsage
  BY <1>2, <1>8 DEF RepairUsage, GatesFollowRepairs, MarkedIsRepaired, PurgeFollowsGates, Repaired, Gates
<1>9. CASE MarkForRebuild
  <2>0. /\ maint = "mark" /\ maint' = "project" /\ UNCHANGED <<canon, gate, purged, archiver, reindex>>
        /\ "timeline_projection" \notin gate /\ gate # Gates
    BY <1>2, <1>9 DEF MarkForRebuild, GatesFollowRepairs, Gates
  <2>1. ~purged /\ archiver # "gated"
    BY <1>2, <2>0 DEF PurgeFollowsGates
  <2>2. timeline'.current = FALSE
    BY <1>0, <1>9, <2>1 DEF MarkForRebuild, RebuildTypes
  <2> QED
    BY <1>2, <2>0, <2>1, <2>2 DEF GatesFollowRepairs, MarkedIsRepaired, PurgeFollowsGates
<1>10. CASE RepairTimeline
  <2>0. /\ maint = "project" /\ maint' = "done" /\ UNCHANGED <<canon, purged, archiver, reindex>>
        /\ "timeline_projection" \notin gate /\ gate # Gates /\ "canonical_blocks" \in gate
        /\ gate' = gate \cup {"timeline_projection"}
    BY <1>2, <1>10 DEF RepairTimeline, GatesFollowRepairs, Gates
  <2>1. ~purged /\ archiver # "gated"
    BY <1>2, <2>0 DEF PurgeFollowsGates
  <2>2. timeline' = Projected
    BY <1>10, <2>1 DEF RepairTimeline
  <2>3. timeline'.current
    BY <1>0, <2>2, ProjectedRows
  <2>4. Repaired'
    BY <1>0, <1>2, <2>0, <2>2, ProjectedIsRepaired DEF GatesFollowRepairs, MarkedIsRepaired
  <2> QED
    BY <1>2, <2>0, <2>1, <2>3, <2>4 DEF GatesFollowRepairs, MarkedIsRepaired, PurgeFollowsGates
<1>11. CASE RestartProcess
  <2>1. /\ UNCHANGED <<canon, timeline, gate, purged>> /\ archiver' = "idle" /\ reindex' = "idle"
        /\ maint' = FirstBehind
    BY <1>11 DEF RestartProcess
  <2>2. /\ maint' # "project"
        /\ maint' \in {"usage", "mark", "done"} => "canonical_blocks" \in gate
        /\ maint' \in {"mark", "done"} => "usage_projection" \in gate
        /\ maint' \in {"canonical", "usage", "mark"} => "timeline_projection" \notin gate
    BY <1>2, <2>1 DEF FirstBehind, GatesFollowRepairs
  <2> QED
    BY <1>2, <2>1, <2>2 DEF GatesFollowRepairs, MarkedIsRepaired, PurgeFollowsGates, Repaired
<1>12. CASE PurgeFreezes
  <2>1. CASE archiver' = "idle" /\ UNCHANGED <<canon, timeline, gate, purged, maint, reindex>>
    BY <1>2, <2>1 DEF GatesFollowRepairs, MarkedIsRepaired, PurgeFollowsGates, Repaired
  <2>2. CASE /\ archiver = "gated" /\ archiver' = "idle" /\ UNCHANGED <<timeline, gate, maint, reindex>>
             /\ purged' = TRUE /\ canon' = [i \in 1 .. NEvents |-> "gone"] /\ Through >= NEvents
    <3>1. DOMAIN timeline.rows = 1 .. NEvents
      <4>1. PICK n \in 0 .. NEvents : timeline.rows \in [1 .. n -> Qualities] /\ Through = n
        BY <1>0, RowsCounted DEF RebuildTypes, Through
      <4>2. n = NEvents
        BY <2>2, <4>1, RebuildAssumption
      <4> QED
        BY <4>1, <4>2
    <3> QED
      BY <1>2, <2>2, <3>1 DEF GatesFollowRepairs, MarkedIsRepaired, PurgeFollowsGates, Repaired
  <2> QED
    BY <1>12, <2>1, <2>2 DEF PurgeFreezes
<1> QED
  BY <1>3, <1>4, <1>5, <1>6, <1>7, <1>8, <1>9, <1>10, <1>11, <1>12 DEF RebuildNext, Maintain

\* So does a step of another part.
LEMMA RebuildStep == RebuildInv /\ [RebuildNext]_rebuildVars => RebuildInv'
<1> SUFFICES ASSUME RebuildInv, [RebuildNext]_rebuildVars PROVE RebuildInv'
  OBVIOUS
<1>1. CASE UNCHANGED rebuildVars
  BY <1>1 DEF rebuildVars, RebuildInv, RebuildTypes, GatesFollowRepairs, MarkedIsRepaired,
     PurgeFollowsGates, Repaired
<1> QED
  BY <1>1, RebuildKeeps

\* A step of the pipeline is one of the repairs, or leaves them alone.
LEMMA RebuildFocus ==
    ASSUME [Next]_pipelineVars
    PROVE  [RebuildNext]_rebuildVars
BY DEF Next, OthersRest, pipelineVars

\* An open gate means repaired rows, and a purge freezes only such, whatever
\* the worker commits meanwhile and wherever an earlier start stopped.
THEOREM RepairsAreHeld == Spec => []RepairsHold
<1>1. Init => RebuildInv
  BY RebuildStarts DEF Init
<1>2. RebuildInv /\ [Next]_pipelineVars => RebuildInv'
  BY RebuildStep, RebuildFocus
<1>3. RebuildInv => RepairsHold
  BY DEF RebuildInv, RepairsHold, GateMeansRepaired, DigestFrozenRepaired, MarkedIsRepaired,
     PurgeFollowsGates, Gates
<1> QED
  BY <1>1, <1>2, <1>3, PTL DEF Spec

-----------------------------------------------------------------------------
(* The code index.                                                         *)

AtFile == {"stat", "row", "insert", "clear", "deleted", "unsupported", "failed"}
Between == {"free", "mark", "delete", "load", "next"}

JobRecords ==
    [at : Between \cup AtFile, kind : {"none", "refresh", "startup", "background"},
     todo : SUBSET File, seen : SUBSET File, file : File \cup {NoFile},
     read : 0 .. edits, mtime : 0 .. edits,
     then : {"none", "deleted", "unsupported", "failed", "insert"},
     back : {"none", "delete", "next"}]

IndexTypes ==
    /\ edits \in Nat
    /\ disk \in [File -> 0 .. edits]
    /\ row \in [File -> [st : Status, mtime : 0 .. edits]]
    /\ facts \in [File -> Int]
    /\ job \in JobRecords

\* A pass holds a file exactly from its read to its row.
JobPlace ==
    /\ job.at \in AtFile <=> job.file # NoFile
    /\ job.at \in AtFile => job.back \in {"delete", "next"}
    /\ job.at = "clear" => job.then # "none"
    /\ job.at \in {"free", "mark", "delete", "load"} => job.back # "next"

\* What a pass knows of the file it holds.
FileInHand ==
    LET f == job.file
    IN /\ job.at \in {"stat", "row", "insert"} \/ (job.at = "clear" /\ job.then = "insert")
            => f \in raced \/ job.read = disk[f]
       /\ job.at = "row" => job.mtime # 0
       /\ job.at = "insert" \/ (job.at = "clear" /\ job.then = "insert") => row[f].st = "parsed"
       /\ job.at \in {"deleted", "unsupported", "failed"} => facts[f] = 0

ParsedHasTime == \A f \in File : row[f].st = "parsed" => row[f].mtime # 0

\* The inductive form of the index's part of CodeIntelSound.
IndexInv ==
    /\ IndexTypes /\ JobPlace /\ FileInHand /\ ParsedHasTime
    /\ ParsedIsCurrent /\ NoFactsWithoutFile /\ RunningJobIsRunning

\* Nothing is indexed at first.
LEMMA IndexStarts == IndexInit => IndexInv
BY IndexAssumption DEF IndexInit, NoJob, IndexInv, IndexTypes, JobRecords, JobPlace, FileInHand, ParsedHasTime,
   ParsedIsCurrent, NoFactsWithoutFile, RunningJobIsRunning, Status, AtFile, Between

\* A pass that only moves on, between two files, keeps everything.
LEMMA IndexMovesOn ==
    ASSUME IndexInv, UNCHANGED <<disk, row, facts, raced, edits>>,
           job'.file = NoFile, job'.at \in Between, JobPlace', IndexTypes', job.file = NoFile,
           RunningJobIsRunning'
    PROVE  IndexInv'
BY IndexAssumption DEF IndexInv, FileInHand, ParsedHasTime, ParsedIsCurrent, NoFactsWithoutFile, Between,
   IndexTypes

\* A pass at rest has the type of a job.
LEMMA NoJobType ==
    ASSUME edits \in Nat
    PROVE  /\ NoJob \in JobRecords
           /\ NoJob.file = NoFile /\ NoJob.at = "free" /\ NoJob.back = "none"
BY DEF NoJob, JobRecords, Between

\* An edit gives a version no row and no pass has seen.
LEMMA EditKeeps ==
    ASSUME IndexInv, NEW f \in File, NEW there \in BOOLEAN, NEW big \in BOOLEAN, Edit(f, there, big)
    PROVE  IndexInv'
<1>0. /\ IndexTypes /\ edits \in Nat /\ edits' = edits + 1 /\ UNCHANGED <<row, facts, job, jobRow>>
      /\ disk' = [disk EXCEPT ![f] = IF there THEN edits + 1 ELSE 0]
      /\ raced' = IF job.file = f THEN raced \cup {f} ELSE raced
  BY DEF Edit, IndexInv, IndexTypes, JobRecords
<1>1. 0 .. edits \subseteq 0 .. edits'
  BY <1>0
<1>2. IndexTypes'
  <2>1. disk' \in [File -> 0 .. edits']
    BY <1>0, <1>1 DEF IndexTypes, JobRecords
  <2>2. row' \in [File -> [st : Status, mtime : 0 .. edits']]
    BY <1>0, <1>1 DEF IndexTypes, JobRecords
  <2>3. job'.read \in 0 .. edits' /\ job'.mtime \in 0 .. edits'
    BY <1>0, <1>1 DEF IndexTypes, JobRecords
  <2> QED
    BY <1>0, <2>1, <2>2, <2>3 DEF IndexTypes, JobRecords
<1>3. ParsedIsCurrent'
  <2> SUFFICES ASSUME NEW g \in File, row[g].st = "parsed", row[g].mtime = disk'[g], g \notin raced',
                      job.file # g
               PROVE  facts[g] = disk'[g]
    BY <1>0 DEF ParsedIsCurrent
  <2>1. g # f
    <3> SUFFICES ASSUME g = f PROVE FALSE
      OBVIOUS
    <3>1. row[f].mtime \in 0 .. edits /\ row[f].mtime # 0
      BY <1>0 DEF IndexTypes, JobRecords, IndexInv, ParsedHasTime
    <3>2. disk'[f] = edits + 1 \/ disk'[f] = 0
      BY <1>0 DEF IndexTypes, JobRecords
    <3> QED
      BY <1>0, <3>1, <3>2
  <2>2. disk'[g] = disk[g]
    BY <1>0, <2>1 DEF IndexTypes, JobRecords
  <2> QED
    BY <1>0, <2>2 DEF IndexInv, ParsedIsCurrent
<1>4. FileInHand'
  <2>1. job.file \in raced \/ job.read = disk[job.file] => job.file \in raced' \/ job.read = disk'[job.file]
    BY <1>0 DEF IndexTypes, JobRecords
  <2> QED
    BY <1>0, <2>1 DEF IndexInv, FileInHand
<1> QED
  BY <1>0, <1>2, <1>3, <1>4 DEF IndexInv, JobPlace, ParsedHasTime, NoFactsWithoutFile, RunningJobIsRunning

\* A pass starts, marks, looks for deletions or loads its list.
LEMMA BetweenFilesKeeps ==
    ASSUME IndexInv,
           \/ \E kind \in {"startup", "refresh"} : \E scope \in SUBSET File : Discover(kind, scope)
           \/ Deletes \/ Marked \/ Background \/ LoadPending \/ FinishIndexJob
    PROVE  IndexInv'
<1>0. IndexTypes /\ JobPlace /\ RunningJobIsRunning /\ UNCHANGED <<disk, row, facts, raced, edits>>
  BY DEF IndexInv, Discover, Deletes, Marked, Background, LoadPending, FinishIndexJob
<1>1. CASE \E kind \in {"startup", "refresh"} : \E scope \in SUBSET File : Discover(kind, scope)
  <2>1. PICK kind \in {"startup", "refresh"}, scope \in SUBSET File : Discover(kind, scope)
    BY <1>1
  <2>2. /\ job = NoJob /\ jobRow' = jobRow
        /\ job' = [NoJob EXCEPT !.kind = kind, !.at = "mark", !.seen = scope, !.todo = Candidates \cap scope]
    BY <2>1 DEF Discover
  <2>3. /\ job'.file = NoFile /\ job.file = NoFile /\ job'.at = "mark" /\ job.at = "free"
        /\ job'.back = "none" /\ job.back = "none"
    BY <2>2 DEF NoJob
  <2>4. IndexTypes'
    BY <1>0, <2>2 DEF IndexTypes, JobRecords, NoJob, Between, Candidates
  <2>5. JobPlace' /\ RunningJobIsRunning'
    BY <1>0, <2>2, <2>3 DEF JobPlace, RunningJobIsRunning, AtFile
  <2> QED
    BY <1>0, <2>3, <2>4, <2>5, IndexMovesOn DEF Between
<1>2. CASE Deletes \/ Marked
  <2>1. job.at \in {"mark", "delete"} /\ jobRow' = jobRow
    BY <1>2 DEF Deletes, Marked
  <2>2. job.file = NoFile /\ job.back # "next"
    BY <1>0, <2>1 DEF JobPlace, AtFile
  <2>3. /\ job'.at \in {"delete", "load", "free"} /\ job'.file = NoFile /\ job'.back # "next"
        /\ IndexTypes'
    <3>0. edits \in Nat /\ job \in JobRecords
      BY <1>0 DEF IndexTypes
    <3>1. CASE job' = NoJob
      BY <1>0, <3>0, <3>1, NoJobType DEF IndexTypes, JobRecords
    <3>2. CASE job' = [job EXCEPT !.at = "delete", !.todo = job.seen \cap Listed]
      <4>1. job' \in JobRecords /\ job'.at = "delete" /\ job'.file = NoFile /\ job'.back = job.back
        BY <2>2, <3>0, <3>2 DEF JobRecords, Between
      <4> QED
        BY <1>0, <2>2, <4>1 DEF IndexTypes, JobRecords
    <3>3. CASE job' = [job EXCEPT !.at = "load"]
      <4>1. job' \in JobRecords /\ job'.at = "load" /\ job'.file = NoFile /\ job'.back = job.back
        BY <2>2, <3>0, <3>3 DEF JobRecords, Between
      <4> QED
        BY <1>0, <2>2, <4>1 DEF IndexTypes, JobRecords
    <3> QED
      BY <1>2, <3>1, <3>2, <3>3 DEF Deletes, Marked
  <2>4. JobPlace' /\ RunningJobIsRunning'
    BY <1>0, <2>1, <2>2, <2>3 DEF JobPlace, RunningJobIsRunning, AtFile
  <2> QED
    BY <1>0, <2>2, <2>3, <2>4, IndexMovesOn DEF Between
<1>3. CASE Background
  <2>1. job = NoJob /\ job' = [NoJob EXCEPT !.kind = "background", !.at = "load"] /\ jobRow' = jobRow
    BY <1>3 DEF Background
  <2>2. /\ job'.file = NoFile /\ job.file = NoFile /\ job'.at = "load" /\ job.at = "free"
        /\ job'.back = "none" /\ job.back = "none"
    BY <2>1 DEF NoJob
  <2>3. IndexTypes'
    BY <1>0, <2>1 DEF IndexTypes, JobRecords, NoJob, Between
  <2>4. JobPlace' /\ RunningJobIsRunning'
    BY <1>0, <2>1, <2>2 DEF JobPlace, RunningJobIsRunning, AtFile
  <2> QED
    BY <1>0, <2>2, <2>3, <2>4, IndexMovesOn DEF Between
<1>4. CASE LoadPending
  <2>1. job.at = "load" /\ job.file = NoFile /\ job.back # "next" /\ jobRow # "running"
    BY <1>0, <1>4 DEF LoadPending, JobPlace, AtFile, RunningJobIsRunning
  <2>2. /\ job'.file = NoFile /\ IndexTypes'
        /\ \/ job'.at = "next"
           \/ job'.at = "free" /\ job'.back = "none" /\ jobRow' = jobRow
    <3>0. edits \in Nat /\ job \in JobRecords
      BY <1>0 DEF IndexTypes
    <3>1. CASE job' = NoJob /\ jobRow' = jobRow
      BY <1>0, <3>0, <3>1, NoJobType DEF IndexTypes, JobRecords
    <3>2. CASE job' = [job EXCEPT !.at = "next", !.todo = {f \in File : row[f].st = "pending"}]
      <4>1. job' \in JobRecords /\ job'.at = "next" /\ job'.file = NoFile
        BY <2>1, <3>0, <3>2 DEF JobRecords, Between
      <4> QED
        BY <1>0, <4>1 DEF IndexTypes, JobRecords
    <3> QED
      BY <1>4, <3>1, <3>2 DEF LoadPending, Ends
  <2>3. JobPlace' /\ RunningJobIsRunning'
    BY <2>1, <2>2 DEF JobPlace, RunningJobIsRunning, AtFile
  <2> QED
    BY <1>0, <2>1, <2>2, <2>3, IndexMovesOn DEF Between
<1>5. CASE FinishIndexJob
  <2>1. job.at = "next" /\ job' = NoJob /\ jobRow' = "complete"
    BY <1>5 DEF FinishIndexJob, Ends
  <2>2. job.file = NoFile /\ job'.file = NoFile /\ job'.at = "free" /\ job'.back = "none"
    BY <1>0, <2>1 DEF JobPlace, AtFile, NoJob
  <2>3. IndexTypes'
    BY <1>0, <2>1 DEF IndexTypes, JobRecords, NoJob, Between
  <2>4. JobPlace' /\ RunningJobIsRunning'
    BY <2>1, <2>2 DEF JobPlace, RunningJobIsRunning, AtFile
  <2> QED
    BY <1>0, <2>2, <2>3, <2>4, IndexMovesOn DEF Between
<1> QED
  BY <1>1, <1>2, <1>3, <1>4, <1>5

\* A file that is marked starts anew.
LEMMA MarkKeeps ==
    ASSUME IndexInv, NEW f \in File, Mark(f)
    PROVE  IndexInv'
<1>0. IndexTypes /\ JobPlace /\ RunningJobIsRunning
  BY DEF IndexInv
<1>1. job.at = "mark" /\ job.file = NoFile /\ job.back # "next" /\ jobRow # "running"
  BY <1>0 DEF Mark, JobPlace, AtFile, RunningJobIsRunning
<1>2. /\ job'.at \in {"mark", "free"} /\ job'.file = NoFile /\ job'.back # "next"
      /\ job' \in JobRecords
  <2>0. edits \in Nat /\ job \in JobRecords
    BY <1>0 DEF IndexTypes
  <2>1. CASE job' = NoJob
    BY <2>0, <2>1, NoJobType DEF Mark, JobRecords
  <2>2. CASE job' = [job EXCEPT !.todo = @ \ {f}, !.seen = @ \ {f}]
    BY <1>1, <2>0, <2>2 DEF Mark, JobRecords, Between
  <2> QED
    BY <2>1, <2>2 DEF Mark, Ends
<1>3. UNCHANGED <<disk, facts, jobRow, edits>>
  BY DEF Mark
<1>4. CASE UNCHANGED <<row, raced>>
  <2>1. IndexTypes' /\ JobPlace' /\ RunningJobIsRunning'
    BY <1>0, <1>1, <1>2, <1>3, <1>4 DEF IndexTypes, JobRecords, JobPlace, RunningJobIsRunning, AtFile
  <2> QED
    BY <1>1, <1>2, <1>3, <1>4, <2>1, IndexMovesOn DEF Between
<1>5. CASE row' = [row EXCEPT ![f] = [st |-> "pending", mtime |-> disk[f]]] /\ raced' = raced \ {f}
  <2>1. IndexTypes' /\ JobPlace' /\ RunningJobIsRunning'
    BY <1>0, <1>1, <1>2, <1>3, <1>5 DEF IndexTypes, JobRecords, JobPlace, RunningJobIsRunning, AtFile, Status
  <2>2. row'[f].st = "pending" /\ \A g \in File : g # f => row'[g] = row[g]
    BY <1>0, <1>5 DEF IndexTypes, JobRecords
  <2>3. ParsedHasTime' /\ NoFactsWithoutFile'
    BY <1>3, <2>2 DEF IndexInv, ParsedHasTime, NoFactsWithoutFile
  <2>4. ParsedIsCurrent'
    BY <1>1, <1>2, <1>3, <1>5, <2>2, IndexAssumption DEF IndexInv, ParsedIsCurrent
  <2>5. FileInHand'
    BY <1>2 DEF FileInHand
  <2> QED
    BY <2>1, <2>3, <2>4, <2>5 DEF IndexInv
<1> QED
  BY <1>4, <1>5 DEF Mark

\* A file is taken in hand; its row and facts are as they were.
LEMMA TakeFileKeeps ==
    ASSUME IndexInv, NEW f \in File, DeleteNext(f) \/ ReadFile(f)
    PROVE  IndexInv'
<1>0. IndexTypes /\ JobPlace /\ RunningJobIsRunning /\ UNCHANGED <<disk, row, facts, raced, edits, jobRow>>
  BY DEF IndexInv, DeleteNext, ReadFile
<1>1. job.file = NoFile /\ f # NoFile
  BY <1>0, IndexAssumption DEF DeleteNext, ReadFile, JobPlace, AtFile
<1>2. /\ job'.file = f /\ job'.at \in {"stat", "clear"}
      /\ job'.at = "clear" => job'.then \in {"deleted", "unsupported"}
      /\ job'.back = IF job.at = "delete" THEN "delete" ELSE "next"
      /\ job'.at = "stat" => job'.read = disk[f]
      /\ job.at \in {"delete", "next"}
  BY <1>0 DEF DeleteNext, ReadFile, IndexTypes, JobRecords
<1>3. IndexTypes'
  <2>1. job \in JobRecords /\ disk[f] \in 0 .. edits
    BY <1>0 DEF IndexTypes
  <2>2. CASE DeleteNext(f)
    <3>1. job' \in JobRecords
      BY <2>1, <2>2 DEF DeleteNext, JobRecords, AtFile
    <3> QED
      BY <1>0, <3>1 DEF IndexTypes, JobRecords
  <2>3. CASE ReadFile(f)
    <3>1. job' \in JobRecords
      <4> DEFINE a == IF f \in Candidates THEN "stat" ELSE "clear"
                 b == IF disk[f] = 0 THEN "deleted" ELSE "unsupported"
                 td == job.todo \ {f}
      <4>1. job' = [job EXCEPT !.file = f, !.todo = td, !.read = disk[f], !.back = "next", !.at = a, !.then = b]
        BY <2>3 DEF ReadFile
      <4>2. a \in AtFile /\ b \in {"deleted", "unsupported"} /\ td \in SUBSET File
        BY <2>1 DEF AtFile, JobRecords
      <4> HIDE DEF a, b, td
      <4> QED
        BY <2>1, <4>1, <4>2 DEF JobRecords
    <3> QED
      BY <1>0, <3>1 DEF IndexTypes, JobRecords
  <2> QED
    BY <2>2, <2>3
<1>4. JobPlace' /\ RunningJobIsRunning'
  BY <1>0, <1>1, <1>2 DEF JobPlace, RunningJobIsRunning, AtFile
<1>5. FileInHand'
  BY <1>0, <1>2 DEF FileInHand
<1> QED
  BY <1>0, <1>1, <1>3, <1>4, <1>5, IndexAssumption DEF IndexInv, ParsedHasTime, ParsedIsCurrent,
     NoFactsWithoutFile

\* The file in hand goes from its metadata to its row.
LEMMA StatKeeps ==
    ASSUME IndexInv, StatFile \/ FileFails \/ StoreRow
    PROVE  IndexInv'
<1>0. IndexTypes /\ JobPlace /\ FileInHand /\ RunningJobIsRunning
      /\ UNCHANGED <<disk, facts, raced, edits, jobRow>>
  BY DEF IndexInv, StatFile, FileFails, StoreRow
<1>1. job.at \in {"stat", "row", "insert"} /\ job.file \in File /\ job.back \in {"delete", "next"}
  BY <1>0 DEF StatFile, FileFails, StoreRow, JobPlace, AtFile, IndexTypes, JobRecords
<1>2. CASE StatFile \/ FileFails
  <2>1. /\ row' = row /\ job'.file = job.file /\ job'.back = job.back /\ job'.read = job.read
        /\ \/ job'.at = "clear" /\ job'.then = "failed"
           \/ job'.at = "row" /\ job'.mtime # 0
    BY <1>0, <1>2 DEF StatFile, FileFails, IndexTypes, JobRecords
  <2>2. IndexTypes'
    <3>1. job \in JobRecords /\ disk[job.file] \in 0 .. edits
      BY <1>0, <1>1 DEF IndexTypes
    <3>2. "clear" \in AtFile /\ "row" \in AtFile
      BY DEF AtFile
    <3>3. \/ job' = [job EXCEPT !.at = "clear", !.then = "failed"]
          \/ job' = [job EXCEPT !.at = "row", !.mtime = disk[job.file]]
      BY <1>2 DEF StatFile, FileFails
    <3>4. job' \in JobRecords
      <4> DEFINE d == disk[job.file]
      <4>1. CASE job' = [job EXCEPT !.at = "clear", !.then = "failed"]
        BY <3>1, <3>2, <4>1 DEF JobRecords
      <4>2. CASE job' = [job EXCEPT !.at = "row", !.mtime = d]
        <5> HIDE DEF d
        <5>1. d \in 0 .. edits
          BY <3>1 DEF d
        <5> QED
          BY <3>1, <3>2, <4>2, <5>1 DEF JobRecords
      <4> QED
        BY <3>3, <4>1, <4>2
    <3> QED
      BY <1>0, <2>1, <3>4 DEF IndexTypes, JobRecords
  <2>3. JobPlace' /\ RunningJobIsRunning'
    BY <1>0, <1>1, <2>1, IndexAssumption DEF JobPlace, RunningJobIsRunning, AtFile
  <2>4. FileInHand'
    BY <1>0, <1>1, <2>1 DEF FileInHand
  <2> QED
    BY <1>0, <2>1, <2>2, <2>3, <2>4 DEF IndexInv, ParsedHasTime, ParsedIsCurrent, NoFactsWithoutFile
<1>3. CASE StoreRow
  <2>1. /\ job.at = "row" /\ job'.file = job.file /\ job'.back = job.back /\ job'.read = job.read
        /\ job'.at = "clear" /\ job'.then = "insert"
        /\ row' = [row EXCEPT ![job.file] = [st |-> "parsed", mtime |-> job.mtime]]
    BY <1>0, <1>3 DEF StoreRow, IndexTypes, JobRecords
  <2>2. IndexTypes'
    <3>1. job' \in JobRecords
      BY <1>0, <1>3 DEF StoreRow, IndexTypes, JobRecords, AtFile
    <3>2. row' \in [File -> [st : Status, mtime : 0 .. edits]]
      BY <1>0, <2>1 DEF IndexTypes, JobRecords, Status
    <3> QED
      BY <1>0, <3>1, <3>2 DEF IndexTypes, JobRecords
  <2>3. JobPlace' /\ RunningJobIsRunning'
    BY <1>0, <1>1, <2>1, IndexAssumption DEF JobPlace, RunningJobIsRunning, AtFile
  <2>4. /\ row'[job.file].st = "parsed" /\ row'[job.file].mtime = job.mtime
        /\ \A g \in File : g # job.file => row'[g] = row[g]
    BY <1>0, <1>1, <2>1 DEF IndexTypes, JobRecords
  <2>5. FileInHand'
    BY <1>0, <1>1, <2>1, <2>4 DEF FileInHand
  <2>6. job.mtime # 0
    BY <1>0, <2>1 DEF FileInHand
  <2> QED
    BY <1>0, <2>1, <2>2, <2>3, <2>4, <2>5, <2>6 DEF IndexInv, ParsedHasTime, ParsedIsCurrent,
       NoFactsWithoutFile
<1> QED
  BY <1>2, <1>3

\* The facts of the file in hand go, come, or its row says why there are none.
LEMMA FactsKeep ==
    ASSUME IndexInv, ClearFacts \/ InsertFacts \/ MarkRow
    PROVE  IndexInv'
<1>0. IndexTypes /\ JobPlace /\ FileInHand /\ RunningJobIsRunning
      /\ UNCHANGED <<disk, raced, edits, jobRow>>
  BY DEF IndexInv, ClearFacts, InsertFacts, MarkRow
<1>1. job.at \in AtFile /\ job.file \in File /\ job.back \in {"delete", "next"}
  BY <1>0 DEF ClearFacts, InsertFacts, MarkRow, JobPlace, AtFile, IndexTypes, JobRecords
<1>2. CASE ClearFacts
  <2>1. /\ job.at = "clear" /\ row' = row /\ job'.file = job.file /\ job'.back = job.back
        /\ job'.at = job.then /\ job'.read = job.read /\ job'.then = job.then
        /\ facts' = [facts EXCEPT ![job.file] = 0]
    BY <1>0, <1>2 DEF ClearFacts, IndexTypes, JobRecords
  <2>2. job.then \in {"deleted", "unsupported", "failed", "insert"}
    BY <1>0, <2>1 DEF JobPlace, IndexTypes, JobRecords
  <2>3. IndexTypes'
    <3>1. job \in JobRecords /\ job.then \in AtFile /\ facts \in [File -> Int]
      BY <1>0, <2>2 DEF IndexTypes, AtFile
    <3>2. job' \in JobRecords
      <4>1. job' = [job EXCEPT !.at = job.then]
        BY <1>2 DEF ClearFacts
      <4> QED
        BY <3>1, <4>1 DEF JobRecords
    <3>3. facts' \in [File -> Int]
      <4>1. 0 \in Int
        OBVIOUS
      <4> QED
        BY <2>1, <3>1, <4>1
    <3> QED
      BY <1>0, <2>1, <3>2, <3>3 DEF IndexTypes, JobRecords
  <2>4. JobPlace' /\ RunningJobIsRunning'
    BY <1>0, <1>1, <2>1, <2>2, IndexAssumption DEF JobPlace, RunningJobIsRunning, AtFile
  <2>5. facts'[job.file] = 0 /\ \A g \in File : g # job.file => facts'[g] = facts[g]
    BY <1>0, <1>1, <2>1 DEF IndexTypes, JobRecords
  <2>6. FileInHand'
    BY <1>0, <1>1, <2>1, <2>2, <2>5 DEF FileInHand
  <2> QED
    BY <1>0, <2>1, <2>3, <2>4, <2>5, <2>6 DEF IndexInv, ParsedHasTime, ParsedIsCurrent, NoFactsWithoutFile
<1>3. CASE InsertFacts /\ facts[job.file] = 0
  <2>1. job.at = "insert" /\ UNCHANGED <<row, job>> /\ facts' = [facts EXCEPT ![job.file] = -1]
    BY <1>3 DEF InsertFacts
  <2>2. IndexTypes'
    <3>1. -1 \in Int /\ facts \in [File -> Int]
      BY <1>0 DEF IndexTypes
    <3>2. facts' \in [File -> Int]
      BY <2>1, <3>1
    <3> QED
      BY <1>0, <2>1, <3>2 DEF IndexTypes, JobRecords
  <2>3. \A g \in File : g # job.file => facts'[g] = facts[g]
    BY <1>0, <2>1 DEF IndexTypes, JobRecords
  <2>4. row[job.file].st = "parsed"
    BY <1>0, <2>1 DEF FileInHand
  <2> QED
    BY <1>0, <2>1, <2>2, <2>3, <2>4 DEF IndexInv, JobPlace, FileInHand, ParsedHasTime, ParsedIsCurrent,
       NoFactsWithoutFile, RunningJobIsRunning
<1>4. CASE InsertFacts /\ facts[job.file] # 0
  <2>1. /\ job.at = "insert" /\ row' = row /\ facts' = [facts EXCEPT ![job.file] = job.read]
        /\ job' = FileDone
    BY <1>4 DEF InsertFacts
  <2>2. job'.file = NoFile /\ job'.at = job.back /\ job'.back = job.back /\ IndexTypes'
    <3>1. job' \in JobRecords /\ job'.file = NoFile /\ job'.at = job.back /\ job'.back = job.back
      BY <1>0, <1>1, <2>1 DEF FileDone, IndexTypes, JobRecords, Between
    <3>2. job.read \in Int /\ facts \in [File -> Int]
      BY <1>0 DEF IndexTypes, JobRecords
    <3>3. facts' \in [File -> Int]
      BY <2>1, <3>2
    <3> QED
      BY <1>0, <2>1, <3>1, <3>3 DEF IndexTypes, JobRecords
  <2>3. JobPlace' /\ RunningJobIsRunning'
    BY <1>0, <1>1, <2>2 DEF JobPlace, RunningJobIsRunning, AtFile
  <2>4. facts'[job.file] = job.read /\ \A g \in File : g # job.file => facts'[g] = facts[g]
    BY <1>0, <1>1, <2>1 DEF IndexTypes, JobRecords
  <2>5. row[job.file].st = "parsed" /\ (job.file \in raced \/ job.read = disk[job.file])
    BY <1>0, <2>1 DEF FileInHand
  <2>6. FileInHand'
    BY <1>1, <2>2 DEF FileInHand
  <2> QED
    BY <1>0, <2>1, <2>2, <2>3, <2>4, <2>5, <2>6 DEF IndexInv, ParsedHasTime, ParsedIsCurrent,
       NoFactsWithoutFile
<1>5. CASE MarkRow
  <2>1. /\ job.at \in {"deleted", "unsupported", "failed"} /\ facts' = facts
        /\ row' = [row EXCEPT ![job.file].st = job.at] /\ job' = FileDone
    BY <1>5 DEF MarkRow
  <2>2. /\ job'.file = NoFile /\ job'.at = job.back /\ job'.back = job.back
        /\ job' \in JobRecords
    BY <1>0, <1>1, <2>1 DEF FileDone, IndexTypes, JobRecords, Between
  <2>3. JobPlace' /\ RunningJobIsRunning'
    BY <1>0, <1>1, <2>1, <2>2 DEF JobPlace, RunningJobIsRunning, AtFile
  <2>4. row'[job.file].st = job.at /\ \A g \in File : g # job.file => row'[g] = row[g]
    BY <1>0, <1>1, <2>1 DEF IndexTypes, JobRecords
  <2>5. IndexTypes'
    <3>1. row \in [File -> [st : Status, mtime : 0 .. edits]] /\ job.at \in Status
      BY <1>0, <2>1 DEF IndexTypes, Status
    <3>2. row' \in [File -> [st : Status, mtime : 0 .. edits]]
      BY <1>1, <2>1, <3>1
    <3> QED
      BY <1>0, <2>1, <2>2, <3>2 DEF IndexTypes, JobRecords
  <2>6. facts[job.file] = 0
    BY <1>0, <2>1 DEF FileInHand
  <2>7. FileInHand'
    BY <1>1, <2>2 DEF FileInHand
  <2> QED
    BY <1>0, <2>1, <2>2, <2>3, <2>4, <2>5, <2>6, <2>7 DEF IndexInv, ParsedHasTime, ParsedIsCurrent,
       NoFactsWithoutFile
<1> QED
  BY <1>2, <1>3, <1>4, <1>5

\* A restart cuts off at most one file, and cancels the job row.
LEMMA RestartKeeps ==
    ASSUME IndexInv, Restart
    PROVE  IndexInv'
<1>0. /\ IndexTypes /\ JobPlace /\ UNCHANGED <<disk, row, facts, edits>> /\ job' = NoJob
      /\ raced' = IF job.file # NoFile THEN raced \cup {job.file} ELSE raced
      /\ jobRow' # "running"
  BY DEF IndexInv, Restart, Ends, Cancelled
<1>1. job'.file = NoFile /\ job'.at = "free" /\ job'.back = "none"
  BY <1>0 DEF NoJob
<1>2. IndexTypes'
  BY <1>0 DEF IndexTypes, JobRecords, NoJob, Between
<1>3. JobPlace' /\ RunningJobIsRunning' /\ FileInHand'
  BY <1>0, <1>1 DEF JobPlace, RunningJobIsRunning, FileInHand, AtFile
<1>4. ParsedIsCurrent'
  BY <1>0, <1>1, IndexAssumption DEF IndexInv, ParsedIsCurrent
<1> QED
  BY <1>0, <1>2, <1>3, <1>4 DEF IndexInv, ParsedHasTime, NoFactsWithoutFile

\* Every step keeps rows, facts and the pass in agreement.
LEMMA IndexKeeps == IndexInv /\ IndexNext => IndexInv'
<1> SUFFICES ASSUME IndexInv, IndexNext PROVE IndexInv'
  OBVIOUS
<1>1. CASE \E f \in File : Edit(f, FALSE, FALSE) \/ \E big \in BOOLEAN : Edit(f, TRUE, big)
  BY <1>1, EditKeeps
<1>2. CASE Discover("startup", File) \/ \E scope \in {File} \cup {{f} : f \in File} : Discover("refresh", scope)
  BY <1>2, BetweenFilesKeeps
<1>3. CASE Background \/ Deletes \/ Marked \/ LoadPending \/ FinishIndexJob
  BY <1>3, BetweenFilesKeeps
<1>4. CASE \E f \in File : Mark(f)
  BY <1>4, MarkKeeps
<1>5. CASE \E f \in File : DeleteNext(f) \/ ReadFile(f)
  BY <1>5, TakeFileKeeps
<1>6. CASE StatFile \/ FileFails \/ StoreRow
  BY <1>6, StatKeeps
<1>7. CASE ClearFacts \/ InsertFacts \/ MarkRow
  BY <1>7, FactsKeep
<1>8. CASE Restart
  BY <1>8, RestartKeeps
<1> QED
  BY <1>1, <1>2, <1>3, <1>4, <1>5, <1>6, <1>7, <1>8 DEF IndexNext, IndexStep

-----------------------------------------------------------------------------
(* The language servers.                                                   *)

WithServer == {"ask", "sync", "query", "wait", "told"}
WithSlot == {"peek", "clear", "enter", "spawn", "wipe"}
Holding == {"sync", "query", "wait"}
Parting == {"reset", "wipe", "done"}
LspSteps == {"new", "find", "expire", "room", "insert", "reset", "done"} \cup WithServer \cup WithSlot

Messages == [id : Request, doc : Nat]
Servers == [up : BOOLEAN, lock : 0 .. MaxRequest, known : Nat, doc : Nat, torn : BOOLEAN,
            pending : SUBSET Request, asked : SUBSET Messages]
Navigations == [at : LspSteps, root : Root \cup {"none"}, text : Nat, slot : 0 .. MaxRequest,
                server : 0 .. MaxRequest, back : {"none", "expire", "room"}, answer : Nat]

\* What a request names at its step is there.
Well(q) ==
    /\ q \in Navigations
    /\ q.at \notin {"new", "done"} => q.root \in Root
    /\ q.at \in WithServer => q.server \in Request
    /\ q.at \in WithSlot => q.slot \in Request
    /\ q.at = "clear" => q.back \in {"expire", "room"}

LspTypes ==
    /\ source \in [Root -> Nat]
    /\ slots \in [Root -> 0 .. MaxRequest]
    /\ slot \in [Request -> [client : 0 .. MaxRequest, lock : 0 .. MaxRequest]]
    /\ server \in [Request -> Servers]
    /\ request \in [Request -> Navigations]
    /\ \A i \in Request : Well(request[i])

\* A request that talks to a server holds its lock, and the fingerprint is of
\* its text.
HoldersLock ==
    \A i \in Request : request[i].at \in Holding =>
        server[request[i].server].lock = i /\ server[request[i].server].known = request[i].text

\* And a lock is held by a request that talks to that server.
LocksAreHeld ==
    \A s \in Request : server[s].lock # 0 =>
        /\ server[s].lock \in Request
        /\ request[server[s].lock].at \in Holding /\ request[server[s].lock].server = s

\* Only a request that is sending its document leaves the two sides apart.
DocumentsAgree ==
    \A s \in Request :
        /\ server[s].up /\ ~server[s].torn
        /\ server[s].lock = 0 \/ request[server[s].lock].at # "sync"
        => server[s].known = server[s].doc

\* A question on its way is of a request that waits for it, or gave up for good.
QuestionsAreAsked ==
    \A s \in Request :
        /\ \A i \in server[s].pending :
              request[i].at = "done" \/ (request[i].at = "wait" /\ request[i].server = s)
        /\ \A m \in server[s].asked :
              /\ request[m.id].at \in {"wait", "told"} \cup Parting
              /\ request[m.id].at = "wait" =>
                    request[m.id].server = s /\ (m.doc = request[m.id].text \/ server[s].torn)

\* The inductive form of the servers' part of CodeIntelSound.
LspInv ==
    /\ LspTypes /\ HoldersLock /\ LocksAreHeld /\ DocumentsAgree /\ QuestionsAreAsked
    /\ AnswersMatchSource

\* The pool starts empty and nobody has asked.
LEMMA PoolStarts == LspInit => LspInv
<1> SUFFICES ASSUME LspInit PROVE LspInv
  OBVIOUS
<1>1. 0 \in 0 .. MaxRequest
  BY LspAssumption
<1>2. NewServer \in Servers /\ EmptySlot \in [client : 0 .. MaxRequest, lock : 0 .. MaxRequest]
  BY <1>1 DEF NewServer, EmptySlot, Servers
<1>3. NotYet \in Navigations /\ NotYet.at = "new"
  BY <1>1 DEF NotYet, Gone, Navigations, LspSteps
<1>4. \A i \in Request : request[i] = NotYet /\ server[i] = NewServer
  BY DEF LspInit
<1>5. LspTypes
  BY <1>1, <1>2, <1>3, <1>4 DEF LspInit, LspTypes, Well, WithServer, WithSlot
<1> QED
  BY <1>3, <1>4, <1>5 DEF LspInv, HoldersLock, LocksAreHeld, Holding, DocumentsAgree, QuestionsAreAsked, NewServer,
     AnswersMatchSource, AtStep

\* A request that holds no server moves to a step where it holds none either:
\* the servers do not notice.
LEMMA MoveKeeps ==
    ASSUME LspInv, NEW i \in Request, LspTypes', server' = server,
           \A j \in Request : j # i => request'[j] = request[j],
           request[i].at \notin Holding \cup {"done"},
           request'[i].at \notin Holding \cup {"told"},
           request[i].at \in {"told"} \cup Parting => request'[i].at \in Parting
    PROVE  LspInv'
<1>1. \A s \in Request : /\ server[s].pending \subseteq Request /\ server[s].asked \subseteq Messages
                         /\ server[s].lock \in 0 .. MaxRequest
  BY DEF LspInv, LspTypes, Servers
<1>2. \A s \in Request : \A m \in server[s].asked : m.id \in Request
  BY <1>1 DEF Messages
<1>3. HoldersLock'
  BY DEF LspInv, HoldersLock, Holding
<1>7. LocksAreHeld'
  BY DEF LspInv, LocksAreHeld
<1>4. DocumentsAgree'
  <2> SUFFICES ASSUME NEW s \in Request, server[s].up, ~server[s].torn,
                      server[s].lock = 0 \/ request'[server[s].lock].at # "sync"
               PROVE  server[s].known = server[s].doc
    BY DEF DocumentsAgree
  <2>1. server[s].lock = 0 \/ server[s].lock \in Request
    BY <1>1, LspAssumption DEF Request
  <2> QED
    BY <2>1 DEF LspInv, DocumentsAgree, Holding
<1>5. QuestionsAreAsked'
  <2> SUFFICES ASSUME NEW s \in Request
               PROVE  /\ \A j \in server[s].pending :
                           request'[j].at = "done" \/ (request'[j].at = "wait" /\ request'[j].server = s)
                      /\ \A m \in server[s].asked :
                           /\ request'[m.id].at \in {"wait", "told"} \cup Parting
                           /\ request'[m.id].at = "wait" =>
                                 /\ request'[m.id].server = s
                                 /\ m.doc = request'[m.id].text \/ server[s].torn
    BY DEF QuestionsAreAsked
  <2>1. \A j \in server[s].pending : j # i
    BY DEF LspInv, QuestionsAreAsked, Holding
  <2>2. \A m \in server[s].asked : m.id = i => request'[i].at \in Parting
    BY DEF LspInv, QuestionsAreAsked, Holding
  <2>3. "wait" \notin Parting
    BY DEF Parting
  <2> QED
    BY <1>1, <1>2, <2>1, <2>2, <2>3 DEF LspInv, QuestionsAreAsked
<1>6. AnswersMatchSource'
  BY DEF LspInv, AnswersMatchSource, AtStep
<1> QED
  BY <1>3, <1>4, <1>5, <1>6, <1>7 DEF LspInv

\* What a request names, as plain facts.
LEMMA NavigationFacts ==
    ASSUME LspTypes, NEW i \in Request
    PROVE  /\ request[i] \in Navigations /\ Well(request[i])
           /\ request[i].at \in LspSteps /\ request[i].text \in Nat /\ request[i].answer \in Nat
           /\ request[i].slot \in 0 .. MaxRequest /\ request[i].server \in 0 .. MaxRequest
           /\ request[i].back \in {"none", "expire", "room"} /\ request[i].root \in Root \cup {"none"}
           /\ i \in 0 .. MaxRequest /\ 0 \in 0 .. MaxRequest /\ i # 0
           /\ Gone \in Navigations /\ Well(Gone) /\ Gone.at = "done"
<1>1. i \in 0 .. MaxRequest /\ 0 \in 0 .. MaxRequest /\ i # 0
  BY LspAssumption DEF Request
<1>2. request[i] \in Navigations /\ Well(request[i])
  BY DEF LspTypes
<1>3. Gone \in Navigations /\ Gone.at = "done"
  BY <1>1 DEF Gone, Navigations, LspSteps
<1>4. Well(Gone)
  BY <1>3 DEF Well, WithServer, WithSlot
<1> QED
  BY <1>1, <1>2, <1>3, <1>4 DEF Navigations

\* One request changes and stays well.
LEMMA OneChanges ==
    ASSUME LspTypes, NEW i \in Request, NEW q, Well(q), request' = [request EXCEPT ![i] = q]
    PROVE  /\ request' \in [Request -> Navigations] /\ \A j \in Request : Well(request'[j])
           /\ request'[i] = q /\ \A j \in Request : j # i => request'[j] = request[j]
<1>1. request \in [Request -> Navigations] /\ q \in Navigations
  BY DEF LspTypes, Well
<1>2. request'[i] = q /\ \A j \in Request : j # i => request'[j] = request[j]
  BY <1>1
<1>3. request' \in [Request -> Navigations]
  BY <1>1
<1>4. ASSUME NEW j \in Request PROVE Well(request'[j])
  BY <1>2 DEF LspTypes
<1> QED
  BY <1>2, <1>3, <1>4

\* Looking for a slot: the fast path, the eviction of others and room.
LEMMA LooksKeep ==
    ASSUME LspInv, NEW i \in Request,
           (\E r \in Root : Ask(i, r)) \/ FindSlot(i) \/ PeekSlot(i) \/ EvictExpired(i)
           \/ EnsureCapacity(i) \/ ClearEvicted(i)
    PROVE  LspInv'
<1> DEFINE me == request[i]
<1>0. LspTypes /\ server' = server
  BY DEF LspInv, Ask, FindSlot, PeekSlot, EvictExpired, EnsureCapacity, ClearEvicted, EvictRoot
<1>f. /\ me \in Navigations /\ Well(me)
      /\ me.at \in LspSteps /\ me.text \in Nat /\ me.answer \in Nat
      /\ me.slot \in 0 .. MaxRequest /\ me.server \in 0 .. MaxRequest
      /\ me.back \in {"none", "expire", "room"} /\ me.root \in Root \cup {"none"}
      /\ i \in 0 .. MaxRequest /\ 0 \in 0 .. MaxRequest /\ i # 0
      /\ Gone \in Navigations /\ Well(Gone) /\ Gone.at = "done"
  BY <1>0, NavigationFacts
<1>1. ASSUME NEW r \in Root, Ask(i, r) PROVE LspInv'
  <2> DEFINE q == [Gone EXCEPT !.at = "find", !.root = r, !.text = source[r]]
  <2>1. request' = [request EXCEPT ![i] = q] /\ me.at = "new" /\ UNCHANGED <<source, slots, slot, server>>
    BY <1>1 DEF Ask, AtStep
  <2>2. source[r] \in Nat
    BY <1>0 DEF LspTypes
  <2>3. q \in Navigations /\ q.at = "find" /\ q.root = r
    BY <1>f, <2>2 DEF Gone, Navigations, LspSteps
  <2>4. Well(q)
    BY <2>3 DEF Well, WithServer, WithSlot
  <2> HIDE DEF q
  <2>5. LspTypes' /\ request'[i] = q /\ \A j \in Request : j # i => request'[j] = request[j]
    BY <1>0, <2>1, <2>4, OneChanges DEF LspTypes
  <2> QED
    BY <1>0, <2>1, <2>3, <2>5, MoveKeeps DEF Holding, Parting
<1>2. CASE FindSlot(i)
  <2> DEFINE s == slots[me.root]
             q == [me EXCEPT !.slot = s, !.at = IF s = 0 THEN "expire" ELSE "peek"]
  <2>1. request' = [request EXCEPT ![i].slot = s, ![i].at = IF s = 0 THEN "expire" ELSE "peek"]
        /\ me.at = "find" /\ UNCHANGED <<source, slots, slot, server>>
    BY <1>2 DEF FindSlot, AtStep
  <2>2. request' = [request EXCEPT ![i] = q]
    BY <1>0, <2>1 DEF LspTypes
  <2>3. me.root \in Root /\ s \in 0 .. MaxRequest
    BY <1>0, <1>f, <2>1 DEF LspTypes, Well
  <2>4. q \in Navigations /\ q.at \in {"expire", "peek"} /\ q.root = me.root /\ q.slot = s
        /\ (q.at = "peek" => s # 0)
    BY <1>f, <2>3 DEF Navigations, LspSteps, WithSlot
  <2>5. Well(q)
    BY <2>3, <2>4, LspAssumption DEF Well, WithServer, WithSlot, Request
  <2> HIDE DEF q
  <2>6. LspTypes' /\ request'[i] = q /\ \A j \in Request : j # i => request'[j] = request[j]
    BY <1>0, <2>1, <2>2, <2>5, OneChanges DEF LspTypes
  <2> QED
    BY <1>0, <2>1, <2>4, <2>6, MoveKeeps DEF Holding, Parting
<1>3. CASE PeekSlot(i)
  <2> DEFINE c == slot[me.slot].client
  <2>1. me.at = "peek" /\ UNCHANGED <<source, slots, slot, server>>
    BY <1>3 DEF PeekSlot, AtStep
  <2>2. me.slot \in Request /\ c \in 0 .. MaxRequest /\ me.root \in Root
    BY <1>0, <1>f, <2>1 DEF LspTypes, Well, WithSlot
  <2>3. PICK q : /\ request' = [request EXCEPT ![i] = q] /\ Well(q) /\ q.at \in {"ask", "expire"}
    <3>1. CASE c # 0
      <4> DEFINE p == [me EXCEPT !.at = "ask", !.server = c, !.slot = 0]
      <4>1. request' = [request EXCEPT ![i] = p]
        BY <1>0, <1>3, <3>1 DEF PeekSlot, UseServer, LspTypes
      <4>2. c \in Request
        BY <2>2, <3>1, LspAssumption DEF Request
      <4>3. p \in Navigations /\ p.at = "ask"
        BY <1>f, <2>2 DEF Navigations, LspSteps, WithServer
      <4>4. Well(p)
        BY <1>f, <2>2, <4>2, <4>3 DEF Well, WithServer, WithSlot, Navigations
      <4> HIDE DEF p
      <4> QED
        BY <4>1, <4>3, <4>4
    <3>2. CASE c = 0
      <4> DEFINE p == [me EXCEPT !.at = "expire", !.slot = 0]
      <4>1. request' = [request EXCEPT ![i] = p]
        BY <1>0, <1>3, <3>2 DEF PeekSlot, LspTypes
      <4>3. p \in Navigations /\ p.at = "expire"
        BY <1>f DEF Navigations, LspSteps
      <4>4. Well(p)
        BY <1>f, <2>2, <4>3 DEF Well, WithServer, WithSlot, Navigations
      <4> HIDE DEF p
      <4> QED
        BY <4>1, <4>3, <4>4
    <3> QED
      BY <3>1, <3>2
  <2>6. LspTypes' /\ request'[i] = q /\ \A j \in Request : j # i => request'[j] = request[j]
    BY <1>0, <2>1, <2>3, OneChanges DEF LspTypes
  <2> QED
    BY <1>0, <2>1, <2>3, <2>6, MoveKeeps DEF Holding, Parting
<1>4. ASSUME NEW a \in {"room", "insert"}, Goes(i, a), me.at \in {"expire", "room"},
             UNCHANGED <<source, slots, slot, server>>
      PROVE  LspInv'
  <2> DEFINE q == [me EXCEPT !.at = a]
  <2>1. request' = [request EXCEPT ![i] = q]
    BY <1>0, <1>4 DEF LspTypes, Goes
  <2>2. q \in Navigations /\ q.at = a /\ q.root = me.root /\ me.root \in Root
    BY <1>f, <1>4 DEF Navigations, LspSteps, Well
  <2>5. Well(q)
    BY <2>2 DEF Well, WithServer, WithSlot
  <2> HIDE DEF q
  <2>6. LspTypes' /\ request'[i] = q /\ \A j \in Request : j # i => request'[j] = request[j]
    BY <1>0, <1>4, <2>1, <2>5, OneChanges DEF LspTypes
  <2> QED
    BY <1>0, <1>4, <2>2, <2>6, MoveKeeps DEF Holding, Parting
<1>5. ASSUME NEW r \in Evictable(i), EvictRoot(i, r), me.at \in {"expire", "room"} PROVE LspInv'
  <2> DEFINE q == [me EXCEPT !.back = me.at, !.at = "clear", !.slot = slots[r]]
  <2>1. request' = [request EXCEPT ![i] = q] /\ slots' = [slots EXCEPT ![r] = 0]
        /\ UNCHANGED <<source, slot, server>>
    BY <1>0, <1>5 DEF EvictRoot, LspTypes
  <2>2. r \in Root /\ slots[r] \in Request /\ slots[r] \in 0 .. MaxRequest
    BY <1>0, LspAssumption DEF Evictable, LspTypes, Request
  <2>3. q \in Navigations /\ q.at = "clear" /\ q.slot = slots[r] /\ q.back = me.at /\ q.root = me.root
        /\ me.root \in Root
    BY <1>f, <1>5, <2>2 DEF Navigations, LspSteps, Well, WithSlot
  <2>4. Well(q)
    BY <1>5, <2>2, <2>3 DEF Well, WithServer, WithSlot
  <2> HIDE DEF q
  <2>5. slots' \in [Root -> 0 .. MaxRequest]
    BY <1>0, <1>f, <2>1 DEF LspTypes
  <2>6. LspTypes' /\ request'[i] = q /\ \A j \in Request : j # i => request'[j] = request[j]
    BY <1>0, <2>1, <2>4, <2>5, OneChanges DEF LspTypes
  <2> QED
    BY <1>0, <1>5, <2>1, <2>3, <2>6, MoveKeeps DEF Holding, Parting
<1>6. CASE EvictExpired(i)
  BY <1>4, <1>5, <1>6 DEF EvictExpired, AtStep
<1>7. CASE EnsureCapacity(i)
  <2>1. CASE Finishes(i) /\ UNCHANGED <<source, slots, slot, server>>
    <3>1. me.at = "room" /\ request' = [request EXCEPT ![i] = Gone]
      BY <1>7, <2>1 DEF EnsureCapacity, AtStep, Finishes
    <3>2. LspTypes' /\ request'[i] = Gone /\ \A j \in Request : j # i => request'[j] = request[j]
      BY <1>0, <1>f, <2>1, <3>1, OneChanges DEF LspTypes
    <3> QED
      BY <1>0, <1>f, <3>1, <3>2, MoveKeeps DEF Holding, Parting
  <2> QED
    BY <1>4, <1>5, <1>7, <2>1 DEF EnsureCapacity, AtStep
<1>8. CASE ClearEvicted(i)
  <2> DEFINE q == [me EXCEPT !.at = me.back, !.slot = 0, !.back = "none"]
  <2>1. /\ me.at = "clear" /\ request' = [request EXCEPT ![i] = q] /\ UNCHANGED <<source, slots, server>>
        /\ slot' = [slot EXCEPT ![me.slot].client = 0]
    BY <1>0, <1>8 DEF ClearEvicted, AtStep, LspTypes
  <2>2. me.slot \in Request /\ me.root \in Root /\ me.back \in {"expire", "room"}
    BY <1>f, <2>1 DEF Well, WithSlot
  <2>3. q \in Navigations /\ q.at = me.back /\ q.root = me.root
    BY <1>f, <2>2 DEF Navigations, LspSteps
  <2>4. Well(q)
    BY <2>2, <2>3 DEF Well, WithServer, WithSlot
  <2> HIDE DEF q
  <2>5. slot' \in [Request -> [client : 0 .. MaxRequest, lock : 0 .. MaxRequest]]
    BY <1>0, <1>f, <2>1, <2>2 DEF LspTypes
  <2>6. LspTypes' /\ request'[i] = q /\ \A j \in Request : j # i => request'[j] = request[j]
    BY <1>0, <2>1, <2>4, <2>5, OneChanges DEF LspTypes
  <2> QED
    BY <1>0, <2>1, <2>2, <2>3, <2>6, MoveKeeps DEF Holding, Parting
<1> QED
  BY <1>1, <1>2, <1>3, <1>6, <1>7, <1>8

\* Taking a slot, starting its server, and the resets.
LEMMA SlotsKeep ==
    ASSUME LspInv, NEW i \in Request,
           TakeSlot(i) \/ EnterSlot(i) \/ SpawnServer(i) \/ SpawnFails(i) \/ ResetClient(i)
           \/ WipeSlot(i) \/ Told(i)
    PROVE  LspInv'
<1> DEFINE me == request[i]
           SlotRows == [client : 0 .. MaxRequest, lock : 0 .. MaxRequest]
<1>0. LspTypes /\ server' = server
  BY DEF LspInv, TakeSlot, EnterSlot, SpawnServer, SpawnFails, ResetClient, WipeSlot, Told
<1>f. /\ me \in Navigations /\ Well(me)
      /\ me.at \in LspSteps /\ me.text \in Nat /\ me.answer \in Nat
      /\ me.slot \in 0 .. MaxRequest /\ me.server \in 0 .. MaxRequest
      /\ me.back \in {"none", "expire", "room"} /\ me.root \in Root \cup {"none"}
      /\ i \in 0 .. MaxRequest /\ 0 \in 0 .. MaxRequest /\ i # 0
      /\ Gone \in Navigations /\ Well(Gone) /\ Gone.at = "done"
  BY <1>0, NavigationFacts
<1>g. slot \in [Request -> SlotRows] /\ slots \in [Root -> 0 .. MaxRequest]
  BY <1>0 DEF LspTypes
\* A move to a step without a held server, whatever happens to the slots.
<1>m. ASSUME NEW q, Well(q), request' = [request EXCEPT ![i] = q], source' = source,
             slots' \in [Root -> 0 .. MaxRequest], slot' \in [Request -> SlotRows],
             me.at \notin Holding \cup {"done"}, q.at \notin Holding \cup {"told"},
             me.at \in {"told"} \cup Parting => q.at \in Parting
      PROVE  LspInv'
  <2>1. LspTypes' /\ request'[i] = q /\ \A j \in Request : j # i => request'[j] = request[j]
    BY <1>0, <1>m, OneChanges DEF LspTypes
  <2> QED
    BY <1>0, <1>m, <2>1, MoveKeeps
<1>1. CASE TakeSlot(i)
  <2> DEFINE x == slots'[me.root]
             q == [me EXCEPT !.at = "enter", !.slot = x]
  <2>0. /\ me.at = "insert" /\ UNCHANGED <<source, slot>>
        /\ slots' = [slots EXCEPT ![me.root] = IF @ = 0 THEN i ELSE @]
        /\ request' = [request EXCEPT ![i].at = "enter", ![i].slot = x]
    BY <1>1 DEF TakeSlot, AtStep
  <2>1. request' = [request EXCEPT ![i] = q]
    <3> HIDE DEF x
    <3> QED
      BY <1>0, <2>0 DEF LspTypes
  <2>2. me.root \in Root
    BY <1>f, <2>0 DEF Well
  <2>3. slots' \in [Root -> 0 .. MaxRequest] /\ slots'[me.root] \in Request
    BY <1>f, <1>g, <2>0, <2>2, LspAssumption DEF Request
  <2>4. slots'[me.root] \in 0 .. MaxRequest
    BY <2>3, LspAssumption DEF Request
  <2>5. q \in Navigations /\ q.at = "enter" /\ q.root = me.root /\ q.slot = slots'[me.root]
    BY <1>f, <2>4 DEF Navigations, LspSteps, WithSlot
  <2>6. Well(q)
    BY <2>2, <2>3, <2>5 DEF Well, WithServer, WithSlot
  <2> HIDE DEF q
  <2> QED
    BY <1>g, <1>m, <2>0, <2>1, <2>3, <2>5, <2>6 DEF Holding, Parting
\* Going on to the server c.
<1>u. ASSUME NEW c \in Request, UseServer(i, c), me.at \in {"enter", "spawn"}, me.root \in Root,
             source' = source, slots' = slots, slot' \in [Request -> SlotRows]
      PROVE  LspInv'
  <2> DEFINE q == [me EXCEPT !.at = "ask", !.server = c, !.slot = 0]
  <2>1. request' = [request EXCEPT ![i] = q]
    BY <1>0, <1>u DEF UseServer, LspTypes
  <2>2. c \in 0 .. MaxRequest
    BY LspAssumption DEF Request
  <2>3. q \in Navigations /\ q.at = "ask" /\ q.root = me.root /\ q.server = c
    BY <1>f, <2>2 DEF Navigations, LspSteps, WithServer
  <2>4. Well(q)
    BY <1>u, <2>3 DEF Well, WithServer, WithSlot
  <2> HIDE DEF q
  <2> QED
    BY <1>g, <1>m, <1>u, <2>1, <2>3, <2>4 DEF Holding, Parting
<1>2. CASE EnterSlot(i)
  <2> DEFINE c == slot[me.slot].client
  <2>1. me.at = "enter" /\ UNCHANGED <<source, slots>>
    BY <1>2 DEF EnterSlot, AtStep
  <2>2. me.slot \in Request /\ c \in 0 .. MaxRequest /\ me.root \in Root
    BY <1>f, <1>g, <2>1 DEF Well, WithSlot
  <2>3. CASE c # 0
    <3>1. c \in Request
      BY <2>2, <2>3, LspAssumption DEF Request
    <3>2. UseServer(i, c) /\ slot' = slot
      BY <1>2, <2>3 DEF EnterSlot
    <3> HIDE DEF c
    <3> QED
      BY <1>g, <1>u, <2>1, <2>2, <3>1, <3>2
  <2>4. CASE c = 0
    <3> DEFINE q == [me EXCEPT !.at = "spawn"]
    <3>1. request' = [request EXCEPT ![i] = q] /\ slot' = [slot EXCEPT ![me.slot].lock = i]
      BY <1>0, <1>2, <2>4 DEF EnterSlot, Goes, LspTypes
    <3>2. slot' \in [Request -> SlotRows]
      BY <1>f, <1>g, <2>2, <3>1
    <3>3. q \in Navigations /\ q.at = "spawn" /\ q.root = me.root /\ q.slot = me.slot
      BY <1>f DEF Navigations, LspSteps, WithSlot
    <3>4. Well(q)
      BY <2>2, <3>3 DEF Well, WithServer, WithSlot
    <3> HIDE DEF q
    <3> QED
      BY <1>g, <1>m, <2>1, <3>1, <3>2, <3>3, <3>4 DEF Holding, Parting
  <2> QED
    BY <2>3, <2>4
<1>3. CASE SpawnServer(i)
  <2>1. me.at = "spawn" /\ UNCHANGED <<source, slots>> /\ UseServer(i, i)
        /\ slot' = [slot EXCEPT ![me.slot] = [client |-> i, lock |-> 0]]
    BY <1>3 DEF SpawnServer, AtStep
  <2>2. me.slot \in Request /\ me.root \in Root
    BY <1>f, <2>1 DEF Well, WithSlot
  <2>3. slot' \in [Request -> SlotRows]
    BY <1>f, <1>g, <2>1, <2>2
  <2> QED
    BY <1>u, <2>1, <2>2, <2>3
<1>4. CASE SpawnFails(i)
  <2> DEFINE q == [me EXCEPT !.at = "reset", !.slot = 0]
  <2>1. me.at = "spawn" /\ UNCHANGED <<source, slots>> /\ slot' = [slot EXCEPT ![me.slot].lock = 0]
        /\ request' = [request EXCEPT ![i] = q]
    BY <1>0, <1>4 DEF SpawnFails, AtStep, LspTypes
  <2>2. me.slot \in Request /\ me.root \in Root
    BY <1>f, <2>1 DEF Well, WithSlot
  <2>3. slot' \in [Request -> SlotRows]
    BY <1>f, <1>g, <2>1, <2>2
  <2>4. q \in Navigations /\ q.at = "reset" /\ q.root = me.root
    BY <1>f DEF Navigations, LspSteps
  <2>5. Well(q)
    BY <2>2, <2>4 DEF Well, WithServer, WithSlot
  <2> HIDE DEF q
  <2> QED
    BY <1>g, <1>m, <2>1, <2>3, <2>4, <2>5 DEF Holding, Parting
<1>5. CASE ResetClient(i)
  <2>1. me.at = "reset" /\ UNCHANGED <<source, slot>> /\ slots' = [slots EXCEPT ![me.root] = 0]
    BY <1>5 DEF ResetClient, AtStep
  <2>2. me.root \in Root /\ slots' \in [Root -> 0 .. MaxRequest]
    BY <1>f, <1>g, <2>1 DEF Well
  <2>3. CASE slots[me.root] = 0
    <3>1. request' = [request EXCEPT ![i] = Gone]
      BY <1>5, <2>3 DEF ResetClient, Finishes
    <3> QED
      BY <1>f, <1>g, <1>m, <2>1, <2>2, <3>1 DEF Holding, Parting
  <2>4. CASE slots[me.root] # 0
    <3> DEFINE q == [me EXCEPT !.at = "wipe", !.slot = slots[me.root]]
    <3>1. request' = [request EXCEPT ![i] = q]
      BY <1>0, <1>5, <2>4 DEF ResetClient, LspTypes
    <3>2. slots[me.root] \in Request /\ slots[me.root] \in 0 .. MaxRequest
      BY <1>g, <2>2, <2>4, LspAssumption DEF Request
    <3>3. q \in Navigations /\ q.at = "wipe" /\ q.root = me.root /\ q.slot = slots[me.root]
      BY <1>f, <3>2 DEF Navigations, LspSteps, WithSlot
    <3>4. Well(q)
      BY <2>2, <3>2, <3>3 DEF Well, WithServer, WithSlot
    <3> HIDE DEF q
    <3> QED
      BY <1>g, <1>m, <2>1, <2>2, <3>1, <3>3, <3>4 DEF Holding, Parting
  <2> QED
    BY <2>3, <2>4
<1>6. CASE WipeSlot(i)
  <2>1. me.at = "wipe" /\ UNCHANGED <<source, slots>> /\ slot' = [slot EXCEPT ![me.slot].client = 0]
        /\ request' = [request EXCEPT ![i] = Gone]
    BY <1>6 DEF WipeSlot, AtStep, Finishes
  <2>2. me.slot \in Request
    BY <1>f, <2>1 DEF Well, WithSlot
  <2>3. slot' \in [Request -> SlotRows]
    BY <1>f, <1>g, <2>1, <2>2
  <2> QED
    BY <1>f, <1>g, <1>m, <2>1, <2>3 DEF Holding, Parting
<1>7. CASE Told(i)
  <2>1. me.at = "told" /\ UNCHANGED <<source, slots, slot>> /\ request' = [request EXCEPT ![i] = Gone]
    BY <1>7 DEF Told, AtStep, Finishes
  <2> QED
    BY <1>f, <1>g, <1>m, <2>1 DEF Holding, Parting
<1> QED
  BY <1>1, <1>2, <1>3, <1>4, <1>5, <1>6, <1>7

\* A request takes a server's lock, and sends its document if the fingerprint
\* is not that of its text.
LEMMA LockKeeps == ASSUME LspInv, NEW i \in Request, LockServer(i) PROVE LspInv'
<1> DEFINE me == request[i]
           s == me.server
           a == IF server[s].known = me.text THEN "query" ELSE "sync"
           q == [me EXCEPT !.at = a]
<1>0. LspTypes /\ HoldersLock /\ LocksAreHeld /\ DocumentsAgree /\ QuestionsAreAsked /\ AnswersMatchSource
  BY DEF LspInv
<1>1. /\ me.at = "ask" /\ server[s].lock = 0 /\ UNCHANGED <<source, slots, slot>>
      /\ server' = [server EXCEPT ![s].lock = i, ![s].known = me.text]
      /\ request' = [request EXCEPT ![i].at = a]
  BY DEF LockServer, AtStep, Goes
<1>2. /\ me \in Navigations /\ Well(me) /\ me.text \in Nat
      /\ i \in 0 .. MaxRequest /\ i # 0
  BY <1>0, NavigationFacts
<1>3. s \in Request /\ me.root \in Root
  BY <1>1, <1>2 DEF Well, WithServer
<1>4. q \in Navigations /\ q.at = a /\ q.root = me.root /\ q.server = s /\ q.text = me.text
  BY <1>2 DEF Navigations, LspSteps, WithServer
<1>5. Well(q)
  BY <1>3, <1>4 DEF Well, WithServer, WithSlot
<1>6. request' = [request EXCEPT ![i] = q]
  BY <1>0, <1>1 DEF LspTypes
<1>7. /\ request' \in [Request -> Navigations] /\ \A j \in Request : Well(request'[j])
      /\ request'[i] = q /\ \A j \in Request : j # i => request'[j] = request[j]
  <2> HIDE DEF q
  <2> QED
    BY <1>0, <1>5, <1>6, OneChanges
<1>8. server' \in [Request -> Servers]
  <2> DEFINE v == [server[s] EXCEPT !.lock = i, !.known = me.text]
  <2>1. server' = [server EXCEPT ![s] = v]
    BY <1>0, <1>1, <1>3 DEF LspTypes
  <2>2. server[s] \in Servers
    BY <1>0, <1>3 DEF LspTypes
  <2>3. v \in Servers
    <3> HIDE DEF s, me
    <3> QED
      BY <1>2, <2>2 DEF Servers
  <2> HIDE DEF v
  <2> QED
    BY <1>0, <2>1, <2>3 DEF LspTypes
<1>9. /\ \A t \in Request : t # s => server'[t] = server[t]
      /\ \A t \in Request : /\ server'[t].pending = server[t].pending /\ server'[t].asked = server[t].asked
                            /\ server'[t].up = server[t].up /\ server'[t].torn = server[t].torn
                            /\ server'[t].doc = server[t].doc
      /\ server'[s].lock = i /\ server'[s].known = me.text
  BY <1>0, <1>1, <1>3 DEF LspTypes, Servers
<1>10. LspTypes'
  BY <1>0, <1>1, <1>7, <1>8 DEF LspTypes
<1>11. \A t \in Request : /\ server[t].lock \in 0 .. MaxRequest /\ server[t].pending \subseteq Request
                          /\ \A m \in server[t].asked : m.id \in Request
  BY <1>0 DEF LspTypes, Servers, Messages
<1>12. q.at \in {"query", "sync"} /\ (q.at = "query" <=> server[s].known = me.text)
  BY <1>4
<1> HIDE DEF q, s, me, a
<1>13. HoldersLock'
  <2>1. \A j \in Request : request[j].at \in Holding => request[j].server # s
    BY <1>0, <1>1, LspAssumption DEF HoldersLock, Request
  <2>2. \A j \in Request : request[j].at \in Holding => request[j].server \in Request
    BY <1>0 DEF LspTypes, Well, WithServer, Holding
  <2> QED
    BY <1>0, <1>3, <1>4, <1>7, <1>9, <2>1, <2>2 DEF HoldersLock
<1>17. LocksAreHeld'
  <2>1. \A t \in Request : server[t].lock # i
    BY <1>0, <1>1, <1>2 DEF LocksAreHeld, me, Holding
  <2> QED
    BY <1>0, <1>3, <1>4, <1>7, <1>9, <1>12, <2>1 DEF LocksAreHeld, Holding
<1>14. DocumentsAgree'
  <2> SUFFICES ASSUME NEW t \in Request, server'[t].up, ~server'[t].torn,
                      server'[t].lock = 0 \/ request'[server'[t].lock].at # "sync"
               PROVE  server'[t].known = server'[t].doc
    BY DEF DocumentsAgree
  <2>1. CASE t = s
    <3>1. q.at = "query"
      BY <1>2, <1>7, <1>9, <1>12, <2>1
    <3>2. server[s].known = server[s].doc
      BY <1>0, <1>1, <1>3, <1>9, <2>1 DEF DocumentsAgree
    <3> QED
      BY <1>9, <1>12, <2>1, <3>1, <3>2
  <2>2. CASE t # s
    <3>1. server[t].lock = 0 \/ server[t].lock \in Request
      BY <1>11, LspAssumption DEF Request
    <3>2. me.at # "sync"
      BY <1>1
    <3> QED
      BY <1>0, <1>7, <1>9, <2>2, <3>1, <3>2 DEF DocumentsAgree, me
  <2> QED
    BY <2>1, <2>2
<1>15. QuestionsAreAsked'
  <2> SUFFICES ASSUME NEW t \in Request
               PROVE  /\ \A j \in server[t].pending :
                           request'[j].at = "done" \/ (request'[j].at = "wait" /\ request'[j].server = t)
                      /\ \A m \in server[t].asked :
                           /\ request'[m.id].at \in {"wait", "told"} \cup Parting
                           /\ request'[m.id].at = "wait" =>
                                 /\ request'[m.id].server = t
                                 /\ m.doc = request'[m.id].text \/ server[t].torn
    BY <1>9 DEF QuestionsAreAsked
  <2>1. \A j \in server[t].pending : j # i
    BY <1>0, <1>1 DEF QuestionsAreAsked, me
  <2>2. \A m \in server[t].asked : m.id # i
    BY <1>0, <1>1 DEF QuestionsAreAsked, me, Parting
  <2> QED
    BY <1>0, <1>7, <1>11, <2>1, <2>2 DEF QuestionsAreAsked
<1>16. AnswersMatchSource'
  <2>1. \A j \in Request : request[j].at = "told" => request[j].server \in Request
    BY <1>0 DEF LspTypes, Well, WithServer
  <2> QED
    BY <1>0, <1>7, <1>9, <1>12, <2>1 DEF AnswersMatchSource, AtStep
<1> QED
  BY <1>10, <1>13, <1>14, <1>15, <1>16, <1>17 DEF LspInv

\* An error: the lock and the id are given back.  The server is down, or it
\* agrees about the document.
LEMMA AbandonKeeps ==
    ASSUME LspInv, NEW i \in Request, request[i].at \in Holding, Abandon(i, server[request[i].server]),
           UNCHANGED <<source, slots, slot>>,
           ~server[request[i].server].up \/ request[i].at = "wait"
    PROVE  LspInv'
<1> DEFINE me == request[i]
           s == me.server
           q == [me EXCEPT !.at = "reset", !.server = 0]
<1>0. LspTypes /\ HoldersLock /\ LocksAreHeld /\ DocumentsAgree /\ QuestionsAreAsked /\ AnswersMatchSource
  BY DEF LspInv
<1>1. /\ server' = [server EXCEPT ![s] = [server[s] EXCEPT !.lock = 0, !.pending = @ \ {i}]]
      /\ request' = [request EXCEPT ![i].at = "reset", ![i].server = 0]
  BY DEF Abandon
<1>2. /\ me \in Navigations /\ Well(me) /\ 0 \in 0 .. MaxRequest /\ i # 0
  BY <1>0, NavigationFacts
<1>3. s \in Request /\ me.root \in Root
  BY <1>2 DEF Well, WithServer, Holding
<1>4. q \in Navigations /\ q.at = "reset" /\ q.root = me.root
  BY <1>2 DEF Navigations, LspSteps
<1>5. Well(q)
  BY <1>3, <1>4 DEF Well, WithServer, WithSlot
<1>6. request' = [request EXCEPT ![i] = q]
  BY <1>0, <1>1 DEF LspTypes
<1>7. /\ request' \in [Request -> Navigations] /\ \A j \in Request : Well(request'[j])
      /\ request'[i] = q /\ \A j \in Request : j # i => request'[j] = request[j]
  <2> HIDE DEF q
  <2> QED
    BY <1>0, <1>5, <1>6, OneChanges
<1>8. server' \in [Request -> Servers]
  <2> DEFINE v == [server[s] EXCEPT !.lock = 0, !.pending = @ \ {i}]
  <2>1. server[s] \in Servers
    BY <1>0, <1>3 DEF LspTypes
  <2>2. v \in Servers
    <3> HIDE DEF s, me
    <3> QED
      BY <1>2, <2>1 DEF Servers
  <2> HIDE DEF v
  <2>3. server' = [server EXCEPT ![s] = v]
    BY <1>1 DEF v
  <2> QED
    BY <1>0, <2>2, <2>3 DEF LspTypes
<1>9. /\ \A t \in Request : t # s => server'[t] = server[t]
      /\ \A t \in Request : /\ server'[t].asked = server[t].asked /\ server'[t].known = server[t].known
                            /\ server'[t].up = server[t].up /\ server'[t].torn = server[t].torn
                            /\ server'[t].doc = server[t].doc /\ server'[t].pending \subseteq server[t].pending
      /\ server'[s].lock = 0 /\ i \notin server'[s].pending
  BY <1>0, <1>1, <1>3 DEF LspTypes, Servers
<1>10. LspTypes'
  BY <1>0, <1>7, <1>8 DEF LspTypes
<1>11. \A t \in Request : /\ server[t].lock \in 0 .. MaxRequest /\ server[t].pending \subseteq Request
                          /\ \A m \in server[t].asked : m.id \in Request
  BY <1>0 DEF LspTypes, Servers, Messages
<1>12. server[s].lock = i
  BY <1>0 DEF HoldersLock
<1> HIDE DEF q, s
<1>13. HoldersLock'
  <2>1. \A j \in Request : j # i /\ request[j].at \in Holding => request[j].server # s
    BY <1>0, <1>12 DEF HoldersLock
  <2>2. \A j \in Request : request[j].at \in Holding => request[j].server \in Request
    BY <1>0 DEF LspTypes, Well, WithServer, Holding
  <2>3. q.at \notin Holding
    BY <1>4 DEF Holding
  <2> QED
    BY <1>0, <1>7, <1>9, <2>1, <2>2, <2>3 DEF HoldersLock
<1>17. LocksAreHeld'
  <2>1. \A t \in Request : t # s => server[t].lock # i
    BY <1>0, <1>2 DEF LocksAreHeld, s
  <2> QED
    BY <1>0, <1>7, <1>9, <2>1 DEF LocksAreHeld
<1>14. DocumentsAgree'
  <2> SUFFICES ASSUME NEW t \in Request, server'[t].up, ~server'[t].torn,
                      server'[t].lock = 0 \/ request'[server'[t].lock].at # "sync"
               PROVE  server'[t].known = server'[t].doc
    BY DEF DocumentsAgree
  <2>1. CASE t = s
    <3>1. me.at = "wait"
      BY <1>9, <2>1 DEF s
    <3> QED
      BY <1>0, <1>9, <1>12, <2>1, <3>1 DEF DocumentsAgree
  <2>2. CASE t # s
    <3>1. server[t].lock = 0 \/ server[t].lock \in Request
      BY <1>11, LspAssumption DEF Request
    <3>2. server[t].lock # i
      BY <1>0, <1>2, <2>2 DEF LocksAreHeld, s
    <3> QED
      BY <1>0, <1>7, <1>9, <2>2, <3>1, <3>2 DEF DocumentsAgree
  <2> QED
    BY <2>1, <2>2
<1>15. QuestionsAreAsked'
  <2> SUFFICES ASSUME NEW t \in Request
               PROVE  /\ \A j \in server'[t].pending :
                           request'[j].at = "done" \/ (request'[j].at = "wait" /\ request'[j].server = t)
                      /\ \A m \in server[t].asked :
                           /\ request'[m.id].at \in {"wait", "told"} \cup Parting
                           /\ request'[m.id].at = "wait" =>
                                 /\ request'[m.id].server = t
                                 /\ m.doc = request'[m.id].text \/ server[t].torn
    BY <1>9 DEF QuestionsAreAsked
  <2>1. \A j \in server'[t].pending : j # i
    BY <1>0, <1>9 DEF QuestionsAreAsked, s, Holding
  <2>2. q.at \in Parting /\ q.at # "wait"
    BY <1>4 DEF Parting
  <2>3. \A j \in server'[t].pending :
           request'[j].at = "done" \/ (request'[j].at = "wait" /\ request'[j].server = t)
    BY <1>0, <1>7, <1>9, <1>11, <2>1 DEF QuestionsAreAsked
  <2> QED
    BY <1>0, <1>7, <1>11, <2>2, <2>3 DEF QuestionsAreAsked
<1>16. AnswersMatchSource'
  <2>1. \A j \in Request : request[j].at = "told" => request[j].server \in Request
    BY <1>0 DEF LspTypes, Well, WithServer
  <2> QED
    BY <1>0, <1>4, <1>7, <1>9, <2>1 DEF AnswersMatchSource, AtStep
<1> QED
  BY <1>10, <1>13, <1>14, <1>15, <1>16, <1>17 DEF LspInv

\* The document has reached the server: both sides have the text again.
LEMMA SyncKeeps ==
    ASSUME LspInv, NEW i \in Request, request[i].at = "sync", UNCHANGED <<source, slots, slot>>,
           server' = [server EXCEPT ![request[i].server].doc = request[i].text], Goes(i, "query")
    PROVE  LspInv'
<1> DEFINE me == request[i]
           s == me.server
           q == [me EXCEPT !.at = "query"]
<1>0. LspTypes /\ HoldersLock /\ LocksAreHeld /\ DocumentsAgree /\ QuestionsAreAsked /\ AnswersMatchSource
  BY DEF LspInv
<1>2. /\ me \in Navigations /\ Well(me) /\ me.text \in Nat /\ i # 0
  BY <1>0, NavigationFacts
<1>3. s \in Request /\ me.root \in Root
  BY <1>2 DEF Well, WithServer
<1>4. q \in Navigations /\ q.at = "query" /\ q.root = me.root /\ q.server = s /\ q.text = me.text
  BY <1>2 DEF Navigations, LspSteps, WithServer
<1>5. Well(q)
  BY <1>3, <1>4 DEF Well, WithServer, WithSlot
<1>6. request' = [request EXCEPT ![i] = q]
  BY <1>0 DEF LspTypes, Goes
<1>7. /\ request' \in [Request -> Navigations] /\ \A j \in Request : Well(request'[j])
      /\ request'[i] = q /\ \A j \in Request : j # i => request'[j] = request[j]
  <2> HIDE DEF q
  <2> QED
    BY <1>0, <1>5, <1>6, OneChanges
<1>8. server' \in [Request -> Servers]
  <2> DEFINE v == [server[s] EXCEPT !.doc = me.text]
  <2>1. server[s] \in Servers
    BY <1>0, <1>3 DEF LspTypes
  <2>2. v \in Servers
    <3> HIDE DEF s, me
    <3> QED
      BY <1>2, <2>1 DEF Servers
  <2>3. server' = [server EXCEPT ![s] = v]
    BY <1>0, <1>3 DEF LspTypes
  <2> HIDE DEF v
  <2> QED
    BY <1>0, <2>2, <2>3 DEF LspTypes
<1>9. /\ \A t \in Request : t # s => server'[t] = server[t]
      /\ \A t \in Request : /\ server'[t].pending = server[t].pending /\ server'[t].asked = server[t].asked
                            /\ server'[t].up = server[t].up /\ server'[t].torn = server[t].torn
                            /\ server'[t].known = server[t].known /\ server'[t].lock = server[t].lock
      /\ server'[s].doc = me.text
  BY <1>0, <1>3 DEF LspTypes, Servers
<1>10. LspTypes'
  BY <1>0, <1>7, <1>8 DEF LspTypes
<1>11. \A t \in Request : /\ server[t].lock \in 0 .. MaxRequest /\ server[t].pending \subseteq Request
                          /\ \A m \in server[t].asked : m.id \in Request
  BY <1>0 DEF LspTypes, Servers, Messages
<1>12. server[s].lock = i /\ server[s].known = me.text
  BY <1>0 DEF HoldersLock, Holding
<1> HIDE DEF q, s
<1>13. HoldersLock'
  <2>1. \A j \in Request : request[j].at \in Holding => request[j].server \in Request
    BY <1>0 DEF LspTypes, Well, WithServer, Holding
  <2> QED
    BY <1>0, <1>3, <1>4, <1>7, <1>9, <1>12, <2>1 DEF HoldersLock
<1>14. LocksAreHeld'
  <2>1. \A t \in Request : server[t].lock = i => t = s
    BY <1>0, <1>2 DEF LocksAreHeld, s
  <2> QED
    BY <1>0, <1>4, <1>7, <1>9, <2>1 DEF LocksAreHeld, Holding
<1>15. DocumentsAgree'
  <2> SUFFICES ASSUME NEW t \in Request, server'[t].up, ~server'[t].torn,
                      server'[t].lock = 0 \/ request'[server'[t].lock].at # "sync"
               PROVE  server'[t].known = server'[t].doc
    BY DEF DocumentsAgree
  <2>1. CASE t = s
    BY <1>9, <1>12, <2>1
  <2>2. CASE t # s
    <3>1. server[t].lock # i /\ (server[t].lock = 0 \/ server[t].lock \in Request)
      BY <1>0, <1>2, <2>2 DEF LocksAreHeld, s
    <3>2. server'[t] = server[t] /\ (server[t].lock # 0 => request'[server[t].lock] = request[server[t].lock])
      BY <1>7, <1>9, <2>2, <3>1
    <3>3. server[t].up /\ ~server[t].torn /\ (server[t].lock = 0 \/ request[server[t].lock].at # "sync")
      BY <3>2
    <3> QED
      BY <1>0, <3>2, <3>3 DEF DocumentsAgree
  <2> QED
    BY <2>1, <2>2
<1>16. QuestionsAreAsked'
  <2> SUFFICES ASSUME NEW t \in Request
               PROVE  /\ \A j \in server[t].pending :
                           request'[j].at = "done" \/ (request'[j].at = "wait" /\ request'[j].server = t)
                      /\ \A m \in server[t].asked :
                           /\ request'[m.id].at \in {"wait", "told"} \cup Parting
                           /\ request'[m.id].at = "wait" =>
                                 /\ request'[m.id].server = t
                                 /\ m.doc = request'[m.id].text \/ server[t].torn
    BY <1>9 DEF QuestionsAreAsked
  <2>1. \A j \in server[t].pending : j # i
    BY <1>0 DEF QuestionsAreAsked
  <2>2. \A m \in server[t].asked : m.id # i
    BY <1>0 DEF QuestionsAreAsked, Parting
  <2> QED
    BY <1>0, <1>7, <1>11, <2>1, <2>2 DEF QuestionsAreAsked
<1>17. AnswersMatchSource'
  <2>1. \A j \in Request : request[j].at = "told" => request[j].server \in Request
    BY <1>0 DEF LspTypes, Well, WithServer
  <2> QED
    BY <1>0, <1>4, <1>7, <1>9, <2>1 DEF AnswersMatchSource, AtStep
<1> QED
  BY <1>10, <1>13, <1>14, <1>15, <1>16, <1>17 DEF LspInv

\* The question is sent: the document it is about is the request's text, or the
\* server is torn.
LEMMA QueryKeeps ==
    ASSUME LspInv, NEW i \in Request, request[i].at = "query", server[request[i].server].up,
           Goes(i, "wait"), UNCHANGED <<source, slots, slot>>,
           server' = [server EXCEPT ![request[i].server].pending = @ \cup {i},
                        ![request[i].server].asked =
                           @ \cup {[id |-> i, doc |-> server[request[i].server].doc]}]
    PROVE  LspInv'
<1> DEFINE me == request[i]
           s == me.server
           d == server[s].doc
           q == [me EXCEPT !.at = "wait"]
           v == [server[s] EXCEPT !.pending = @ \cup {i}, !.asked = @ \cup {[id |-> i, doc |-> d]}]
<1>0. LspTypes /\ HoldersLock /\ LocksAreHeld /\ DocumentsAgree /\ QuestionsAreAsked /\ AnswersMatchSource
  BY DEF LspInv
<1>2. /\ me \in Navigations /\ Well(me) /\ me.text \in Nat /\ i # 0
  BY <1>0, NavigationFacts
<1>3. s \in Request /\ me.root \in Root
  BY <1>2 DEF Well, WithServer
<1>4. q \in Navigations /\ q.at = "wait" /\ q.root = me.root /\ q.server = s /\ q.text = me.text
  BY <1>2 DEF Navigations, LspSteps, WithServer
<1>5. Well(q)
  BY <1>3, <1>4 DEF Well, WithServer, WithSlot
<1>6. request' = [request EXCEPT ![i] = q]
  BY <1>0 DEF LspTypes, Goes
<1>7. /\ request' \in [Request -> Navigations] /\ \A j \in Request : Well(request'[j])
      /\ request'[i] = q /\ \A j \in Request : j # i => request'[j] = request[j]
  <2> HIDE DEF q
  <2> QED
    BY <1>0, <1>5, <1>6, OneChanges
<1>8. server' = [server EXCEPT ![s] = v]
  <2>1. server' = [server EXCEPT ![s].pending = @ \cup {i}, ![s].asked = @ \cup {[id |-> i, doc |-> d]}]
    OBVIOUS
  <2> HIDE DEF d
  <2> QED
    BY <1>0, <1>3, <2>1 DEF LspTypes
<1>9. server[s] \in Servers /\ d \in Nat
  BY <1>0, <1>3 DEF LspTypes, Servers
<1>a. v \in Servers
  <2>1. [id |-> i, doc |-> d] \in Messages
    BY <1>9 DEF Messages
  <2> HIDE DEF d
  <2> QED
    BY <1>9, <2>1 DEF Servers
<1>b. /\ v.up = server[s].up /\ v.torn = server[s].torn /\ v.doc = server[s].doc
      /\ v.known = server[s].known /\ v.lock = server[s].lock
      /\ v.pending = server[s].pending \cup {i}
      /\ v.asked = server[s].asked \cup {[id |-> i, doc |-> d]}
  BY <1>9 DEF Servers
<1>c. /\ server' \in [Request -> Servers] /\ server'[s] = v
      /\ \A t \in Request : t # s => server'[t] = server[t]
  <2>1. server \in [Request -> Servers]
    BY <1>0 DEF LspTypes
  <2> HIDE DEF v, s
  <2> QED
    BY <1>3, <1>8, <1>a, <2>1
<1>10. LspTypes'
  BY <1>0, <1>7, <1>c DEF LspTypes
<1>11. \A t \in Request : /\ server[t].lock \in 0 .. MaxRequest /\ server[t].pending \subseteq Request
                          /\ \A m \in server[t].asked : m.id \in Request
  BY <1>0 DEF LspTypes, Servers, Messages
<1>12. server[s].lock = i /\ server[s].known = me.text
  BY <1>0 DEF HoldersLock, Holding
<1>d. d = me.text \/ server[s].torn
  BY <1>0, <1>3, <1>12 DEF DocumentsAgree
<1>e. \A t \in Request : server[t].lock = i => t = s
  BY <1>0, <1>2 DEF LocksAreHeld
<1> HIDE DEF q, s, v, d
<1>13. HoldersLock'
  <2>1. \A j \in Request : request[j].at \in Holding => request[j].server \in Request
    BY <1>0 DEF LspTypes, Well, WithServer, Holding
  <2>2. \A t \in Request : server'[t].lock = server[t].lock /\ server'[t].known = server[t].known
    BY <1>b, <1>c
  <2>3. request'[i].server = s /\ request'[i].text = me.text
    BY <1>4, <1>7
  <2>4. ASSUME NEW j \in Request, request'[j].at \in Holding
        PROVE  /\ server'[request'[j].server].lock = j
               /\ server'[request'[j].server].known = request'[j].text
    <3>1. CASE j = i
      BY <1>3, <1>12, <2>2, <2>3, <3>1
    <3>2. CASE j # i
      <4>1. request'[j] = request[j] /\ request[j].server \in Request
        BY <1>7, <2>1, <2>4, <3>2
      <4>2. server[request[j].server].lock = j /\ server[request[j].server].known = request[j].text
        BY <1>0, <2>4, <4>1 DEF HoldersLock
      <4> QED
        BY <2>2, <4>1, <4>2
    <3> QED
      BY <3>1, <3>2
  <2> QED
    BY <2>4 DEF HoldersLock
<1>14. LocksAreHeld'
  <2>1. \A t \in Request : server'[t].lock = server[t].lock
    BY <1>b, <1>c
  <2>2. request'[i].at \in Holding /\ request'[i].server = s
    BY <1>4, <1>7 DEF Holding
  <2>3. ASSUME NEW t \in Request, server[t].lock # 0
        PROVE  /\ server[t].lock \in Request
               /\ request'[server[t].lock].at \in Holding /\ request'[server[t].lock].server = t
    <3>1. CASE server[t].lock = i
      BY <1>e, <2>2, <3>1
    <3>2. CASE server[t].lock # i
      BY <1>0, <1>7, <2>3, <3>2 DEF LocksAreHeld
    <3> QED
      BY <3>1, <3>2
  <2> QED
    BY <2>1, <2>3 DEF LocksAreHeld
<1>15. DocumentsAgree'
  <2> SUFFICES ASSUME NEW t \in Request, server'[t].up, ~server'[t].torn,
                      server'[t].lock = 0 \/ request'[server'[t].lock].at # "sync"
               PROVE  server'[t].known = server'[t].doc
    BY DEF DocumentsAgree
  <2>1. CASE t = s
    BY <1>0, <1>12, <1>b, <1>c, <2>1 DEF DocumentsAgree
  <2>2. CASE t # s
    <3>1. server[t].lock # i /\ (server[t].lock = 0 \/ server[t].lock \in Request)
      BY <1>0, <1>e, <2>2 DEF LocksAreHeld
    <3>2. server'[t] = server[t] /\ (server[t].lock # 0 => request'[server[t].lock] = request[server[t].lock])
      BY <1>7, <1>c, <2>2, <3>1
    <3>3. server[t].up /\ ~server[t].torn /\ (server[t].lock = 0 \/ request[server[t].lock].at # "sync")
      BY <3>2
    <3> QED
      BY <1>0, <3>2, <3>3 DEF DocumentsAgree
  <2> QED
    BY <2>1, <2>2
<1>16. QuestionsAreAsked'
  <2>1. \A t \in Request : i \notin server[t].pending /\ \A m \in server[t].asked : m.id # i
    BY <1>0 DEF QuestionsAreAsked, Parting
  <2>2. ASSUME NEW t \in Request, NEW j \in server'[t].pending
        PROVE  request'[j].at = "done" \/ (request'[j].at = "wait" /\ request'[j].server = t)
    <3>1. (j = i /\ t = s) \/ (j # i /\ j \in server[t].pending)
      BY <1>b, <1>c, <2>1, <2>2
    <3> QED
      BY <1>0, <1>4, <1>7, <1>11, <3>1 DEF QuestionsAreAsked
  <2>3. ASSUME NEW t \in Request, NEW m \in server'[t].asked
        PROVE  /\ request'[m.id].at \in {"wait", "told"} \cup Parting
               /\ request'[m.id].at = "wait" =>
                    request'[m.id].server = t /\ (m.doc = request'[m.id].text \/ server'[t].torn)
    <3>1. CASE m \in server[t].asked
      <4>1. m.id # i /\ m.id \in Request /\ server'[t].torn = server[t].torn
        BY <1>11, <1>b, <1>c, <2>1, <3>1
      <4> QED
        BY <1>0, <1>7, <3>1, <4>1 DEF QuestionsAreAsked
    <3>2. CASE m \notin server[t].asked
      <4>1. t = s /\ m = [id |-> i, doc |-> d]
        BY <1>b, <1>c, <2>3, <3>2
      <4>2. m.id = i /\ m.doc = d
        BY <4>1
      <4> QED
        BY <1>4, <1>7, <1>b, <1>c, <1>d, <4>1, <4>2
    <3> QED
      BY <3>1, <3>2
  <2> QED
    BY <2>2, <2>3 DEF QuestionsAreAsked
<1>17. AnswersMatchSource'
  <2>1. \A j \in Request : request[j].at = "told" => request[j].server \in Request
    BY <1>0 DEF LspTypes, Well, WithServer
  <2>2. \A t \in Request : server'[t].torn = server[t].torn
    BY <1>b, <1>c
  <2>3. request'[i].at # "told"
    BY <1>4, <1>7
  <2> QED
    BY <1>0, <1>7, <2>1, <2>2, <2>3 DEF AnswersMatchSource, AtStep
<1> QED
  BY <1>10, <1>13, <1>14, <1>15, <1>16, <1>17 DEF LspInv

\* An answer: its request waits for it, or nobody does.
LEMMA ReplyKeeps ==
    ASSUME LspInv, NEW s \in Request, NEW m \in server[s].asked, Reply(s, m)
    PROVE  LspInv'
<1> DEFINE i == m.id
           me == request[i]
           waits == i \in server[s].pending /\ AtStep(i, "wait")
           v == [server[s] EXCEPT !.asked = @ \ {m}, !.pending = @ \ {i},
                                  !.lock = IF waits THEN 0 ELSE @]
           q == [me EXCEPT !.at = "told", !.answer = m.doc]
<1>0. LspTypes /\ HoldersLock /\ LocksAreHeld /\ DocumentsAgree /\ QuestionsAreAsked /\ AnswersMatchSource
  BY DEF LspInv
<1>1. /\ server[s].up /\ UNCHANGED <<source, slots, slot>>
      /\ server' = [server EXCEPT ![s].asked = @ \ {m}, ![s].pending = @ \ {i},
                                  ![s].lock = IF waits THEN 0 ELSE @]
      /\ request' = IF waits THEN [request EXCEPT ![i].at = "told", ![i].answer = m.doc] ELSE request
  BY DEF Reply
<1>2. server[s] \in Servers /\ m \in Messages /\ i \in Request /\ m.doc \in Nat
  BY <1>0 DEF LspTypes, Servers, Messages
<1>3. /\ me \in Navigations /\ Well(me) /\ i # 0 /\ 0 \in 0 .. MaxRequest
  BY <1>0, <1>2, NavigationFacts
<1>4. server' = [server EXCEPT ![s] = v]
  <2> HIDE DEF waits, i
  <2> QED
    BY <1>0, <1>1 DEF LspTypes
<1>5. /\ v \in Servers /\ v.up = server[s].up /\ v.torn = server[s].torn /\ v.doc = server[s].doc
      /\ v.known = server[s].known /\ v.lock = (IF waits THEN 0 ELSE server[s].lock)
      /\ v.pending = server[s].pending \ {i} /\ v.asked = server[s].asked \ {m}
  <2> HIDE DEF waits, i
  <2> QED
    BY <1>2, <1>3 DEF Servers
<1>6. /\ server' \in [Request -> Servers] /\ server'[s] = v
      /\ \A t \in Request : t # s => server'[t] = server[t]
  <2> HIDE DEF v
  <2> QED
    BY <1>0, <1>4, <1>5 DEF LspTypes
<1>7. \A t \in Request : /\ server'[t].torn = server[t].torn /\ server'[t].doc = server[t].doc
                         /\ server'[t].known = server[t].known /\ server'[t].up = server[t].up
                         /\ server'[t].pending \subseteq server[t].pending
                         /\ server'[t].asked \subseteq server[t].asked
  <2> HIDE DEF v
  <2> QED
    BY <1>5, <1>6
<1>8. \A t \in Request : /\ server[t].pending \subseteq Request
                         /\ \A n \in server[t].asked : n.id \in Request
  BY <1>0 DEF LspTypes, Servers, Messages
<1>9. \A j \in Request : request[j].at \in Holding \cup {"told"} => request[j].server \in Request
  BY <1>0 DEF LspTypes, Well, WithServer, Holding
<1>10. CASE ~waits
  <2>1. request' = request /\ \A t \in Request : server'[t].lock = server[t].lock
    <3> HIDE DEF v, waits
    <3> QED
      BY <1>1, <1>5, <1>6, <1>10
  <2>2. LspTypes'
    BY <1>0, <1>1, <1>6, <2>1 DEF LspTypes
  <2> HIDE DEF v, waits, i
  <2>3. HoldersLock' /\ AnswersMatchSource'
    BY <1>0, <1>7, <1>9, <2>1 DEF HoldersLock, AnswersMatchSource, AtStep
  <2>4. LocksAreHeld' /\ DocumentsAgree'
    BY <1>0, <1>7, <2>1 DEF LocksAreHeld, DocumentsAgree
  <2>5. QuestionsAreAsked'
    BY <1>0, <1>7, <2>1 DEF QuestionsAreAsked
  <2> QED
    BY <2>2, <2>3, <2>4, <2>5 DEF LspInv
<1>11. CASE waits
  <2>1. /\ me.at = "wait" /\ me.server = s /\ me.root \in Root
        /\ m.doc = me.text \/ server[s].torn
    BY <1>0, <1>2, <1>3, <1>11 DEF QuestionsAreAsked, AtStep, Well
  <2>2. request' = [request EXCEPT ![i] = q]
    <3>1. request' = [request EXCEPT ![i].at = "told", ![i].answer = m.doc]
      BY <1>1, <1>11
    <3> HIDE DEF i
    <3> QED
      BY <1>0, <1>2, <3>1 DEF LspTypes
  <2>3. q \in Navigations /\ q.at = "told" /\ q.root = me.root /\ q.server = s /\ q.text = me.text
        /\ q.answer = m.doc
    BY <1>2, <1>3, <2>1 DEF Navigations, LspSteps, WithServer
  <2>4. Well(q)
    BY <2>1, <2>3 DEF Well, WithServer, WithSlot
  <2>5. /\ request' \in [Request -> Navigations] /\ \A j \in Request : Well(request'[j])
        /\ request'[i] = q /\ \A j \in Request : j # i => request'[j] = request[j]
    <3> HIDE DEF q, i
    <3> QED
      BY <1>0, <1>2, <2>2, <2>4, OneChanges
  <2>6. LspTypes'
    BY <1>0, <1>1, <1>6, <2>5 DEF LspTypes
  <2>7. server[s].lock = i /\ server'[s].lock = 0 /\ \A t \in Request : server[t].lock = i => t = s
    <3>1. server[s].lock = i
      BY <1>0, <1>2, <2>1 DEF HoldersLock, Holding
    <3>2. \A t \in Request : server[t].lock = i => t = s
      BY <1>0, <1>3, <2>1 DEF LocksAreHeld
    <3> HIDE DEF v
    <3> QED
      BY <1>5, <1>6, <1>11, <3>1, <3>2
  <2>8. i \notin server'[s].pending
    <3> HIDE DEF v, i
    <3> QED
      BY <1>5, <1>6
  <2>9. \A t \in Request : i \in server[t].pending => t = s
    BY <1>0, <2>1 DEF QuestionsAreAsked
  <2> HIDE DEF v, q, i, waits
  <2>10. HoldersLock'
    <3>1. \A j \in Request : j # i /\ request[j].at \in Holding => request[j].server # s
      BY <1>0, <2>7 DEF HoldersLock
    <3>2. q.at \notin Holding
      BY <2>3 DEF Holding
    <3> QED
      BY <1>0, <1>6, <1>9, <2>5, <3>1, <3>2 DEF HoldersLock
  <2>11. LocksAreHeld'
    BY <1>0, <1>6, <2>5, <2>7 DEF LocksAreHeld
  <2>12. DocumentsAgree'
    <3> SUFFICES ASSUME NEW t \in Request, server'[t].up, ~server'[t].torn,
                        server'[t].lock = 0 \/ request'[server'[t].lock].at # "sync"
                 PROVE  server'[t].known = server'[t].doc
      BY DEF DocumentsAgree
    <3>1. CASE t = s
      <4>1. request[server[s].lock].at # "sync"
        BY <2>1, <2>7
      <4> QED
        BY <1>0, <1>7, <3>1, <4>1 DEF DocumentsAgree
    <3>2. CASE t # s
      <4>1. server'[t] = server[t] /\ (server[t].lock # 0 => request'[server[t].lock] = request[server[t].lock])
        BY <1>0, <1>6, <2>5, <2>7, <3>2 DEF LocksAreHeld
      <4>2. server[t].up /\ ~server[t].torn /\ (server[t].lock = 0 \/ request[server[t].lock].at # "sync")
        BY <4>1
      <4> QED
        BY <1>0, <4>1, <4>2 DEF DocumentsAgree
    <3> QED
      BY <3>1, <3>2
  <2>13. QuestionsAreAsked'
    <3>1. ASSUME NEW t \in Request, NEW j \in server'[t].pending
          PROVE  request'[j].at = "done" \/ (request'[j].at = "wait" /\ request'[j].server = t)
      <4>1. j \in server[t].pending /\ j # i /\ j \in Request
        BY <1>7, <1>8, <2>8, <2>9
      <4> QED
        BY <1>0, <2>5, <4>1 DEF QuestionsAreAsked
    <3>2. ASSUME NEW t \in Request, NEW n \in server'[t].asked
          PROVE  /\ request'[n.id].at \in {"wait", "told"} \cup Parting
                 /\ request'[n.id].at = "wait" =>
                      request'[n.id].server = t /\ (n.doc = request'[n.id].text \/ server'[t].torn)
      <4>1. n \in server[t].asked /\ n.id \in Request
        BY <1>7, <1>8
      <4>2. CASE n.id = i
        BY <2>3, <2>5, <4>2
      <4>3. CASE n.id # i
        BY <1>0, <1>7, <2>5, <4>1, <4>3 DEF QuestionsAreAsked
      <4> QED
        BY <4>2, <4>3
    <3> QED
      BY <3>1, <3>2 DEF QuestionsAreAsked
  <2>14. AnswersMatchSource'
    <3>1. request'[i].answer = request'[i].text \/ server'[request'[i].server].torn
      BY <1>7, <2>1, <2>3, <2>5
    <3> QED
      BY <1>0, <1>7, <1>9, <2>5, <3>1 DEF AnswersMatchSource, AtStep
  <2> QED
    BY <2>6, <2>10, <2>11, <2>12, <2>13, <2>14 DEF LspInv
<1> QED
  BY <1>10, <1>11

\* A server dies and takes the question that waits on it along.
LEMMA DeathKeeps == ASSUME LspInv, NEW s \in Request, ServerDies(s) PROVE LspInv'
<1> DEFINE hit == {i \in server[s].pending : AtStep(i, "wait")}
           v == [server[s] EXCEPT !.up = FALSE, !.pending = {}, !.asked = {},
                                  !.lock = IF hit # {} THEN 0 ELSE @]
<1>0. LspTypes /\ HoldersLock /\ LocksAreHeld /\ DocumentsAgree /\ QuestionsAreAsked /\ AnswersMatchSource
  BY DEF LspInv
<1>1. /\ UNCHANGED <<source, slots, slot>>
      /\ server' = [server EXCEPT ![s].up = FALSE, ![s].pending = {}, ![s].asked = {},
                                  ![s].lock = IF hit # {} THEN 0 ELSE @]
      /\ request' = [i \in Request |-> IF i \in hit
                       THEN [request[i] EXCEPT !.at = "reset", !.server = 0] ELSE request[i]]
  BY DEF ServerDies
<1>2. server[s] \in Servers /\ 0 \in 0 .. MaxRequest
  BY <1>0, LspAssumption DEF LspTypes
<1>3. server' = [server EXCEPT ![s] = v]
  <2> HIDE DEF hit
  <2> QED
    BY <1>0, <1>1 DEF LspTypes
<1>4. /\ v \in Servers /\ v.torn = server[s].torn /\ v.known = server[s].known /\ ~v.up
      /\ v.lock = (IF hit # {} THEN 0 ELSE server[s].lock) /\ v.pending = {} /\ v.asked = {}
  <2> HIDE DEF hit
  <2> QED
    BY <1>2 DEF Servers
<1>5. /\ server' \in [Request -> Servers] /\ server'[s] = v
      /\ \A t \in Request : t # s => server'[t] = server[t]
  <2> HIDE DEF v
  <2> QED
    BY <1>0, <1>3, <1>4 DEF LspTypes
<1>6. \A i \in hit : i \in Request /\ request[i].at = "wait" /\ request[i].server = s /\ server[s].lock = i
  BY <1>0, <1>2 DEF QuestionsAreAsked, AtStep, HoldersLock, Holding, Servers
<1>7. ASSUME NEW i \in Request
      PROVE  /\ i \notin hit => request'[i] = request[i]
             /\ i \in hit => request'[i].at = "reset" /\ Well(request'[i])
  <2>1. CASE i \in hit
    <3> DEFINE q == [request[i] EXCEPT !.at = "reset", !.server = 0]
    <3>1. request'[i] = q
      BY <1>1, <2>1
    <3>2. request[i] \in Navigations /\ request[i].root \in Root
      BY <1>0, <1>6, <2>1 DEF LspTypes, Well
    <3>3. q \in Navigations /\ q.at = "reset" /\ q.root = request[i].root
      BY <1>2, <3>2 DEF Navigations, LspSteps
    <3>4. Well(q)
      BY <3>2, <3>3 DEF Well, WithServer, WithSlot
    <3> QED
      BY <2>1, <3>1, <3>3, <3>4
  <2>2. CASE i \notin hit
    BY <1>1, <2>2
  <2> QED
    BY <2>1, <2>2
<1> HIDE DEF hit, v
<1>8. LspTypes'
  <2>1. \A i \in Request : Well(request'[i])
    BY <1>0, <1>7 DEF LspTypes
  <2>2. request' \in [Request -> Navigations]
    <3>1. \A i \in Request : request'[i] \in Navigations
      BY <2>1 DEF Well
    <3>2. request' = [i \in Request |-> request'[i]]
      BY <1>1
    <3> QED
      BY <3>1, <3>2
  <2> QED
    BY <1>0, <1>1, <1>5, <2>1, <2>2 DEF LspTypes
<1>9. \A j \in Request : request[j].at \in Holding \cup {"told"} => request[j].server \in Request
  BY <1>0 DEF LspTypes, Well, WithServer, Holding
<1>10. HoldersLock'
  <2> SUFFICES ASSUME NEW j \in Request, request'[j].at \in Holding
               PROVE  /\ server'[request'[j].server].lock = j
                      /\ server'[request'[j].server].known = request'[j].text
    BY DEF HoldersLock
  <2>1. j \notin hit /\ request'[j] = request[j]
    BY <1>7 DEF Holding
  <2>2. server[request[j].server].lock = j /\ server[request[j].server].known = request[j].text
    BY <1>0, <2>1 DEF HoldersLock
  <2>3. request[j].server = s => hit = {}
    BY <1>6, <2>1, <2>2
  <2> QED
    BY <1>4, <1>5, <1>9, <2>1, <2>2, <2>3
<1>11. LocksAreHeld'
  <2> SUFFICES ASSUME NEW t \in Request, server'[t].lock # 0
               PROVE  /\ server'[t].lock \in Request
                      /\ request'[server'[t].lock].at \in Holding /\ request'[server'[t].lock].server = t
    BY DEF LocksAreHeld
  <2>1. server'[t].lock = server[t].lock
    BY <1>4, <1>5
  <2>2. /\ server[t].lock \in Request
        /\ request[server[t].lock].at \in Holding /\ request[server[t].lock].server = t
    BY <1>0, <2>1 DEF LocksAreHeld
  <2>3. server[t].lock \notin hit
    BY <1>4, <1>5, <1>6, <2>1, <2>2
  <2> QED
    BY <1>7, <2>1, <2>2, <2>3
<1>12. DocumentsAgree'
  <2> SUFFICES ASSUME NEW t \in Request, server'[t].up, ~server'[t].torn,
                      server'[t].lock = 0 \/ request'[server'[t].lock].at # "sync"
               PROVE  server'[t].known = server'[t].doc
    BY DEF DocumentsAgree
  <2>1. t # s /\ server'[t] = server[t]
    BY <1>4, <1>5
  <2>2. server[t].lock = 0 \/ request[server[t].lock].at # "sync"
    <3>1. CASE server[t].lock = 0
      BY <3>1
    <3>2. CASE server[t].lock # 0
      <4>1. server[t].lock \in Request /\ request[server[t].lock].server = t
        BY <1>0, <3>2 DEF LocksAreHeld
      <4>2. server[t].lock \notin hit
        BY <1>6, <2>1, <4>1
      <4> QED
        BY <1>7, <2>1, <3>2, <4>1, <4>2
    <3> QED
      BY <3>1, <3>2
  <2> QED
    BY <1>0, <2>1, <2>2 DEF DocumentsAgree
<1>13. QuestionsAreAsked'
  <2> SUFFICES ASSUME NEW t \in Request
               PROVE  /\ \A j \in server'[t].pending :
                           request'[j].at = "done" \/ (request'[j].at = "wait" /\ request'[j].server = t)
                      /\ \A m \in server'[t].asked :
                           /\ request'[m.id].at \in {"wait", "told"} \cup Parting
                           /\ request'[m.id].at = "wait" =>
                                 /\ request'[m.id].server = t
                                 /\ m.doc = request'[m.id].text \/ server'[t].torn
    BY DEF QuestionsAreAsked
  <2>1. CASE t = s
    BY <1>4, <1>5, <2>1
  <2>2. CASE t # s
    <3>1. server'[t] = server[t] /\ server[t].pending \subseteq Request
          /\ \A m \in server[t].asked : m.id \in Request
      BY <1>0, <1>5, <2>2 DEF LspTypes, Servers, Messages
    <3>2. \A j \in server[t].pending : j \notin hit
      BY <1>0, <1>6, <2>2 DEF QuestionsAreAsked
    <3>3. ASSUME NEW m \in server[t].asked
          PROVE  /\ request'[m.id].at \in {"wait", "told"} \cup Parting
                 /\ request'[m.id].at = "wait" =>
                       request'[m.id].server = t /\ (m.doc = request'[m.id].text \/ server[t].torn)
      <4>1. m.id \notin hit
        BY <1>0, <1>6, <2>2 DEF QuestionsAreAsked
      <4> QED
        BY <1>0, <1>7, <3>1, <4>1 DEF QuestionsAreAsked
    <3> QED
      BY <1>0, <1>7, <3>1, <3>2, <3>3 DEF QuestionsAreAsked
  <2> QED
    BY <2>1, <2>2
<1>14. AnswersMatchSource'
  <2>1. \A t \in Request : server'[t].torn = server[t].torn
    BY <1>4, <1>5
  <2> QED
    BY <1>0, <1>7, <1>9, <2>1 DEF AnswersMatchSource, AtStep
<1> QED
  BY <1>8, <1>10, <1>11, <1>12, <1>13, <1>14 DEF LspInv

\* The caller hangs up: its locks go, and a server it was sending a document to
\* is torn from then on.
LEMMA DropKeeps == ASSUME LspInv, NEW i \in Request, DropRequest(i) PROVE LspInv'
<1>0. LspTypes /\ HoldersLock /\ LocksAreHeld /\ DocumentsAgree /\ QuestionsAreAsked /\ AnswersMatchSource
  BY DEF LspInv
<1>1. /\ UNCHANGED <<source, slots>> /\ request' = [request EXCEPT ![i] = Gone]
      /\ slot' = [s \in Request |-> IF slot[s].lock = i THEN [slot[s] EXCEPT !.lock = 0] ELSE slot[s]]
      /\ server' = [s \in Request |-> IF server[s].lock = i
            THEN [server[s] EXCEPT !.lock = 0, !.torn = @ \/ AtStep(i, "sync")] ELSE server[s]]
  BY DEF DropRequest, Finishes
<1>2. Well(Gone) /\ Gone.at = "done" /\ 0 \in 0 .. MaxRequest /\ i # 0
  BY <1>0, NavigationFacts
<1>3. /\ request' \in [Request -> Navigations] /\ \A j \in Request : Well(request'[j])
      /\ request'[i] = Gone /\ \A j \in Request : j # i => request'[j] = request[j]
  BY <1>0, <1>1, <1>2, OneChanges
<1>4. slot' \in [Request -> [client : 0 .. MaxRequest, lock : 0 .. MaxRequest]]
  BY <1>0, <1>1, <1>2 DEF LspTypes
<1>5. ASSUME NEW t \in Request
      PROVE  /\ server'[t] \in Servers
             /\ server'[t].up = server[t].up /\ server'[t].known = server[t].known
             /\ server'[t].doc = server[t].doc /\ server'[t].pending = server[t].pending
             /\ server'[t].asked = server[t].asked
             /\ server'[t].lock = (IF server[t].lock = i THEN 0 ELSE server[t].lock)
             /\ server[t].torn => server'[t].torn
             /\ ~server'[t].torn /\ server[t].lock = i => request[i].at # "sync"
             /\ server[t].pending \subseteq Request /\ \A m \in server[t].asked : m.id \in Request
  <2>1. server[t] \in Servers
    BY <1>0 DEF LspTypes
  <2>2. CASE server[t].lock = i
    <3> DEFINE b == AtStep(i, "sync")
    <3>1. server'[t] = [server[t] EXCEPT !.lock = 0, !.torn = @ \/ b]
      BY <1>1, <2>2
    <3>2. b \in BOOLEAN /\ (b <=> request[i].at = "sync")
      BY DEF AtStep
    <3> HIDE DEF b
    <3> QED
      BY <1>2, <2>1, <2>2, <3>1, <3>2 DEF Servers, Messages
  <2>3. CASE server[t].lock # i
    BY <1>1, <2>1, <2>3 DEF Servers, Messages
  <2> QED
    BY <2>2, <2>3
<1>6. LspTypes'
  <2>1. server' \in [Request -> Servers]
    <3>1. server' = [t \in Request |-> server'[t]]
      BY <1>1
    <3> QED
      BY <1>5, <3>1
  <2> QED
    BY <1>0, <1>1, <1>3, <1>4, <2>1 DEF LspTypes
<1>7. \A j \in Request : request[j].at \in Holding \cup {"told"} => request[j].server \in Request
  BY <1>0 DEF LspTypes, Well, WithServer, Holding
<1>8. \A j \in Request : request'[j].at # "done" => j # i /\ request'[j] = request[j]
  BY <1>2, <1>3
<1>9. HoldersLock'
  <2> SUFFICES ASSUME NEW j \in Request, request'[j].at \in Holding
               PROVE  /\ server'[request'[j].server].lock = j
                      /\ server'[request'[j].server].known = request'[j].text
    BY DEF HoldersLock
  <2>1. j # i /\ request'[j] = request[j]
    BY <1>8 DEF Holding
  <2> QED
    BY <1>0, <1>5, <1>7, <2>1 DEF HoldersLock
<1>10. LocksAreHeld'
  <2> SUFFICES ASSUME NEW t \in Request, server'[t].lock # 0
               PROVE  /\ server'[t].lock \in Request
                      /\ request'[server'[t].lock].at \in Holding /\ request'[server'[t].lock].server = t
    BY DEF LocksAreHeld
  <2>1. server'[t].lock = server[t].lock /\ server[t].lock # i
    BY <1>5
  <2> QED
    BY <1>0, <1>3, <2>1 DEF LocksAreHeld
<1>11. DocumentsAgree'
  <2> SUFFICES ASSUME NEW t \in Request, server'[t].up, ~server'[t].torn,
                      server'[t].lock = 0 \/ request'[server'[t].lock].at # "sync"
               PROVE  server'[t].known = server'[t].doc
    BY DEF DocumentsAgree
  <2>1. server[t].up /\ ~server[t].torn
    BY <1>5
  <2>2. server[t].lock = 0 \/ request[server[t].lock].at # "sync"
    <3>1. CASE server[t].lock = i
      BY <1>5, <3>1
    <3>2. CASE server[t].lock # i /\ server[t].lock # 0
      <4>1. server'[t].lock = server[t].lock /\ server[t].lock \in Request
        BY <1>0, <1>5, <3>2 DEF LocksAreHeld
      <4> QED
        BY <1>3, <3>2, <4>1
    <3> QED
      BY <3>1, <3>2
  <2> QED
    BY <1>0, <1>5, <2>1, <2>2 DEF DocumentsAgree
<1>12. QuestionsAreAsked'
  <2>1. ASSUME NEW t \in Request, NEW j \in server'[t].pending
        PROVE  request'[j].at = "done" \/ (request'[j].at = "wait" /\ request'[j].server = t)
    <3>1. j \in server[t].pending /\ j \in Request
      BY <1>5
    <3> QED
      BY <1>0, <1>2, <1>3, <3>1 DEF QuestionsAreAsked
  <2>2. ASSUME NEW t \in Request, NEW m \in server'[t].asked
        PROVE  /\ request'[m.id].at \in {"wait", "told"} \cup Parting
               /\ request'[m.id].at = "wait" =>
                    request'[m.id].server = t /\ (m.doc = request'[m.id].text \/ server'[t].torn)
    <3>1. m \in server[t].asked /\ m.id \in Request
      BY <1>5
    <3>2. CASE m.id = i
      BY <1>2, <1>3, <3>2 DEF Parting
    <3>3. CASE m.id # i
      BY <1>0, <1>3, <1>5, <3>1, <3>3 DEF QuestionsAreAsked
    <3> QED
      BY <3>2, <3>3
  <2> QED
    BY <2>1, <2>2 DEF QuestionsAreAsked
<1>13. AnswersMatchSource'
  <2> SUFFICES ASSUME NEW j \in Request, request'[j].at = "told"
               PROVE  request'[j].answer = request'[j].text \/ server'[request'[j].server].torn
    BY DEF AnswersMatchSource, AtStep
  <2>1. request'[j] = request[j]
    BY <1>8
  <2> QED
    BY <1>0, <1>5, <1>7, <2>1 DEF AnswersMatchSource, AtStep
<1> QED
  BY <1>6, <1>9, <1>10, <1>11, <1>12, <1>13 DEF LspInv

\* Every step of the pool keeps requests, locks and documents together.
LEMMA PoolKeeps == LspInv /\ LspNext => LspInv'
<1> SUFFICES ASSUME LspInv, LspNext PROVE LspInv'
  OBVIOUS
<1>1. CASE \E r \in Root : EditSource(r)
  <2>1. source' \in [Root -> Nat] /\ UNCHANGED <<slots, slot, server, request>>
    BY <1>1 DEF EditSource, LspInv, LspTypes
  <2> QED
    BY <2>1 DEF LspInv, LspTypes, Well, HoldersLock, LocksAreHeld, DocumentsAgree, QuestionsAreAsked,
       AnswersMatchSource, AtStep
<1>2. ASSUME NEW i \in Request, LspStep(i) PROVE LspInv'
  <2>1. CASE FindSlot(i) \/ PeekSlot(i) \/ EvictExpired(i) \/ EnsureCapacity(i) \/ ClearEvicted(i)
    BY <2>1, LooksKeep
  <2>2. CASE TakeSlot(i) \/ EnterSlot(i) \/ SpawnServer(i) \/ ResetClient(i) \/ WipeSlot(i) \/ Told(i)
    BY <2>2, SlotsKeep
  <2>3. CASE LockServer(i)
    BY <2>3, LockKeeps
  <2>4. CASE SyncDocument(i)
    BY <2>4, SyncKeeps, AbandonKeeps DEF SyncDocument, AtStep, Holding
  <2>5. CASE SendQuery(i)
    BY <2>5, QueryKeeps, AbandonKeeps DEF SendQuery, AtStep, Holding
  <2>6. CASE TimeOut(i)
    BY <2>6, AbandonKeeps DEF TimeOut, AtStep, Holding
  <2> QED
    BY <1>2, <2>1, <2>2, <2>3, <2>4, <2>5, <2>6 DEF LspStep
<1>3. ASSUME NEW i \in Request, SpawnFails(i) PROVE LspInv'
  BY <1>3, SlotsKeep
<1>4. ASSUME NEW i \in Request, \E r \in Root : Ask(i, r) PROVE LspInv'
  BY <1>4, LooksKeep
<1> QED
  BY <1>1, <1>2, <1>3, <1>4, DropKeeps, DeathKeeps, ReplyKeeps DEF LspNext

\* So does a step of another part.
LEMMA CodeIndexStep == IndexInv /\ [IndexNext]_indexVars => IndexInv'
<1> SUFFICES ASSUME IndexInv, [IndexNext]_indexVars PROVE IndexInv'
  OBVIOUS
<1>1. CASE UNCHANGED indexVars
  <2>1. UNCHANGED <<disk, large, row, facts, job, jobRow, booted, raced, edits, troubles>>
    BY <1>1 DEF indexVars
  <2>2. IndexTypes' /\ JobPlace' /\ FileInHand'
    <3>1. IndexTypes'
      BY <2>1 DEF IndexInv, IndexTypes, JobRecords
    <3>2. JobPlace'
      BY <2>1 DEF IndexInv, JobPlace
    <3>3. FileInHand'
      BY <2>1 DEF IndexInv, FileInHand
    <3> QED
      BY <3>1, <3>2, <3>3
  <2>3. ParsedHasTime' /\ ParsedIsCurrent' /\ NoFactsWithoutFile' /\ RunningJobIsRunning'
    BY <2>1 DEF IndexInv, ParsedHasTime, ParsedIsCurrent, NoFactsWithoutFile, RunningJobIsRunning
  <2> QED
    BY <2>2, <2>3 DEF IndexInv
<1> QED
  BY <1>1, IndexKeeps

\* A step of the pipeline is one of the code index, or leaves it alone.
LEMMA IndexFocus ==
    ASSUME [Next]_pipelineVars
    PROVE  [IndexNext]_indexVars
BY DEF Next, OthersRest, pipelineVars

\* The language servers agree after a step of another part too.
LEMMA PoolStep == LspInv /\ [LspNext]_lspVars => LspInv'
<1> SUFFICES ASSUME LspInv, [LspNext]_lspVars PROVE LspInv'
  OBVIOUS
<1>1. CASE UNCHANGED lspVars
  <2>1. UNCHANGED <<source, slots, slot, server, request>>
    BY <1>1 DEF lspVars
  <2>2. LspTypes'
    BY <2>1 DEF LspInv, LspTypes, Well
  <2>3. HoldersLock' /\ LocksAreHeld' /\ DocumentsAgree'
    BY <2>1 DEF LspInv, HoldersLock, LocksAreHeld, DocumentsAgree
  <2>4. QuestionsAreAsked' /\ AnswersMatchSource'
    BY <2>1 DEF LspInv, QuestionsAreAsked, AnswersMatchSource, AtStep
  <2> QED
    BY <2>2, <2>3, <2>4 DEF LspInv
<1> QED
  BY <1>1, PoolKeeps

\* A step of the pipeline is one of the language servers, or leaves them alone.
LEMMA PoolFocus ==
    ASSUME [Next]_pipelineVars
    PROVE  [LspNext]_lspVars
BY DEF Next, OthersRest, pipelineVars

\* Code queries tell the truth of the files: facts are of the version parsed and
\* never of a file that is gone, no phantom job blocks the index, and language
\* servers answer for the text that was asked about.
THEOREM CodeIntelIsSound == Spec => []CodeIntelSound
<1> DEFINE Inv == IndexInv /\ LspInv
<1>1. Init => Inv
  BY IndexStarts, PoolStarts DEF Init
<1>2. Inv /\ [Next]_pipelineVars => Inv'
  BY CodeIndexStep, IndexFocus, PoolStep, PoolFocus
<1>3. Inv => CodeIntelSound
  BY DEF IndexInv, LspInv, CodeIntelSound
<1> QED
  BY <1>1, <1>2, <1>3, PTL DEF Spec
-----------------------------------------------------------------------------
(* The semantic index.                                                     *)

RunRows == [st : {"running", "complete", "failed", "dropped"}, scope : SUBSET Sources,
            cursor : Nat, touched : SUBSET Sources]
SourceRows == [st : {"none", "pending", "indexed", "failed", "deleted"}, hash : Nat, gen : Nat]
Passes == [at : {"free", "schedule", "runs", "look", "seen", "load", "embed"}, todo : SUBSET Nat,
           run : Nat, key : Nat, seen : Nat, mark : BOOLEAN, got : [Sources -> Nat], gone : SUBSET Sources]

EmbedTypes ==
    /\ texts \in Nat
    /\ text \in [Sources -> Nat]
    /\ rowOf \in [Sources -> SourceRows]
    /\ DOMAIN vectors = Sources
    /\ runs \in Seq(RunRows)
    /\ pass \in Passes

\* Where a pass stands: texts are in hand only once they are loaded, and the
\* backfills it serves are running.
PassPlace ==
    /\ pass.at \notin {"load", "embed"} => (\A k \in Sources : pass.got[k] = 0) /\ pass.gone = {}
    /\ pass.at \in {"runs", "look", "seen"} =>
          \A r \in pass.todo : r \in DOMAIN runs /\ runs[r].st = "running"
    /\ pass.at \in {"look", "seen"} => pass.run \in pass.todo /\ pass.key \in Sources

\* What a pass has in hand is current, or was overtaken.
InHandIsCurrent ==
    \A k \in Sources : k \notin overtaken =>
        /\ pass.got[k] # 0 => pass.got[k] = text[k]
        /\ k \in pass.gone => text[k] = 0
        /\ pass.at = "seen" /\ pass.key = k =>
              /\ pass.seen = text[k]
              /\ ~pass.mark => rowOf[k].st = "indexed" /\ rowOf[k].hash = text[k]

\* A running backfill has touched every text behind its cursor.
CursorTouched ==
    \A r \in DOMAIN runs : \A k \in runs[r].scope :
        runs[r].st = "running" /\ text[k] # 0 /\ k <= runs[r].cursor => k \in runs[r].touched

\* And every text before the one that it looks at.
PageTouched ==
    pass.at \in {"look", "seen"} =>
        \A k \in runs[pass.run].scope : text[k] # 0 /\ k < pass.key => k \in runs[pass.run].touched

\* The inductive form of SemanticIndexSound.
EmbedInv ==
    /\ EmbedTypes /\ PassPlace /\ InHandIsCurrent /\ CursorTouched /\ PageTouched
    /\ IndexedIsCurrent /\ LiveSourceKept

\* The index starts with nothing.
LEMMA EmbedStarts == EmbedInit => EmbedInv
<1> SUFFICES ASSUME EmbedInit PROVE EmbedInv
  OBVIOUS
<1>1. /\ pass = NoPass /\ runs = <<>> /\ texts = 0 /\ \A k \in Sources : rowOf[k] = NoRow /\ text[k] = 0
  BY DEF EmbedInit
<1>2. /\ NoPass \in Passes /\ NoPass.at = "free" /\ NoPass.gone = {} /\ \A k \in Sources : NoPass.got[k] = 0
  BY DEF NoPass, Passes
<1>3. NoRow \in SourceRows /\ NoRow.st = "none"
  BY DEF NoRow, SourceRows
<1>4. runs \in Seq(RunRows) /\ DOMAIN runs = {}
  BY <1>1
<1>5. EmbedTypes
  BY <1>1, <1>2, <1>3, <1>4 DEF EmbedTypes, EmbedInit
<1> QED
  BY <1>1, <1>2, <1>3, <1>4, <1>5 DEF EmbedInv, PassPlace, InHandIsCurrent, CursorTouched, PageTouched,
     IndexedIsCurrent, LiveSourceKept

\* What is written is touched in every run, and nothing else changes in them.
LEMMA TouchIs ==
    ASSUME runs \in Seq(RunRows), NEW ks \in SUBSET Sources
    PROVE  /\ Touch(runs, ks) \in Seq(RunRows) /\ DOMAIN Touch(runs, ks) = DOMAIN runs
           /\ \A r \in DOMAIN runs :
                 /\ runs[r] \in RunRows /\ Touch(runs, ks)[r] \in RunRows
                 /\ Touch(runs, ks)[r].st = runs[r].st /\ Touch(runs, ks)[r].scope = runs[r].scope
                 /\ Touch(runs, ks)[r].cursor = runs[r].cursor
                 /\ Touch(runs, ks)[r].touched = runs[r].touched \cup ks
<1> DEFINE T == Touch(runs, ks)
<1>1. DOMAIN runs = 1 .. Len(runs) /\ Len(runs) \in Nat /\ \A r \in DOMAIN runs : runs[r] \in RunRows
  OBVIOUS
<1>2. DOMAIN T = DOMAIN runs /\ \A r \in DOMAIN runs : T[r] = [runs[r] EXCEPT !.touched = @ \cup ks]
  BY DEF Touch
<1>3. \A r \in DOMAIN runs : /\ T[r] \in RunRows /\ T[r].touched = runs[r].touched \cup ks
                             /\ T[r].st = runs[r].st /\ T[r].scope = runs[r].scope
                             /\ T[r].cursor = runs[r].cursor
  BY <1>1, <1>2 DEF RunRows
<1>4. T = [r \in 1 .. Len(runs) |-> T[r]]
  BY <1>1 DEF Touch
<1> HIDE DEF T
<1>5. T \in Seq(RunRows)
  BY <1>1, <1>3, <1>4
<1> QED
  BY <1>1, <1>2, <1>3, <1>5 DEF T

\* Some runs are rewritten in place.
LEMMA SameRuns ==
    ASSUME runs \in Seq(RunRows), NEW f, DOMAIN f = DOMAIN runs, f = [r \in DOMAIN f |-> f[r]],
           \A r \in DOMAIN runs : f[r] \in RunRows
    PROVE  f \in Seq(RunRows)
<1>1. DOMAIN runs = 1 .. Len(runs) /\ Len(runs) \in Nat
  OBVIOUS
<1>2. f = [r \in 1 .. Len(runs) |-> f[r]]
  BY <1>1
<1> QED
  BY <1>1, <1>2

\* A writer changes texts and marks their rows in every run, and what a pass
\* has in hand of them counts as overtaken.
LEMMA WriteKeeps ==
    ASSUME EmbedInv, NEW ks \in SUBSET Sources, texts' \in Nat, text' \in [Sources -> Nat],
           rowOf' \in [Sources -> SourceRows], DOMAIN vectors' = Sources, runs' = Touch(runs, ks), pass' = pass,
           \A k \in Sources \ ks : /\ text'[k] = text[k] /\ rowOf'[k] = rowOf[k]
                                   /\ vectors'[k] = vectors[k] /\ (k \in overtaken' <=> k \in overtaken),
           \A k \in ks : /\ rowOf'[k].st # "indexed" /\ (text'[k] # 0 => rowOf'[k].st # "deleted")
                         /\ k \in InHand => k \in overtaken'
    PROVE  EmbedInv'
<1>0. /\ EmbedTypes /\ PassPlace /\ InHandIsCurrent /\ CursorTouched /\ PageTouched
      /\ IndexedIsCurrent /\ LiveSourceKept /\ runs \in Seq(RunRows)
  BY DEF EmbedInv, EmbedTypes
<1>1. /\ runs' \in Seq(RunRows) /\ DOMAIN runs' = DOMAIN runs
      /\ \A r \in DOMAIN runs : /\ runs[r] \in RunRows /\ runs'[r].st = runs[r].st
                                /\ runs'[r].scope = runs[r].scope /\ runs'[r].cursor = runs[r].cursor
                                /\ runs'[r].touched = runs[r].touched \cup ks
  BY <1>0, TouchIs
<1>2. \A r \in DOMAIN runs : runs[r].scope \subseteq Sources
  BY <1>1 DEF RunRows
<1>3. EmbedTypes'
  BY <1>0, <1>1 DEF EmbedTypes
<1>4. PassPlace'
  BY <1>0, <1>1 DEF PassPlace
<1>5. InHandIsCurrent'
  <2>1. \A k \in Sources : k \notin InHand =>
           pass.got[k] = 0 /\ k \notin pass.gone /\ ~(pass.at = "seen" /\ pass.key = k)
    BY DEF InHand
  <2> QED
    BY <1>0, <2>1 DEF InHandIsCurrent
<1>6. CursorTouched'
  <2> SUFFICES ASSUME NEW r \in DOMAIN runs, NEW k \in runs[r].scope,
                      runs[r].st = "running", text'[k] # 0, k <= runs[r].cursor
               PROVE  k \in runs'[r].touched
    BY <1>1 DEF CursorTouched
  <2>1. CASE k \in ks
    BY <1>1, <2>1
  <2>2. CASE k \notin ks
    BY <1>0, <1>1, <1>2, <2>2 DEF CursorTouched
  <2> QED
    BY <2>1, <2>2
<1>7. PageTouched'
  <2>1. pass.at \in {"look", "seen"} => pass.run \in DOMAIN runs
    BY <1>0 DEF PassPlace
  <2>2. PageTouched'
    <3> SUFFICES ASSUME pass.at \in {"look", "seen"}, NEW k \in runs[pass.run].scope, text'[k] # 0, k < pass.key
                 PROVE  k \in runs[pass.run].touched \cup ks
      BY <1>1, <2>1 DEF PageTouched
    <3>1. k \notin ks => text[k] # 0
      BY <1>2, <2>1
    <3> QED
      BY <1>0, <3>1 DEF PageTouched
  <2> QED
    BY <2>2
<1>8. IndexedIsCurrent' /\ LiveSourceKept'
  BY <1>0 DEF IndexedIsCurrent, LiveSourceKept
<1> QED
  BY <1>3, <1>4, <1>5, <1>6, <1>7, <1>8 DEF EmbedInv

\* Blocks and operations change and go, and the archive replaces them all.
LEMMA WritersKeep ==
    ASSUME EmbedInv, (\E k \in Sources : WriteSource(k) \/ RemoveSource(k)) \/ PurgeSources
    PROVE  EmbedInv'
<1>0. /\ texts \in Nat /\ text \in [Sources -> Nat] /\ rowOf \in [Sources -> SourceRows]
      /\ DOMAIN vectors = Sources
  BY DEF EmbedInv, EmbedTypes
<1>1. ASSUME NEW k \in Sources, WriteSource(k) PROVE EmbedInv'
  <2>1. /\ texts' = texts + 1 /\ text' = [text EXCEPT ![k] = texts + 1]
        /\ rowOf' = [rowOf EXCEPT ![k] = MarkedPending(k, texts + 1)]
        /\ DOMAIN vectors' = Sources /\ (\A x \in Sources : x # k => vectors'[x] = vectors[x])
        /\ runs' = Touch(runs, {k}) /\ pass' = pass
        /\ overtaken' = IF k \in InHand THEN overtaken \cup {k} ELSE overtaken \ {k}
    BY <1>0, <1>1 DEF WriteSource
  <2>2. MarkedPending(k, texts + 1) \in SourceRows /\ MarkedPending(k, texts + 1).st = "pending"
    BY <1>0 DEF MarkedPending, SourceRows
  <2>3. texts' \in Nat /\ text' \in [Sources -> Nat] /\ \A x \in Sources : x # k => text'[x] = text[x]
    BY <1>0, <2>1
  <2>4. /\ rowOf' \in [Sources -> SourceRows] /\ rowOf'[k].st = "pending"
        /\ \A x \in Sources : x # k => rowOf'[x] = rowOf[x]
    <3> DEFINE p == MarkedPending(k, texts + 1)
    <3> HIDE DEF p
    <3> QED
      BY <1>0, <2>1, <2>2 DEF p
  <2> QED
    BY <2>1, <2>3, <2>4, WriteKeeps
<1>2. ASSUME NEW k \in Sources, RemoveSource(k) PROVE EmbedInv'
  <2>1. /\ texts' = texts + 1 /\ text' = [text EXCEPT ![k] = 0]
        /\ rowOf' = [rowOf EXCEPT ![k].st = "deleted"]
        /\ DOMAIN vectors' = Sources /\ (\A x \in Sources : x # k => vectors'[x] = vectors[x])
        /\ runs' = Touch(runs, {k}) /\ pass' = pass
        /\ overtaken' = IF k \in InHand THEN overtaken \cup {k} ELSE overtaken \ {k}
    BY <1>0, <1>2 DEF RemoveSource
  <2>2. /\ texts' \in Nat /\ text' \in [Sources -> Nat] /\ text'[k] = 0
        /\ \A x \in Sources : x # k => text'[x] = text[x]
    BY <1>0, <2>1
  <2>3. /\ rowOf' \in [Sources -> SourceRows] /\ rowOf'[k].st = "deleted"
        /\ \A x \in Sources : x # k => rowOf'[x] = rowOf[x]
    BY <1>0, <2>1 DEF SourceRows
  <2> QED
    BY <2>1, <2>2, <2>3, WriteKeeps
<1>3. CASE PurgeSources
  <2>1. /\ texts' = texts + 1 /\ text' = [k \in Sources |-> IF k = Digest THEN texts + 1 ELSE 0]
        /\ rowOf' = [k \in Sources |-> IF k = Digest
                       THEN [NoRow EXCEPT !.st = "pending", !.hash = texts + 1] ELSE NoRow]
        /\ DOMAIN vectors' = Sources /\ runs' = Touch(runs, Sources) /\ overtaken' = InHand /\ pass' = pass
    BY <1>3 DEF PurgeSources
  <2>2. texts' \in Nat /\ text' \in [Sources -> Nat]
    BY <1>0, <2>1
  <2>3. rowOf' \in [Sources -> SourceRows] /\ \A k \in Sources : rowOf'[k].st \in {"pending", "none"}
    <3> DEFINE p == [NoRow EXCEPT !.st = "pending", !.hash = texts + 1]
    <3>1. p \in SourceRows /\ p.st = "pending" /\ NoRow \in SourceRows /\ NoRow.st = "none"
      <4>1. NoRow \in SourceRows /\ NoRow.st = "none"
        BY DEF NoRow, SourceRows
      <4>2. texts + 1 \in Nat
        BY <1>0
      <4> QED
        BY <4>1, <4>2 DEF SourceRows
    <3> HIDE DEF p
    <3>2. rowOf' = [k \in Sources |-> IF k = Digest THEN p ELSE NoRow]
      BY <2>1 DEF p
    <3> QED
      BY <3>1, <3>2
  <2> QED
    BY <2>1, <2>2, <2>3, WriteKeeps
<1> QED
  BY <1>1, <1>2, <1>3

\* A pass begins or ends with nothing in hand.
LEMMA FreePass ==
    /\ NoPass \in Passes /\ NoPass.at = "free" /\ NoPass.gone = {} /\ NoPass.todo = {}
    /\ \A k \in Sources : NoPass.got[k] = 0
BY DEF NoPass, Passes

\* Nothing in hand: the pass ends, or another one has not yet read a source.
LEMMA EmptyHandsKeep ==
    ASSUME EmbedInv, pass' \in Passes, pass'.gone = {}, \A k \in Sources : pass'.got[k] = 0,
           pass'.at \in {"free", "schedule", "runs", "load"},
           pass'.at = "runs" => \A r \in pass'.todo : r \in DOMAIN runs' /\ runs'[r].st = "running",
           UNCHANGED <<text, texts, rowOf, vectors, overtaken>>, runs' \in Seq(RunRows), CursorTouched'
    PROVE  EmbedInv'
<1>1. EmbedTypes' /\ PassPlace'
  BY DEF EmbedInv, EmbedTypes, PassPlace
<1>2. InHandIsCurrent' /\ PageTouched'
  BY DEF InHandIsCurrent, PageTouched
<1>3. IndexedIsCurrent' /\ LiveSourceKept'
  BY DEF EmbedInv, IndexedIsCurrent, LiveSourceKept
<1> QED
  BY <1>1, <1>2, <1>3 DEF EmbedInv

\* A new run is behind everything.
LEMMA AppendRun ==
    ASSUME EmbedInv, NEW scope \in SUBSET Sources, runs' = Append(runs, RunRow(scope)), text' = text
    PROVE  /\ runs' \in Seq(RunRows) /\ CursorTouched' /\ DOMAIN runs \subseteq DOMAIN runs'
           /\ \A r \in DOMAIN runs : runs'[r] = runs[r]
<1> DEFINE n == RunRow(scope)
<1>1. n \in RunRows /\ n.cursor = 0 /\ n.scope = scope
  BY DEF RunRow, RunRows
<1>2. runs \in Seq(RunRows) /\ CursorTouched
  BY DEF EmbedInv, EmbedTypes
<1> HIDE DEF n
<1>3. /\ runs' \in Seq(RunRows) /\ DOMAIN runs \subseteq DOMAIN runs'
      /\ \A r \in DOMAIN runs : runs'[r] = runs[r]
      /\ \A r \in DOMAIN runs' : r \notin DOMAIN runs => runs'[r] = n
  BY <1>1, <1>2 DEF n
<1>4. CursorTouched'
  <2> SUFFICES ASSUME NEW r \in DOMAIN runs', NEW k \in runs'[r].scope,
                      runs'[r].st = "running", text[k] # 0, k <= runs'[r].cursor
               PROVE  k \in runs'[r].touched
    BY DEF CursorTouched
  <2>1. CASE r \in DOMAIN runs
    BY <1>2, <1>3, <2>1 DEF CursorTouched
  <2>2. CASE r \notin DOMAIN runs
    <3>1. k \in Sources /\ k <= 0
      BY <1>1, <1>3, <2>2
    <3> QED
      BY <3>1 DEF Sources
  <2> QED
    BY <2>1, <2>2
<1> QED
  BY <1>3, <1>4

\* Runs are scheduled, passes begin and end, and the service comes and goes.
LEMMA ServiceKeeps ==
    ASSUME EmbedInv,
           ResetIndex \/ Schedule \/ CrashIndexer \/ Bootstrap \/ StartPass \/ EmbedFails \/ BackfillFails
           \/ LoadPendingRows \/ \E scope \in SUBSET Sources : ReindexSources(scope)
    PROVE  EmbedInv'
<1>0. /\ EmbedTypes /\ PassPlace /\ CursorTouched /\ runs \in Seq(RunRows) /\ pass \in Passes
  BY DEF EmbedInv, EmbedTypes
<1>1. \A r \in DOMAIN runs : runs[r] \in RunRows
  BY <1>0
<1>a. DOMAIN runs \subseteq Nat
  BY <1>0
<1>2. CASE ResetIndex
  <2>1. /\ rowOf' = [k \in Sources |-> NoRow] /\ vectors' = [k \in Sources |-> NoVectors]
        /\ runs' = [r \in DOMAIN runs |-> [runs[r] EXCEPT !.st = "dropped", !.touched = {}]]
        /\ pass' = [NoPass EXCEPT !.at = "schedule"] /\ overtaken' = {}
        /\ UNCHANGED <<text, texts>>
    BY <1>2 DEF ResetIndex
  <2>2. NoRow \in SourceRows /\ NoRow.st = "none"
    BY DEF NoRow, SourceRows
  <2>3. \A r \in DOMAIN runs : runs'[r] \in RunRows /\ runs'[r].st = "dropped"
    BY <1>1, <2>1 DEF RunRows
  <2>4. runs' \in Seq(RunRows) /\ DOMAIN runs' = DOMAIN runs
    BY <1>0, <2>1, <2>3, SameRuns
  <2>5. pass' \in Passes /\ pass'.at = "schedule" /\ pass'.gone = {} /\ \A k \in Sources : pass'.got[k] = 0
    BY <2>1 DEF NoPass, Passes
  <2>6. rowOf' \in [Sources -> SourceRows] /\ \A k \in Sources : rowOf'[k].st = "none"
    BY <2>1, <2>2
  <2>7. EmbedTypes' /\ PassPlace'
    BY <1>0, <2>1, <2>4, <2>5, <2>6 DEF EmbedTypes, PassPlace
  <2>8. InHandIsCurrent' /\ PageTouched' /\ CursorTouched'
    BY <2>3, <2>4, <2>5 DEF InHandIsCurrent, PageTouched, CursorTouched
  <2>9. IndexedIsCurrent' /\ LiveSourceKept'
    BY <2>6 DEF IndexedIsCurrent, LiveSourceKept
  <2> QED
    BY <2>7, <2>8, <2>9 DEF EmbedInv
<1>3. CASE Schedule
  <2>1. pass' = NoPass /\ runs' = Append(runs, RunRow(Sources))
        /\ UNCHANGED <<text, texts, rowOf, vectors, overtaken>>
    BY <1>3 DEF Schedule
  <2> QED
    BY <2>1, AppendRun, FreePass, EmptyHandsKeep
<1>4. CASE CrashIndexer \/ EmbedFails
  <2>1. pass' = NoPass /\ UNCHANGED <<text, texts, rowOf, vectors, overtaken, runs>>
    BY <1>4 DEF CrashIndexer, EmbedFails
  <2>2. CursorTouched'
    BY <1>0, <2>1 DEF CursorTouched
  <2> QED
    BY <1>0, <2>1, <2>2, FreePass, EmptyHandsKeep
<1>5. ASSUME UNCHANGED <<text, texts, rowOf, vectors, overtaken, pass>>, NEW scope \in SUBSET Sources,
             runs' = Append(runs, RunRow(scope))
      PROVE  EmbedInv'
  <2>1. /\ runs' \in Seq(RunRows) /\ CursorTouched' /\ DOMAIN runs \subseteq DOMAIN runs'
        /\ \A r \in DOMAIN runs : runs'[r] = runs[r]
    BY <1>5, AppendRun
  <2>2. EmbedTypes' /\ PassPlace'
    BY <1>0, <1>5, <2>1 DEF EmbedTypes, PassPlace
  <2>3. pass.at \in {"look", "seen"} => pass.run \in DOMAIN runs
    BY <1>0 DEF PassPlace
  <2>4. InHandIsCurrent' /\ PageTouched'
    BY <1>5, <2>1, <2>3 DEF EmbedInv, InHandIsCurrent, PageTouched
  <2>5. IndexedIsCurrent' /\ LiveSourceKept'
    BY <1>5 DEF EmbedInv, IndexedIsCurrent, LiveSourceKept
  <2> QED
    BY <2>1, <2>2, <2>4, <2>5 DEF EmbedInv
<1>6. CASE Bootstrap
  <2>1. CASE runs' = runs
    <3>1. UNCHANGED <<text, texts, rowOf, vectors, overtaken, pass, runs>>
      BY <1>6, <2>1 DEF Bootstrap
    <3>2. EmbedTypes' /\ PassPlace' /\ CursorTouched'
      BY <1>0, <3>1 DEF EmbedTypes, PassPlace, CursorTouched
    <3>3. InHandIsCurrent' /\ PageTouched' /\ IndexedIsCurrent' /\ LiveSourceKept'
      BY <3>1 DEF EmbedInv, InHandIsCurrent, PageTouched, IndexedIsCurrent, LiveSourceKept
    <3> QED
      BY <3>2, <3>3 DEF EmbedInv
  <2>2. CASE runs' = Append(runs, RunRow(Sources))
    <3>1. UNCHANGED <<text, texts, rowOf, vectors, overtaken, pass>>
      BY <1>6 DEF Bootstrap
    <3> QED
      BY <1>5, <2>2, <3>1
  <2> QED
    BY <1>6, <2>1, <2>2 DEF Bootstrap
<1>7. CASE StartPass
  <2>1. /\ pass' = [NoPass EXCEPT !.at = "runs", !.todo = {r \in DOMAIN runs : runs[r].st = "running"}]
        /\ UNCHANGED <<text, texts, rowOf, vectors, overtaken, runs>>
    BY <1>7 DEF StartPass
  <2>2. /\ pass' \in Passes /\ pass'.at = "runs" /\ pass'.gone = {} /\ \A k \in Sources : pass'.got[k] = 0
        /\ pass'.todo = {r \in DOMAIN runs : runs[r].st = "running"}
    BY <1>a, <2>1 DEF NoPass, Passes
  <2>3. CursorTouched'
    BY <1>0, <2>1 DEF CursorTouched
  <2> QED
    BY <1>0, <2>1, <2>2, <2>3, EmptyHandsKeep
<1>8. CASE BackfillFails
  <2>1. /\ runs' = [runs EXCEPT ![pass.run].st = "failed"] /\ pass' = NoPass
        /\ UNCHANGED <<text, texts, rowOf, vectors, overtaken>> /\ pass.at \in {"look", "seen"}
    BY <1>8 DEF BackfillFails
  <2>2. /\ \A r \in DOMAIN runs : /\ runs'[r] \in RunRows /\ runs'[r].scope = runs[r].scope
                                  /\ runs'[r].cursor = runs[r].cursor /\ runs'[r].touched = runs[r].touched
                                  /\ runs'[r].st = "running" => runs[r].st = "running"
        /\ DOMAIN runs' = DOMAIN runs
    BY <1>1, <2>1 DEF RunRows
  <2>3. runs' \in Seq(RunRows)
    BY <1>0, <2>1, <2>2, SameRuns
  <2>4. CursorTouched'
    BY <1>0, <2>1, <2>2 DEF CursorTouched
  <2> QED
    BY <2>1, <2>3, <2>4, FreePass, EmptyHandsKeep
<1>9. CASE LoadPendingRows
  <2>1. /\ pass' = [pass EXCEPT !.at = "load", !.todo = Pending] /\ pass.at = "runs"
        /\ UNCHANGED <<text, texts, rowOf, vectors, overtaken, runs>>
    BY <1>9 DEF LoadPendingRows
  <2>2. Pending \in SUBSET Nat
    BY DEF Pending, Sources
  <2>3. pass' \in Passes /\ pass'.at = "load" /\ pass'.gone = pass.gone /\ pass'.got = pass.got
    BY <1>0, <2>1, <2>2 DEF Passes
  <2>4. pass.gone = {} /\ \A k \in Sources : pass.got[k] = 0
    BY <1>0, <2>1 DEF PassPlace
  <2>5. CursorTouched'
    BY <1>0, <2>1 DEF CursorTouched
  <2> QED
    BY <1>0, <2>1, <2>3, <2>4, <2>5, EmptyHandsKeep
<1>10. ASSUME NEW scope \in SUBSET Sources, ReindexSources(scope) PROVE EmbedInv'
  BY <1>5, <1>10 DEF ReindexSources
<1> QED
  BY <1>2, <1>3, <1>4, <1>6, <1>7, <1>8, <1>9, <1>10

\* A backfill that has no text left ends, and what it deletes has no text.
LEMMA CompleteKeeps == ASSUME EmbedInv, NEW r \in DOMAIN runs, CompleteRun(r) PROVE EmbedInv'
<1> DEFINE ks == Stale(r)
           T == Touch(runs, ks)
<1>0. /\ EmbedTypes /\ PassPlace /\ InHandIsCurrent /\ CursorTouched
      /\ IndexedIsCurrent /\ LiveSourceKept /\ runs \in Seq(RunRows) /\ pass \in Passes
  BY DEF EmbedInv, EmbedTypes
<1>1. /\ pass.at = "runs" /\ r \in pass.todo /\ After(r) = {}
      /\ rowOf' = [k \in Sources |-> IF k \in ks THEN [rowOf[k] EXCEPT !.st = "deleted"] ELSE rowOf[k]]
      /\ vectors' = [k \in Sources |-> IF k \in ks THEN NoVectors ELSE vectors[k]]
      /\ runs' = [T EXCEPT ![r].st = "complete"] /\ pass' = [pass EXCEPT !.todo = @ \ {r}]
      /\ UNCHANGED <<text, texts, overtaken>>
  BY DEF CompleteRun
<1>2. runs[r].st = "running" /\ runs[r] \in RunRows
  BY <1>0, <1>1 DEF PassPlace
<1>3. runs[r].scope \subseteq Sources /\ runs[r].cursor \in Nat
  BY <1>2 DEF RunRows
<1>4. ks \in SUBSET Sources /\ \A k \in ks : text[k] = 0
  <2>1. ks \in SUBSET Sources
    BY <1>3 DEF Stale
  <2>2. ASSUME NEW k \in ks PROVE text[k] = 0
    <3>1. k \in runs[r].scope /\ k \notin runs[r].touched /\ k \in Nat
      BY <2>1 DEF Stale, Sources
    <3>2. text[k] # 0 => k <= runs[r].cursor
      BY <1>1, <1>3, <3>1 DEF After, InScope
    <3> QED
      BY <1>0, <1>2, <3>1, <3>2 DEF CursorTouched
  <2> QED
    BY <2>1, <2>2
<1>5. /\ T \in Seq(RunRows) /\ DOMAIN T = DOMAIN runs
      /\ \A q \in DOMAIN runs : /\ T[q] \in RunRows /\ T[q].st = runs[q].st /\ T[q].scope = runs[q].scope
                                /\ T[q].cursor = runs[q].cursor /\ T[q].touched = runs[q].touched \cup ks
  <2> HIDE DEF ks
  <2> QED
    BY <1>0, <1>4, TouchIs
<1> HIDE DEF T
<1>6. /\ DOMAIN runs' = DOMAIN runs
      /\ \A q \in DOMAIN runs : /\ runs'[q] \in RunRows /\ runs'[q].scope = runs[q].scope
                                /\ runs'[q].cursor = runs[q].cursor
                                /\ runs'[q].touched = runs[q].touched \cup ks
                                /\ runs'[q].st = (IF q = r THEN "complete" ELSE runs[q].st)
  <2> HIDE DEF ks
  <2> QED
    BY <1>1, <1>5 DEF RunRows
<1>7. runs' \in Seq(RunRows)
  <2>1. runs' = [q \in DOMAIN runs' |-> runs'[q]]
    BY <1>1
  <2> QED
    BY <1>0, <1>6, <2>1, SameRuns
<1> HIDE DEF ks
<1>8. /\ rowOf' \in [Sources -> SourceRows]
      /\ \A k \in Sources : /\ k \in ks => rowOf'[k].st = "deleted"
                            /\ k \notin ks => rowOf'[k] = rowOf[k] /\ vectors'[k] = vectors[k]
  BY <1>0, <1>1 DEF EmbedTypes, SourceRows
<1>9. /\ pass' \in Passes /\ pass'.at = "runs" /\ pass'.got = pass.got /\ pass'.gone = pass.gone
      /\ pass'.todo = pass.todo \ {r}
  BY <1>0, <1>1 DEF Passes
<1>10. EmbedTypes'
  BY <1>0, <1>1, <1>7, <1>8, <1>9 DEF EmbedTypes
<1>11. PassPlace'
  BY <1>0, <1>1, <1>6, <1>9 DEF PassPlace
<1>12. InHandIsCurrent' /\ PageTouched'
  BY <1>0, <1>1, <1>9 DEF InHandIsCurrent, PageTouched
<1>13. CursorTouched'
  BY <1>0, <1>1, <1>6 DEF CursorTouched
<1>14. IndexedIsCurrent' /\ LiveSourceKept'
  BY <1>0, <1>1, <1>4, <1>8 DEF IndexedIsCurrent, LiveSourceKept
<1> QED
  BY <1>10, <1>11, <1>12, <1>13, <1>14 DEF EmbedInv

\* Every set of numbers that is not empty has a first.
LEMMA FirstOf ==
    ASSUME NEW S \in SUBSET Nat, S # {}
    PROVE  \E x \in S : \A y \in S : x <= y
<1> DEFINE R == OpToRel(<, Nat)
<1>1. IsWellFoundedOn(R, Nat)
  BY NatLessThanWellFounded
<1>2. PICK x \in S : \A y \in S : <<y, x>> \notin R
  BY <1>1, WFMin
<1>3. ASSUME NEW y \in S PROVE x <= y
  <2>1. ~(y < x)
    BY <1>2 DEF OpToRel
  <2> QED
    BY <2>1
<1> QED
  BY <1>3

\* A backfill turns to its next text: it has touched those before.
LEMMA PageKeeps == ASSUME EmbedInv, NEW r \in DOMAIN runs, LoadPage(r) PROVE EmbedInv'
<1> DEFINE k == CHOOSE x \in After(r) : \A y \in After(r) : x <= y
<1>0. /\ EmbedTypes /\ PassPlace /\ InHandIsCurrent /\ CursorTouched
      /\ IndexedIsCurrent /\ LiveSourceKept /\ runs \in Seq(RunRows) /\ pass \in Passes
      /\ text \in [Sources -> Nat]
  BY DEF EmbedInv, EmbedTypes
<1>1. /\ pass.at = "runs" /\ r \in pass.todo /\ After(r) # {}
      /\ pass' = [pass EXCEPT !.at = "look", !.run = r, !.key = k, !.seen = text[k]]
      /\ UNCHANGED <<text, rowOf, vectors, runs, overtaken, texts>>
  BY DEF LoadPage
<1>2. runs[r].st = "running" /\ runs[r] \in RunRows /\ r \in Nat
  BY <1>0, <1>1 DEF PassPlace
<1>3. runs[r].scope \subseteq Sources /\ runs[r].cursor \in Nat
  BY <1>2 DEF RunRows
<1>4. After(r) \in SUBSET Nat /\ After(r) \subseteq Sources
  BY <1>3 DEF After, InScope, Sources
<1>5. k \in After(r) /\ \A y \in After(r) : k <= y
  BY <1>1, <1>4, FirstOf
<1> HIDE DEF k
<1>6. k \in Sources /\ k \in Nat /\ text[k] \in Nat
  BY <1>0, <1>4, <1>5
<1>7. /\ pass' \in Passes /\ pass'.at = "look" /\ pass'.run = r /\ pass'.key = k
      /\ pass'.got = pass.got /\ pass'.gone = pass.gone /\ pass'.todo = pass.todo
  BY <1>0, <1>1, <1>2, <1>6 DEF Passes
<1>8. EmbedTypes'
  BY <1>0, <1>1, <1>7 DEF EmbedTypes
<1>9. PassPlace'
  BY <1>0, <1>1, <1>6, <1>7 DEF PassPlace
<1>10. InHandIsCurrent'
  BY <1>0, <1>1, <1>7 DEF InHandIsCurrent
<1>11. PageTouched'
  <2> SUFFICES ASSUME NEW x \in runs[r].scope, text[x] # 0, x < k PROVE x \in runs[r].touched
    BY <1>1, <1>7 DEF PageTouched
  <2>1. x \in Nat
    BY <1>3 DEF Sources
  <2>2. x \notin After(r)
    BY <1>5, <1>6, <2>1
  <2>3. x <= runs[r].cursor
    BY <1>3, <2>1, <2>2 DEF After, InScope
  <2> QED
    BY <1>0, <1>2, <2>3 DEF CursorTouched
<1>12. CursorTouched' /\ IndexedIsCurrent' /\ LiveSourceKept'
  BY <1>0, <1>1 DEF CursorTouched, IndexedIsCurrent, LiveSourceKept
<1> QED
  BY <1>8, <1>9, <1>10, <1>11, <1>12 DEF EmbedInv

\* The row is read: a text that has changed since the page counts as overtaken.
LEMMA LookKeeps == ASSUME EmbedInv, LookAtRow PROVE EmbedInv'
<1> DEFINE k == pass.key
           b == NeedsEmbedding(k, pass.seen)
<1>0. /\ EmbedTypes /\ PassPlace /\ InHandIsCurrent /\ CursorTouched /\ PageTouched
      /\ IndexedIsCurrent /\ LiveSourceKept /\ pass \in Passes
  BY DEF EmbedInv, EmbedTypes
<1>1. /\ pass.at = "look" /\ pass' = [pass EXCEPT !.at = "seen", !.mark = b]
      /\ overtaken' = IF text[k] # pass.seen THEN overtaken \cup {k} ELSE overtaken
      /\ UNCHANGED <<text, rowOf, vectors, runs, texts>>
  BY DEF LookAtRow
<1>2. b \in BOOLEAN /\ (~b => rowOf[k].st = "indexed" /\ rowOf[k].hash = pass.seen)
  BY DEF NeedsEmbedding
<1> HIDE DEF b
<1>3. /\ pass' \in Passes /\ pass'.at = "seen" /\ pass'.run = pass.run /\ pass'.key = k
      /\ pass'.got = pass.got /\ pass'.gone = pass.gone /\ pass'.todo = pass.todo
      /\ pass'.mark = b /\ pass'.seen = pass.seen
  BY <1>0, <1>1, <1>2 DEF Passes
<1>4. EmbedTypes'
  BY <1>0, <1>1, <1>3 DEF EmbedTypes
<1>5. PassPlace' /\ PageTouched'
  BY <1>0, <1>1, <1>3 DEF PassPlace, PageTouched
<1>6. \A x \in Sources : x \notin overtaken' => x \notin overtaken /\ (x = k => text[k] = pass.seen)
  BY <1>1
<1>7. InHandIsCurrent'
  BY <1>0, <1>1, <1>2, <1>3, <1>6 DEF InHandIsCurrent
<1>8. CursorTouched'
  BY <1>0, <1>1 DEF CursorTouched
<1>9. IndexedIsCurrent' /\ LiveSourceKept'
  BY <1>0, <1>1, <1>6 DEF IndexedIsCurrent, LiveSourceKept
<1> QED
  BY <1>4, <1>5, <1>7, <1>8, <1>9 DEF EmbedInv

\* The row is written and the cursor moves to it.
LEMMA UpsertKeeps == ASSUME EmbedInv, UpsertSeen PROVE EmbedInv'
<1> DEFINE k == pass.key
           r == pass.run
           T == Touch(runs, {k})
           p == [st |-> IF pass.mark THEN "pending" ELSE "indexed", hash |-> pass.seen, gen |-> r]
<1>0. /\ EmbedTypes /\ PassPlace /\ InHandIsCurrent /\ CursorTouched /\ PageTouched
      /\ IndexedIsCurrent /\ LiveSourceKept /\ runs \in Seq(RunRows) /\ pass \in Passes
  BY DEF EmbedInv, EmbedTypes
<1>1. /\ pass.at = "seen" /\ rowOf' = [rowOf EXCEPT ![k] = p] /\ runs' = [T EXCEPT ![r].cursor = k]
      /\ overtaken' = IF pass.mark THEN overtaken \ {k} ELSE overtaken
      /\ pass' = [pass EXCEPT !.at = "runs", !.todo = @ \ {r}, !.run = 0, !.key = 0, !.seen = 0, !.mark = FALSE]
      /\ UNCHANGED <<text, vectors, texts>>
  BY DEF UpsertSeen
<1>2. k \in Sources /\ r \in DOMAIN runs /\ runs[r] \in RunRows /\ r \in Nat /\ k \in Nat
  BY <1>0, <1>1 DEF PassPlace, Sources
<1>3. p \in SourceRows /\ p.st = (IF pass.mark THEN "pending" ELSE "indexed") /\ p.hash = pass.seen
  BY <1>0, <1>2 DEF Passes, SourceRows
<1>4. /\ T \in Seq(RunRows) /\ DOMAIN T = DOMAIN runs
      /\ \A q \in DOMAIN runs : /\ T[q] \in RunRows /\ T[q].st = runs[q].st /\ T[q].scope = runs[q].scope
                                /\ T[q].cursor = runs[q].cursor /\ T[q].touched = runs[q].touched \cup {k}
                                /\ runs[q] \in RunRows
  <2>1. {k} \in SUBSET Sources
    BY <1>2
  <2> QED
    BY <1>0, <2>1, TouchIs
<1>5. /\ pass' \in Passes /\ pass'.at = "runs" /\ pass'.got = pass.got /\ pass'.gone = pass.gone
      /\ pass'.todo = pass.todo \ {r}
  BY <1>0, <1>1 DEF Passes
<1>6. /\ \A x \in Sources : x \notin overtaken => (pass.seen = text[x] \/ x # k)
      /\ k \notin overtaken /\ ~pass.mark => rowOf[k].st = "indexed" /\ rowOf[k].hash = text[k]
      /\ pass.mark \in BOOLEAN
  BY <1>0, <1>1, <1>2 DEF InHandIsCurrent, Passes
<1> HIDE DEF T, p
<1>7. /\ rowOf' \in [Sources -> SourceRows] /\ rowOf'[k] = p
      /\ \A x \in Sources : x # k => rowOf'[x] = rowOf[x]
  BY <1>0, <1>1, <1>2, <1>3 DEF EmbedTypes
<1> HIDE DEF r, k
<1>8. /\ DOMAIN runs' = DOMAIN runs
      /\ \A q \in DOMAIN runs : /\ runs'[q] \in RunRows /\ runs'[q].scope = runs[q].scope
                                /\ runs'[q].cursor = (IF q = r THEN k ELSE runs[q].cursor)
                                /\ runs'[q].touched = runs[q].touched \cup {k}
                                /\ runs'[q].st = runs[q].st
  BY <1>1, <1>2, <1>4 DEF RunRows
<1>9. runs' \in Seq(RunRows)
  <2>1. runs' = [q \in DOMAIN runs' |-> runs'[q]]
    BY <1>1
  <2> QED
    BY <1>0, <1>8, <2>1, SameRuns
<1>10. EmbedTypes'
  BY <1>0, <1>1, <1>5, <1>7, <1>9 DEF EmbedTypes
<1>11. PassPlace'
  BY <1>0, <1>1, <1>5, <1>8 DEF PassPlace
<1>12. InHandIsCurrent' /\ PageTouched'
  BY <1>5, <1>11 DEF PassPlace, InHandIsCurrent, PageTouched
<1>13. CursorTouched'
  <2> SUFFICES ASSUME NEW q \in DOMAIN runs, NEW x \in runs[q].scope, runs[q].st = "running",
                      text[x] # 0, x <= runs'[q].cursor
               PROVE  x \in runs[q].touched \cup {k}
    BY <1>1, <1>8 DEF CursorTouched
  <2>1. CASE q # r
    BY <1>0, <1>8, <2>1 DEF CursorTouched
  <2>2. CASE q = r
    <3>1. x \in Nat /\ x <= k
      BY <1>2, <1>4, <1>8, <2>2 DEF RunRows, Sources
    <3>2. CASE x < k
      BY <1>0, <1>1, <2>2, <3>2 DEF PageTouched, k, r
    <3> QED
      BY <1>2, <3>1, <3>2
  <2> QED
    BY <2>1, <2>2
<1>14. IndexedIsCurrent'
  <2> SUFFICES ASSUME NEW x \in Sources, rowOf'[x].st = "indexed", x \notin overtaken'
               PROVE  rowOf'[x].hash = text[x] /\ vectors[x] = Embedded(text[x])
    BY <1>1 DEF IndexedIsCurrent, Embedded, Chunks
  <2>1. CASE x # k
    BY <1>0, <1>1, <1>7, <2>1 DEF IndexedIsCurrent
  <2>2. CASE x = k
    <3>1. ~pass.mark
      BY <1>3, <1>7, <2>2
    <3>2. k \notin overtaken
      BY <1>1, <2>2, <3>1
    <3>3. rowOf[k].st = "indexed" /\ pass.seen = text[k]
      BY <1>2, <1>6, <3>1, <3>2
    <3>4. vectors[k] = Embedded(text[k])
      BY <1>0, <1>2, <3>2, <3>3 DEF IndexedIsCurrent
    <3> QED
      BY <1>3, <1>7, <2>2, <3>3, <3>4
  <2> QED
    BY <2>1, <2>2
<1>15. LiveSourceKept'
  <2>1. p.st # "deleted"
    BY <1>3
  <2> QED
    BY <1>0, <1>1, <1>7, <2>1 DEF LiveSourceKept
<1> QED
  BY <1>10, <1>11, <1>12, <1>13, <1>14, <1>15 DEF EmbedInv

\* The current text of a pending source is read, or found gone.
LEMMA LoadKeeps == ASSUME EmbedInv, NEW k \in Sources, LoadCurrentSource(k) PROVE EmbedInv'
<1>0. /\ EmbedTypes /\ PassPlace /\ InHandIsCurrent /\ CursorTouched
      /\ IndexedIsCurrent /\ LiveSourceKept /\ pass \in Passes /\ text[k] \in Nat
  BY DEF EmbedInv, EmbedTypes
<1>1. /\ pass.at = "load" /\ UNCHANGED <<text, rowOf, vectors, runs, overtaken, texts>>
      /\ pass' = [pass EXCEPT !.todo = @ \ {k}, !.got[k] = text[k],
                             !.gone = IF text[k] = 0 THEN @ \cup {k} ELSE @]
  BY DEF LoadCurrentSource
<1>2. pass.got \in [Sources -> Nat] /\ pass.gone \subseteq Sources /\ pass.todo \subseteq Nat
  BY <1>0 DEF Passes
<1>3. /\ pass'.at = "load" /\ pass'.got = [pass.got EXCEPT ![k] = text[k]]
      /\ pass'.gone = (IF text[k] = 0 THEN pass.gone \cup {k} ELSE pass.gone)
      /\ pass'.key = pass.key /\ pass'.todo = pass.todo \ {k}
  BY <1>0, <1>1 DEF Passes
<1>4. pass'.got \in [Sources -> Nat] /\ pass'.gone \subseteq Sources
  BY <1>0, <1>2, <1>3
<1>5. pass' \in Passes
  <2> DEFINE g == [pass.got EXCEPT ![k] = text[k]]
             h == IF text[k] = 0 THEN pass.gone \cup {k} ELSE pass.gone
  <2>1. pass' = [pass EXCEPT !.todo = pass.todo \ {k}, !.got = g, !.gone = h]
    BY <1>0, <1>1 DEF Passes
  <2>2. g \in [Sources -> Nat] /\ h \in SUBSET Sources /\ pass.todo \ {k} \in SUBSET Nat
    BY <1>0, <1>2
  <2> HIDE DEF g, h
  <2> QED
    BY <1>0, <2>1, <2>2 DEF Passes
<1>6. EmbedTypes'
  BY <1>0, <1>1, <1>5 DEF EmbedTypes
<1>7. PassPlace' /\ PageTouched'
  BY <1>3 DEF PassPlace, PageTouched
<1>8. InHandIsCurrent'
  <2> SUFFICES ASSUME NEW x \in Sources, x \notin overtaken
               PROVE  (pass'.got[x] # 0 => pass'.got[x] = text[x]) /\ (x \in pass'.gone => text[x] = 0)
    BY <1>1, <1>3 DEF InHandIsCurrent
  <2>1. CASE x = k
    BY <1>0, <1>2, <1>3, <2>1 DEF InHandIsCurrent
  <2>2. CASE x # k
    BY <1>0, <1>2, <1>3, <2>2 DEF InHandIsCurrent
  <2> QED
    BY <2>1, <2>2
<1>9. CursorTouched' /\ IndexedIsCurrent' /\ LiveSourceKept'
  BY <1>0, <1>1 DEF CursorTouched, IndexedIsCurrent, LiveSourceKept
<1> QED
  BY <1>6, <1>7, <1>8, <1>9 DEF EmbedInv

\* A pass writes the rows and vectors of sources it has in hand and touches
\* them.
LEMMA WrittenTouch ==
    ASSUME EmbedInv, NEW ks \in SUBSET Sources, runs' = Touch(runs, ks), text' = text
    PROVE  runs' \in Seq(RunRows) /\ CursorTouched'
<1>0. runs \in Seq(RunRows) /\ CursorTouched
  BY DEF EmbedInv, EmbedTypes
<1>1. /\ runs' \in Seq(RunRows) /\ DOMAIN runs' = DOMAIN runs
      /\ \A r \in DOMAIN runs : /\ runs'[r].st = runs[r].st
                                /\ runs'[r].scope = runs[r].scope /\ runs'[r].cursor = runs[r].cursor
                                /\ runs'[r].touched = runs[r].touched \cup ks
  BY <1>0, TouchIs
<1> QED
  BY <1>0, <1>1 DEF CursorTouched

\* The pass writes what it has read: sources gone, embedded or failed.
LEMMA StoreKeeps ==
    ASSUME EmbedInv, MarkSourcesDeleted \/ StoreVectors \/ FailSources
    PROVE  EmbedInv'
<1>0. /\ EmbedTypes /\ PassPlace /\ InHandIsCurrent /\ CursorTouched
      /\ IndexedIsCurrent /\ LiveSourceKept /\ pass \in Passes
      /\ rowOf \in [Sources -> SourceRows] /\ DOMAIN vectors = Sources
  BY DEF EmbedInv, EmbedTypes
<1>1. pass.got \in [Sources -> Nat] /\ pass.gone \in SUBSET Sources
  BY <1>0 DEF Passes
<1>2. NoRow.st = "none"
  BY DEF NoRow
<1>3. CASE MarkSourcesDeleted
  <2>1. /\ rowOf' = [k \in Sources |-> IF k \in pass.gone /\ rowOf[k] # NoRow
                       THEN [rowOf[k] EXCEPT !.st = "deleted"] ELSE rowOf[k]]
        /\ vectors' = [k \in Sources |-> IF k \in pass.gone THEN NoVectors ELSE vectors[k]]
        /\ runs' = Touch(runs, pass.gone) /\ pass' = [pass EXCEPT !.at = "embed", !.gone = {}]
        /\ UNCHANGED <<text, overtaken, texts>>
    BY <1>3 DEF MarkSourcesDeleted
  <2>2. runs' \in Seq(RunRows) /\ CursorTouched'
    BY <1>1, <2>1, WrittenTouch
  <2>3. pass' \in Passes /\ pass'.at = "embed" /\ pass'.gone = {} /\ pass'.got = pass.got
    BY <1>0, <2>1 DEF Passes
  <2>4. /\ rowOf' \in [Sources -> SourceRows]
        /\ \A k \in Sources : /\ k \in pass.gone => rowOf'[k].st \in {"deleted", "none"}
                              /\ k \notin pass.gone => rowOf'[k] = rowOf[k] /\ vectors'[k] = vectors[k]
    BY <1>0, <1>2, <2>1 DEF SourceRows
  <2>5. EmbedTypes'
    BY <1>0, <2>1, <2>2, <2>3, <2>4 DEF EmbedTypes
  <2>6. PassPlace' /\ PageTouched' /\ InHandIsCurrent'
    BY <1>0, <2>1, <2>3 DEF PassPlace, PageTouched, InHandIsCurrent
  <2>7. IndexedIsCurrent'
    BY <1>0, <2>1, <2>4 DEF IndexedIsCurrent
  <2>8. LiveSourceKept'
    BY <1>0, <2>1, <2>4 DEF LiveSourceKept, InHandIsCurrent
  <2> QED
    BY <2>2, <2>5, <2>6, <2>7, <2>8 DEF EmbedInv
<1>4. CASE StoreVectors
  <2> DEFINE ks == {k \in Sources : pass.got[k] # 0}
  <2>1. /\ vectors' = [k \in Sources |-> IF k \in ks THEN UpsertChunks(vectors[k], pass.got[k]) ELSE vectors[k]]
        /\ rowOf' = [k \in Sources |-> IF k \in ks /\ rowOf[k] # NoRow
                       THEN [rowOf[k] EXCEPT !.st = "indexed", !.hash = pass.got[k]] ELSE rowOf[k]]
        /\ runs' = Touch(runs, ks) /\ pass' = NoPass
        /\ UNCHANGED <<text, overtaken, texts>>
    BY <1>4 DEF StoreVectors
  <2>2. ks \in SUBSET Sources /\ \A k \in ks : k \notin overtaken => pass.got[k] = text[k]
    BY <1>0 DEF InHandIsCurrent
  <2>3. \A k \in Sources : k \in ks => vectors'[k] = Embedded(pass.got[k])
    BY <2>1 DEF UpsertChunks
  <2> HIDE DEF ks
  <2>4. runs' \in Seq(RunRows) /\ CursorTouched'
    BY <2>1, <2>2, WrittenTouch
  <2>5. ASSUME NEW k \in Sources
        PROVE  /\ rowOf'[k] \in SourceRows
               /\ k \in ks => rowOf'[k].st = "none" \/ (rowOf'[k].st = "indexed" /\ rowOf'[k].hash = pass.got[k])
               /\ k \notin ks => rowOf'[k] = rowOf[k] /\ vectors'[k] = vectors[k]
    <3>1. rowOf[k] \in SourceRows /\ pass.got[k] \in Nat
      BY <1>0, <1>1
    <3>2. CASE k \in ks /\ rowOf[k] # NoRow
      BY <2>1, <3>1, <3>2 DEF SourceRows
    <3>3. CASE ~(k \in ks /\ rowOf[k] # NoRow)
      BY <1>2, <2>1, <3>1, <3>3
    <3> QED
      BY <3>2, <3>3
  <2>6. rowOf' \in [Sources -> SourceRows]
    <3>1. rowOf' = [k \in Sources |-> rowOf'[k]]
      BY <2>1
    <3> QED
      BY <2>5, <3>1
  <2>7. EmbedTypes'
    BY <1>0, <2>1, <2>4, <2>6, FreePass DEF EmbedTypes
  <2>8. PassPlace' /\ PageTouched' /\ InHandIsCurrent'
    BY <2>1, FreePass DEF PassPlace, PageTouched, InHandIsCurrent
  <2>9. IndexedIsCurrent'
    <3> SUFFICES ASSUME NEW k \in Sources, rowOf'[k].st = "indexed", k \notin overtaken
                 PROVE  rowOf'[k].hash = text[k] /\ vectors'[k] = Embedded(text[k])
      BY <2>1 DEF IndexedIsCurrent, Embedded, Chunks
    <3>1. CASE k \in ks
      BY <2>2, <2>3, <2>5, <3>1
    <3>2. CASE k \notin ks
      BY <1>0, <2>5, <3>2 DEF IndexedIsCurrent
    <3> QED
      BY <3>1, <3>2
  <2>10. LiveSourceKept'
    BY <1>0, <2>1, <2>5 DEF LiveSourceKept
  <2> QED
    BY <2>4, <2>7, <2>8, <2>9, <2>10 DEF EmbedInv
<1>5. CASE FailSources
  <2> DEFINE ks == {k \in Sources : pass.got[k] # 0 /\ rowOf[k] # NoRow}
  <2>1. /\ rowOf' = [k \in Sources |-> IF k \in ks THEN [rowOf[k] EXCEPT !.st = "failed"] ELSE rowOf[k]]
        /\ runs' = Touch(runs, ks) /\ pass' = NoPass
        /\ UNCHANGED <<text, vectors, overtaken, texts>>
    BY <1>5 DEF FailSources
  <2>2. ks \in SUBSET Sources
    OBVIOUS
  <2> HIDE DEF ks
  <2>3. runs' \in Seq(RunRows) /\ CursorTouched'
    BY <2>1, <2>2, WrittenTouch
  <2>4. /\ rowOf' \in [Sources -> SourceRows]
        /\ \A k \in Sources : (k \in ks => rowOf'[k].st = "failed") /\ (k \notin ks => rowOf'[k] = rowOf[k])
    BY <1>0, <2>1 DEF SourceRows
  <2>5. EmbedTypes'
    BY <1>0, <2>1, <2>3, <2>4, FreePass DEF EmbedTypes
  <2>6. PassPlace' /\ PageTouched' /\ InHandIsCurrent'
    BY <2>1, FreePass DEF PassPlace, PageTouched, InHandIsCurrent
  <2>7. IndexedIsCurrent' /\ LiveSourceKept'
    BY <1>0, <2>1, <2>4 DEF IndexedIsCurrent, LiveSourceKept
  <2> QED
    BY <2>3, <2>5, <2>6, <2>7 DEF EmbedInv
<1> QED
  BY <1>3, <1>4, <1>5

\* Every step of the writers, of the passes and of the service keeps rows,
\* vectors and runs in agreement.
LEMMA EmbedKeeps == EmbedInv /\ EmbedNext => EmbedInv'
<1> SUFFICES ASSUME EmbedInv, EmbedNext PROVE EmbedInv'
  OBVIOUS
<1>1. ASSUME PassStep PROVE EmbedInv'
  BY <1>1, PageKeeps, CompleteKeeps, LookKeeps, UpsertKeeps, ServiceKeeps, StoreKeeps, LoadKeeps DEF PassStep
<1>2. ASSUME NEW scope \in {Sources} \cup {{k} : k \in Sources}, ReindexSources(scope) PROVE EmbedInv'
  <2>1. scope \in SUBSET Sources
    OBVIOUS
  <2> QED
    BY <1>2, <2>1, ServiceKeeps
<1> QED
  BY <1>1, <1>2, WritersKeep, ServiceKeeps, StoreKeeps DEF EmbedNext

\* So does a step of another part.
LEMMA EmbedStep == EmbedInv /\ [EmbedNext]_embedVars => EmbedInv'
<1> SUFFICES ASSUME EmbedInv, [EmbedNext]_embedVars PROVE EmbedInv'
  OBVIOUS
<1>1. CASE UNCHANGED embedVars
  <2>1. UNCHANGED <<text, rowOf, vectors, runs, pass, overtaken, texts>>
    BY <1>1 DEF embedVars
  <2>2. EmbedTypes' /\ PassPlace' /\ CursorTouched'
    BY <2>1 DEF EmbedInv, EmbedTypes, PassPlace, CursorTouched
  <2>3. InHandIsCurrent' /\ PageTouched' /\ IndexedIsCurrent' /\ LiveSourceKept'
    BY <2>1 DEF EmbedInv, InHandIsCurrent, PageTouched, IndexedIsCurrent, LiveSourceKept
  <2> QED
    BY <2>2, <2>3 DEF EmbedInv
<1> QED
  BY <1>1, EmbedKeeps

\* A step of the pipeline is one of the semantic index, or leaves it alone.
LEMMA EmbedFocus ==
    ASSUME [Next]_pipelineVars
    PROVE  [EmbedNext]_embedVars
BY DEF Next, OthersRest, pipelineVars

\* What is marked indexed is embedded with its current text, and no live source
\* is taken for stale: only a source whose text changed while a pass had it in
\* hand may be behind, however runs, writers and crashes interleave.
THEOREM SemanticIndexIsSound == Spec => []SemanticIndexSound
<1>1. Init => EmbedInv
  BY EmbedStarts DEF Init
<1>2. EmbedInv /\ [Next]_pipelineVars => EmbedInv'
  BY EmbedStep, EmbedFocus
<1>3. EmbedInv => SemanticIndexSound
  BY DEF EmbedInv, SemanticIndexSound
<1> QED
  BY <1>1, <1>2, <1>3, PTL DEF Spec
-----------------------------------------------------------------------------
(* The turn stream.                                                        *)

Checkpoints == Nat \cup {-1}
Cursors == [gen : Nat \X BOOLEAN, since : Checkpoints, through : Checkpoints, item : Nat, op : Nat,
            itemsDone : BOOLEAN]
Serving == {"header", "page", "refs", "send", "complete"}

\* Rows of a turn lie behind projected_through, and calls are numbered from 1.
WellWritten(w, t) ==
    DOMAIN w = {"exists", "item", "op"} /\ w.item \subseteq 1 .. t /\ w.op \in Seq(1 .. t)

WrittenTypes ==
    /\ through \in Nat /\ generation \in Nat /\ stale \in BOOLEAN /\ gone \in BOOLEAN
    /\ WellWritten(written, through) /\ made \in Seq(EventKind)

ReaderTypes ==
    /\ req = [pc |-> req.pc, cur |-> req.cur, items |-> req.items, ops |-> req.ops, whole |-> req.whole]
    /\ client = [has |-> client.has, cur |-> client.cur, items |-> client.items, ops |-> client.ops]
    /\ req.pc \in {"idle", "reset"} \cup Serving
    /\ req.cur \in Cursors /\ client.cur \in Cursors
    /\ req.pc \in Serving => req.cur.through \in Nat
    /\ req.pc = "page" => req.cur = client.cur /\ req.items = {}
    /\ req.pc \in {"header", "complete"} => req.items = {}

\* Nobody has seen a generation that is still to come.
SeenBefore(g) == g[1] <= generation /\ (g[2] => gone)

\* `items` and `ops` are all that the cursor says was read of the rows `w`:
\* items up to `item`, or to the checkpoint once they are done, and operations
\* up to `op`, or as they were at `since`.
CursorHolds(w, t, cur, items, ops) ==
    /\ items \subseteq w.item /\ DOMAIN ops \subseteq DOMAIN w.op
    /\ cur.since <= t /\ cur.through <= t /\ cur.item <= t
    /\ cur.through # -1 => cur.since <= cur.through
    /\ cur.through = -1 => cur.op = 0 /\ ~cur.itemsDone
    /\ \A i \in w.item :
          i <= cur.since \/ i <= cur.item \/ (cur.itemsDone /\ i <= cur.through) => i \in items
    /\ \A o \in DOMAIN w.op :
          w.op[o] <= cur.since \/ (o <= cur.op /\ w.op[o] <= cur.through)
             => o \in DOMAIN ops /\ ops[o] = w.op[o]

\* Nothing up to the checkpoint is left to read.
AllRead(w, cur) ==
    /\ cur.itemsDone
    /\ \A o \in DOMAIN w.op : w.op[o] <= cur.through => o <= cur.op \/ w.op[o] <= cur.since

Current(cur) == cur.gen = Position /\ ~stale

ClientHolds ==
    client.has /\ Current(client.cur) =>
        CursorHolds(written, through, client.cur, client.items, client.ops)

\* At every step the request has in hand, with what was sent before, all that
\* its cursor says.
RequestHolds ==
    Current(req.cur) =>
        /\ req.pc = "header" /\ req.whole => CursorHolds(written, through, req.cur, {}, <<>>)
        /\ (req.pc = "header" /\ ~req.whole) \/ req.pc = "page" =>
              CursorHolds(written, through, req.cur, client.items, client.ops)
        /\ req.pc = "refs" => CursorHolds(written, through, req.cur, client.items \cup req.items, client.ops)
        /\ req.pc = "send" =>
              CursorHolds(written, through, req.cur, client.items \cup req.items, Over(req.ops, client.ops))
        /\ req.pc = "complete" => /\ CursorHolds(written, through, req.cur, client.items, client.ops)
                                  /\ AllRead(written, req.cur)

\* The inductive form of StreamExact.
StreamInv ==
    /\ WrittenTypes /\ ReaderTypes /\ SeenBefore(req.cur.gen) /\ SeenBefore(client.cur.gen)
    /\ ClientHolds /\ RequestHolds

\* Every bounded set of numbers that is not empty has a greatest.
LEMMA MaxOf ==
    ASSUME NEW b \in Nat, NEW S \in SUBSET (1 .. b), S # {}
    PROVE  Max(S) \in S /\ \A y \in S : y <= Max(S)
<1> DEFINE T == {b - x : x \in S}
<1>0. \A x \in S : x \in 1 .. b /\ b - x \in Nat
  OBVIOUS
<1>1. T \in SUBSET Nat /\ T # {}
  BY <1>0
<1>2. PICK m \in T : \A y \in T : m <= y
  BY <1>1, FirstOf
<1>3. PICK x \in S : m = b - x
  BY <1>2
<1>4. \A y \in S : x >= y
  <2> SUFFICES ASSUME NEW y \in S PROVE x >= y
    OBVIOUS
  <2>1. m <= b - y
    BY <1>2
  <2> QED
    BY <1>0, <1>3, <2>1
<1>5. Max(S) \in S /\ \A y \in S : Max(S) >= y
  BY <1>4 DEF Max
<1> QED
  BY <1>5

\* A page is the beginning of the rows, it is empty only when there is no row,
\* and one that is not full is all of them.
LEMMA FirstRowsAre ==
    ASSUME NEW b \in Nat, NEW rows \in SUBSET (1 .. b), NEW n \in Nat \ {0}
    PROVE  /\ FirstRows(rows, n) \subseteq rows
           /\ \A i \in FirstRows(rows, n), j \in rows : j < i => j \in FirstRows(rows, n)
           /\ FirstRows(rows, n) = {} => rows = {}
           /\ Cardinality(FirstRows(rows, n)) < n => FirstRows(rows, n) = rows
<1> DEFINE F == FirstRows(rows, n)
           Before(i) == {j \in rows : j < i}
<1>0. \A i \in rows : i \in Nat
  OBVIOUS
<1>1. F \subseteq rows /\ \A i \in rows : i \in F <=> Cardinality(Before(i)) < n
  BY DEF FirstRows
<1>2. IsFiniteSet(rows) /\ IsFiniteSet(F) /\ \A i \in rows : IsFiniteSet(Before(i))
  <2>1. IsFiniteSet(1 .. b)
    BY FS_Interval
  <2>2. \A S \in SUBSET (1 .. b) : IsFiniteSet(S)
    BY <2>1, FS_Subset
  <2>3. F \in SUBSET (1 .. b)
    BY <1>1
  <2>4. \A i \in rows : Before(i) \in SUBSET (1 .. b)
    OBVIOUS
  <2> HIDE DEF F, Before
  <2> QED
    BY <2>2, <2>3, <2>4
<1>3. ASSUME NEW i \in F, NEW j \in rows, j < i PROVE j \in F
  <2>0. i \in rows /\ i \in Nat /\ j \in Nat
    BY <1>0, <1>1
  <2>1. Before(j) \subseteq Before(i) /\ i \in rows
    <3> SUFFICES ASSUME NEW k \in Before(j) PROVE k \in Before(i)
      BY <2>0
    <3>1. k \in rows /\ k \in Nat /\ k < j
      BY <1>0
    <3> QED
      BY <1>3, <2>0, <3>1
  <2>2. Cardinality(Before(j)) <= Cardinality(Before(i))
    BY <1>2, <2>1, FS_Subset
  <2>3. Cardinality(Before(j)) \in Nat /\ Cardinality(Before(i)) \in Nat /\ Cardinality(Before(i)) < n
    BY <1>1, <1>2, <2>1, FS_CardinalityType
  <2>4. Cardinality(Before(j)) < n
    BY <2>2, <2>3
  <2> QED
    BY <1>1, <2>4
<1>4. ASSUME F = {} PROVE rows = {}
  <2> SUFFICES ASSUME rows # {} PROVE FALSE
    OBVIOUS
  <2>1. rows \in SUBSET Nat
    BY <1>0
  <2>2. PICK m \in rows : \A y \in rows : m <= y
    BY <2>1, FirstOf
  <2>3. Before(m) = {}
    <3> SUFFICES ASSUME NEW y \in rows, y < m PROVE FALSE
      OBVIOUS
    <3>1. y \in Nat /\ m \in Nat /\ m <= y
      BY <1>0, <2>2
    <3> QED
      BY <3>1
  <2>4. Cardinality(Before(m)) = 0
    BY <2>3, FS_EmptySet
  <2> QED
    BY <1>1, <1>4, <2>4
<1>5. ASSUME Cardinality(F) < n PROVE F = rows
  <2> SUFFICES ASSUME F # rows PROVE FALSE
    OBVIOUS
  <2>1. rows \ F # {} /\ rows \ F \in SUBSET Nat
    BY <1>0, <1>1
  <2>2. PICK m \in rows \ F : \A y \in rows \ F : m <= y
    BY <2>1, FirstOf
  <2>3. Before(m) \subseteq F
    <3> SUFFICES ASSUME NEW y \in rows, y < m, y \notin F PROVE FALSE
      OBVIOUS
    <3>1. y \in Nat /\ m \in Nat /\ m <= y
      BY <1>0, <2>2
    <3> QED
      BY <3>1
  <2>4. Cardinality(Before(m)) <= Cardinality(F)
    BY <1>2, <2>3, FS_Subset
  <2>5. Cardinality(Before(m)) \in Nat /\ Cardinality(F) \in Nat
    BY <1>2, FS_CardinalityType
  <2>6. Cardinality(Before(m)) < n
    BY <1>5, <2>4, <2>5
  <2> QED
    BY <1>1, <2>2, <2>6
<1> QED
  BY <1>1, <1>3, <1>4, <1>5

\* What one event does to a turn: whatever it changes carries its offset.
Grown(w, v, t) ==
    /\ w.item \subseteq v.item /\ v.item \subseteq w.item \cup {t + 1}
    /\ DOMAIN w.op \subseteq DOMAIN v.op
    /\ \A o \in DOMAIN v.op : (o \in DOMAIN w.op /\ v.op[o] = w.op[o]) \/ v.op[o] = t + 1

\* Events grow a turn.
LEMMA ApplyGrows ==
    ASSUME NEW t \in Nat, NEW w, WellWritten(w, t), NEW kind \in EventKind
    PROVE  WellWritten(Apply(w, t + 1, kind), t + 1) /\ Grown(w, Apply(w, t + 1, kind), t)
<1> DEFINE v == Apply(w, t + 1, kind)
<1>1. w.item \subseteq 1 .. t /\ w.op \in Seq(1 .. t)
  BY DEF WellWritten
<1>2. w.op \in Seq(1 .. (t + 1)) /\ DOMAIN w.op = 1 .. Len(w.op) /\ Len(w.op) \in Nat
  <2>1. \A x \in 1 .. t : x \in 1 .. (t + 1)
    OBVIOUS
  <2> QED
    BY <1>1, <2>1
<1>3. w.item \subseteq 1 .. (t + 1) /\ t + 1 \in 1 .. (t + 1)
  BY <1>1
<1>4. CASE kind = "call"
  <2>1. /\ v.item = w.item \cup {t + 1} /\ v.op = Append(w.op, t + 1)
        /\ DOMAIN v = {"exists", "item", "op"}
    BY <1>4 DEF Apply
  <2> HIDE DEF v
  <2>2. /\ v.op \in Seq(1 .. (t + 1)) /\ DOMAIN v.op = 1 .. (Len(w.op) + 1)
        /\ \A o \in 1 .. Len(w.op) : v.op[o] = w.op[o]
        /\ v.op[Len(w.op) + 1] = t + 1
    BY <1>2, <1>3, <2>1
  <2>3. WellWritten(v, t + 1)
    BY <1>3, <2>1, <2>2 DEF WellWritten
  <2>4. \A o \in 1 .. (Len(w.op) + 1) : o \in 1 .. Len(w.op) \/ o = Len(w.op) + 1
    BY <1>2
  <2>5. 1 .. Len(w.op) \subseteq 1 .. (Len(w.op) + 1)
    BY <1>2
  <2>6. Grown(w, v, t)
    BY <1>2, <2>1, <2>2, <2>4, <2>5 DEF Grown
  <2> QED
    BY <2>3, <2>6 DEF v
<1>5. CASE kind = "result"
  <2>1. /\ v.item = w.item /\ v.op = IF w.op = <<>> THEN w.op ELSE [w.op EXCEPT ![1] = t + 1]
        /\ DOMAIN v = {"exists", "item", "op"}
    BY <1>5 DEF Apply
  <2> HIDE DEF v
  <2>2. /\ v.op \in Seq(1 .. (t + 1)) /\ DOMAIN v.op = DOMAIN w.op
        /\ \A o \in DOMAIN w.op : v.op[o] = w.op[o] \/ v.op[o] = t + 1
    <3>1. CASE w.op = <<>>
      BY <1>2, <2>1, <3>1
    <3>2. CASE w.op # <<>>
      <4>1. v.op = [w.op EXCEPT ![1] = t + 1]
        BY <2>1, <3>2
      <4>2. DOMAIN v.op = DOMAIN w.op /\ \A o \in DOMAIN w.op : v.op[o] = w.op[o] \/ v.op[o] = t + 1
        BY <4>1
      <4>3. v.op \in Seq(1 .. (t + 1))
        <5>1. 1 \in 1 .. Len(w.op)
          BY <1>2, <3>2
        <5> QED
          BY <1>2, <1>3, <4>1, <5>1, ExceptSeq
      <4> QED
        BY <4>2, <4>3
    <3> QED
      BY <3>1, <3>2
  <2>3. WellWritten(v, t + 1)
    BY <1>3, <2>1, <2>2 DEF WellWritten
  <2>4. Grown(w, v, t)
    BY <2>1, <2>2 DEF Grown
  <2> QED
    BY <2>3, <2>4 DEF v
<1> QED
  BY <1>4, <1>5 DEF EventKind

\* What a cursor says still holds when the turn has grown: what changed lies
\* behind every checkpoint.
LEMMA HoldsGrows ==
    ASSUME NEW t \in Nat, NEW w, NEW v, WellWritten(w, t), Grown(w, v, t), NEW cur \in Cursors, NEW items, NEW ops,
           CursorHolds(w, t, cur, items, ops)
    PROVE  CursorHolds(v, t + 1, cur, items, ops) /\ (AllRead(w, cur) => AllRead(v, cur))
<1>1. cur.since \in Int /\ cur.through \in Int /\ cur.item \in Nat /\ cur.op \in Nat
  BY DEF Cursors, Checkpoints
<1>2. /\ cur.since <= t /\ cur.through <= t /\ cur.item <= t
      /\ cur.since < t + 1 /\ cur.through < t + 1 /\ cur.item < t + 1
      /\ cur.since <= t + 1 /\ cur.through <= t + 1 /\ cur.item <= t + 1
  BY <1>1 DEF CursorHolds
<1>3. ASSUME NEW i \in v.item, i <= cur.since \/ i <= cur.item \/ (cur.itemsDone /\ i <= cur.through)
      PROVE  i \in items
  <2>1. i # t + 1
    BY <1>1, <1>2, <1>3
  <2>2. i \in w.item
    BY <2>1 DEF Grown
  <2> QED
    BY <1>3, <2>2 DEF CursorHolds
<1>4. ASSUME NEW o \in DOMAIN v.op, v.op[o] <= cur.since \/ (o <= cur.op /\ v.op[o] <= cur.through)
      PROVE  o \in DOMAIN ops /\ ops[o] = v.op[o]
  <2>1. v.op[o] # t + 1
    BY <1>1, <1>2, <1>4
  <2>2. o \in DOMAIN w.op /\ v.op[o] = w.op[o]
    BY <2>1 DEF Grown
  <2> QED
    BY <1>4, <2>2 DEF CursorHolds
<1>5. ASSUME AllRead(w, cur), NEW o \in DOMAIN v.op, v.op[o] <= cur.through
      PROVE  o <= cur.op \/ v.op[o] <= cur.since
  <2>1. v.op[o] # t + 1
    BY <1>1, <1>2, <1>5
  <2>2. o \in DOMAIN w.op /\ v.op[o] = w.op[o]
    BY <2>1 DEF Grown
  <2> QED
    BY <1>5, <2>2 DEF AllRead
<1>6. items \subseteq v.item /\ DOMAIN ops \subseteq DOMAIN v.op
  BY DEF CursorHolds, Grown
<1>7. CursorHolds(v, t + 1, cur, items, ops)
  BY <1>2, <1>3, <1>4, <1>6 DEF CursorHolds
<1> QED
  BY <1>5, <1>7 DEF AllRead

\* Rows read once more replace what is held with the same or newer.
LEMMA OverHolds ==
    ASSUME NEW w, NEW t, NEW cur, NEW items, NEW ops, NEW page,
           CursorHolds(w, t, cur, items, ops),
           DOMAIN page \subseteq DOMAIN w.op, \A o \in DOMAIN page : page[o] = w.op[o]
    PROVE  CursorHolds(w, t, cur, items, Over(page, ops))
<1> DEFINE all == Over(page, ops)
<1>1. DOMAIN all = DOMAIN page \cup DOMAIN ops
  BY DEF Over
<1>2. \A o \in DOMAIN page : all[o] = w.op[o]
  BY DEF Over
<1>3. \A o \in DOMAIN ops : o \notin DOMAIN page => all[o] = ops[o]
  BY DEF Over
<1> HIDE DEF all
<1>4. ASSUME NEW o \in DOMAIN w.op, w.op[o] <= cur.since \/ (o <= cur.op /\ w.op[o] <= cur.through)
      PROVE  o \in DOMAIN all /\ all[o] = w.op[o]
  <2>1. o \in DOMAIN ops /\ ops[o] = w.op[o]
    BY <1>4 DEF CursorHolds
  <2> QED
    BY <1>1, <1>2, <1>3, <2>1
<1>5. CursorHolds(w, t, cur, items, all)
  BY <1>1, <1>4 DEF CursorHolds
<1> QED
  BY <1>5 DEF all

\* The rows a page of items or of operations is taken from.
ItemRows(w, cur) == {i \in w.item : i > cur.item /\ i <= cur.through}
OpRows(w, cur) == {o \in DOMAIN w.op : o > cur.op /\ w.op[o] > cur.since}

\* The cursor behind a page.
AfterItems(cur, page) ==
    [cur EXCEPT !.itemsDone = Cardinality(page) < PageSize, !.item = IF page = {} THEN @ ELSE Max(page)]
AfterOps(cur, ords) == [cur EXCEPT !.op = IF ords = {} THEN @ ELSE Max(ords)]

\* A cursor behind a page is a cursor of the same checkpoint.
LEMMA CursorAdvances ==
    ASSUME NEW t \in Nat, NEW w, WellWritten(w, t), NEW cur \in Cursors, NEW page, NEW ords,
           page = FirstRows(ItemRows(w, cur), PageSize), ords = FirstRows(OpRows(w, cur), PageSize)
    PROVE  AfterItems(cur, page) \in Cursors /\ AfterOps(cur, ords) \in Cursors
<1>1. page # {} => Max(page) \in Nat
  <2> SUFFICES ASSUME page # {} PROVE Max(page) \in Nat
    OBVIOUS
  <2>1. page \in SUBSET (1 .. t)
    BY DEF FirstRows, ItemRows, WellWritten
  <2>2. Max(page) \in 1 .. t
    BY <2>1, MaxOf
  <2> QED
    BY <2>2
<1>2. ords # {} => Max(ords) \in Nat
  <2> SUFFICES ASSUME ords # {} PROVE Max(ords) \in Nat
    OBVIOUS
  <2>1. ords \in SUBSET (1 .. Len(w.op)) /\ Len(w.op) \in Nat
    BY DEF FirstRows, OpRows, WellWritten
  <2>2. Max(ords) \in 1 .. Len(w.op)
    BY <2>1, MaxOf
  <2> QED
    BY <2>1, <2>2
<1>3. (Cardinality(page) < PageSize) \in BOOLEAN
  OBVIOUS
<1>4. AfterItems(cur, page) \in Cursors
  BY <1>1, <1>3 DEF AfterItems, Cursors
<1> QED
  BY <1>2, <1>4 DEF AfterOps, Cursors

\* With a page of items in hand, the cursor behind it says what was read.
LEMMA ItemPageHolds ==
    ASSUME NEW t \in Nat, NEW w, WellWritten(w, t), NEW cur \in Cursors, cur.through \in Nat,
           NEW items, NEW ops, CursorHolds(w, t, cur, items, ops), NEW page,
           page = FirstRows(ItemRows(w, cur), PageSize)
    PROVE  CursorHolds(w, t, AfterItems(cur, page), items \cup page, ops)
<1> DEFINE rows == ItemRows(w, cur)
           nx == AfterItems(cur, page)
<1>1. rows \in SUBSET (1 .. t) /\ w.item \subseteq 1 .. t
  BY DEF ItemRows, WellWritten
<1>2. /\ cur.since \in Int /\ cur.through \in Nat /\ cur.item \in Nat /\ t \in Nat
      /\ cur.since <= t /\ cur.through <= t /\ cur.item <= t
  BY DEF CursorHolds, Cursors, Checkpoints
<1>3. /\ page \subseteq rows
      /\ \A i \in page, j \in rows : j < i => j \in page
      /\ page = {} => rows = {}
      /\ Cardinality(page) < PageSize => page = rows
  BY <1>1, FirstRowsAre, StreamAssumption
<1>4. /\ nx.since = cur.since /\ nx.through = cur.through /\ nx.op = cur.op
      /\ nx.itemsDone = (Cardinality(page) < PageSize)
      /\ nx.item = IF page = {} THEN cur.item ELSE Max(page)
  BY DEF AfterItems, Cursors
<1>5. page # {} => /\ Max(page) \in page /\ Max(page) \in Nat /\ Max(page) <= cur.through
                   /\ \A i \in page : i <= Max(page)
  <2> SUFFICES ASSUME page # {} PROVE /\ Max(page) \in page /\ Max(page) \in Nat /\ Max(page) <= cur.through
                                      /\ \A i \in page : i <= Max(page)
    OBVIOUS
  <2>1. page \in SUBSET (1 .. t)
    BY <1>1, <1>3
  <2>2. Max(page) \in page /\ \A i \in page : i <= Max(page)
    BY <2>1, MaxOf
  <2>3. Max(page) \in rows
    BY <1>3, <2>2
  <2>4. Max(page) <= cur.through
    BY <2>3 DEF ItemRows
  <2>5. Max(page) \in 1 .. t
    BY <2>1, <2>2
  <2> QED
    BY <2>2, <2>4, <2>5
<1> HIDE DEF nx
<1>6. ASSUME NEW i \in w.item,
             i <= nx.since \/ i <= nx.item \/ (nx.itemsDone /\ i <= nx.through)
      PROVE  i \in items \cup page
  <2>0. i \in Nat
    BY <1>1
  <2>1. CASE i <= cur.since \/ i <= cur.item
    BY <2>1 DEF CursorHolds
  <2>2. CASE i > cur.item /\ page # {} /\ i <= Max(page)
    <3>1. i <= cur.through
      BY <1>2, <1>5, <2>0, <2>2
    <3>2. i \in rows
      BY <2>2, <3>1 DEF ItemRows
    <3>3. i < Max(page) \/ i = Max(page)
      BY <1>5, <2>0, <2>2
    <3> QED
      BY <1>3, <1>5, <2>2, <3>2, <3>3
  <2>3. CASE i > cur.item /\ Cardinality(page) < PageSize /\ i <= cur.through
    BY <1>3, <2>3 DEF ItemRows
  <2>4. i <= cur.item \/ i > cur.item
    BY <1>2, <2>0
  <2> QED
    BY <1>4, <1>6, <2>1, <2>2, <2>3, <2>4
<1>7. nx.item <= t
  BY <1>2, <1>4, <1>5
<1>8. items \cup page \subseteq w.item
  BY <1>3 DEF CursorHolds, ItemRows
<1>9. CursorHolds(w, t, nx, items \cup page, ops)
  BY <1>2, <1>4, <1>6, <1>7, <1>8 DEF CursorHolds
<1> QED
  BY <1>9 DEF nx

\* With a page of operations in hand, the cursor behind it says what was
\* read, and when there is none, all was.
LEMMA OpPageHolds ==
    ASSUME NEW t \in Nat, NEW w, WellWritten(w, t), NEW cur \in Cursors, cur.through \in Nat,
           NEW items, NEW ops, CursorHolds(w, t, cur, items, ops), cur.itemsDone, NEW ords,
           ords = FirstRows(OpRows(w, cur), PageSize)
    PROVE  /\ CursorHolds(w, t, AfterOps(cur, ords), items, Over([o \in ords |-> w.op[o]], ops))
           /\ ords = {} => AfterOps(cur, ords) = cur /\ AllRead(w, cur)
<1> DEFINE rows == OpRows(w, cur)
           nx == AfterOps(cur, ords)
           page == [o \in ords |-> w.op[o]]
           all == Over(page, ops)
<1>1. /\ Len(w.op) \in Nat /\ DOMAIN w.op = 1 .. Len(w.op) /\ rows \in SUBSET (1 .. Len(w.op))
      /\ \A o \in DOMAIN w.op : w.op[o] \in Nat
  BY DEF OpRows, WellWritten
<1>2. /\ cur.since \in Int /\ cur.through \in Nat /\ cur.op \in Nat
  BY DEF Cursors, Checkpoints
<1>3. /\ ords \subseteq rows
      /\ \A i \in ords, j \in rows : j < i => j \in ords
      /\ ords = {} => rows = {}
  BY <1>1, FirstRowsAre, StreamAssumption
<1>4. /\ nx.since = cur.since /\ nx.through = cur.through /\ nx.item = cur.item
      /\ nx.itemsDone = cur.itemsDone
      /\ nx.op = IF ords = {} THEN cur.op ELSE Max(ords)
      /\ ords = {} => nx = cur
  BY DEF AfterOps, Cursors
<1>5. ords # {} => Max(ords) \in ords
  <2>1. ords \in SUBSET (1 .. Len(w.op))
    BY <1>1, <1>3
  <2> QED
    BY <1>1, <2>1, MaxOf
<1>6. DOMAIN page \subseteq DOMAIN w.op /\ \A o \in DOMAIN page : page[o] = w.op[o]
  BY <1>3 DEF OpRows
<1>7. CursorHolds(w, t, cur, items, all)
  BY <1>6, OverHolds
<1>8. \A o \in ords : o \in DOMAIN all /\ all[o] = w.op[o]
  BY DEF Over
<1>9. ords = {} => AllRead(w, cur)
  <2> SUFFICES ASSUME ords = {}, NEW o \in DOMAIN w.op, o > cur.op PROVE w.op[o] <= cur.since
    BY <1>1, <1>2 DEF AllRead
  <2>1. o \notin rows
    BY <1>3
  <2> QED
    BY <1>1, <1>2, <2>1 DEF OpRows
<1> HIDE DEF nx, all
<1>10. ASSUME NEW o \in DOMAIN w.op, w.op[o] <= nx.since \/ (o <= nx.op /\ w.op[o] <= nx.through)
       PROVE  o \in DOMAIN all /\ all[o] = w.op[o]
  <2>0. o \in Nat /\ w.op[o] \in Nat
    BY <1>1
  <2>1. CASE o \in ords
    BY <1>8, <2>1
  <2>2. CASE w.op[o] <= cur.since \/ (o <= cur.op /\ w.op[o] <= cur.through)
    BY <1>7, <2>2 DEF CursorHolds
  <2>3. CASE o \notin ords /\ o > cur.op /\ w.op[o] > cur.since
    <3>1. o \in rows
      BY <2>3 DEF OpRows
    <3>2. ords # {} /\ o <= Max(ords)
      BY <1>2, <1>3, <1>4, <1>10, <2>0, <2>3, <3>1
    <3>3. Max(ords) \in Nat /\ o # Max(ords)
      BY <1>1, <1>3, <1>5, <2>3, <3>2
    <3>4. o < Max(ords)
      BY <2>0, <3>2, <3>3
    <3> QED
      BY <1>3, <1>5, <2>3, <3>1, <3>2, <3>4
  <2>4. (w.op[o] <= cur.since \/ w.op[o] > cur.since) /\ (o <= cur.op \/ o > cur.op)
    BY <1>2, <2>0
  <2> QED
    BY <1>4, <1>10, <2>1, <2>2, <2>3, <2>4
<1>11. CursorHolds(w, t, nx, items, all)
  BY <1>4, <1>7, <1>10 DEF CursorHolds
<1> QED
  BY <1>4, <1>9, <1>11 DEF nx, all

\* No turn was written at first, and nobody has read one.
LEMMA StreamStarts == StreamInit => StreamInv
<1> SUFFICES ASSUME StreamInit PROVE StreamInv
  OBVIOUS
<1>1. NoCursor \in Cursors
  BY DEF NoCursor, Cursors, Checkpoints
<1>2. WrittenTypes
  <2>1. <<>> \in Seq(1 .. 0) /\ <<>> \in Seq(EventKind)
    OBVIOUS
  <2> QED
    BY <2>1 DEF StreamInit, WrittenTypes, WellWritten, NoTurn
<1>3. ReaderTypes
  BY <1>1 DEF StreamInit, ReaderTypes, Idle, Empty, Serving
<1>4. SeenBefore(req.cur.gen) /\ SeenBefore(client.cur.gen)
  <2>1. req.cur.gen = <<0, FALSE>> /\ client.cur.gen = <<0, FALSE>> /\ generation = 1
    BY DEF StreamInit, Idle, Empty, NoCursor
  <2>2. <<0, FALSE>>[1] = 0 /\ ~(<<0, FALSE>>[2])
    OBVIOUS
  <2>3. 0 <= generation
    BY <2>1
  <2> QED
    BY <2>1, <2>2, <2>3, Zenon DEF SeenBefore
<1>5. ClientHolds /\ RequestHolds
  BY DEF StreamInit, ClientHolds, RequestHolds, Idle, Empty
<1> QED
  BY <1>2, <1>3, <1>4, <1>5 DEF StreamInv

\* A cursor that was seen before is not of a generation that is still to come,
\* nor of a purge.
LEMMA NotYetSeen ==
    ASSUME NEW cur \in Cursors, SeenBefore(cur.gen), generation \in Nat
    PROVE  /\ cur.gen # <<generation + 1, gone>>
           /\ ~gone => cur.gen # <<generation, TRUE>>
<1>1. PICK g \in Nat, p \in BOOLEAN : cur.gen = <<g, p>>
  BY DEF Cursors
<1>2. g <= generation /\ (p => gone)
  BY <1>1 DEF SeenBefore
<1>3. g # generation + 1
  BY <1>2
<1>4. <<g, p>>[1] = g /\ <<generation + 1, gone>>[1] = generation + 1
  OBVIOUS
<1>5. <<g, p>>[2] = p /\ <<generation, TRUE>>[2] = TRUE
  BY Zenon
<1>6. cur.gen # <<generation + 1, gone>>
  BY <1>1, <1>3, <1>4, Zenon
<1>7. ASSUME ~gone, cur.gen = <<generation, TRUE>> PROVE FALSE
  BY <1>1, <1>2, <1>5, <1>7, Zenon
<1> QED
  BY <1>6, <1>7

\* A batch appends behind every checkpoint, or starts a generation nobody has
\* seen.
LEMMA BatchAppends == ASSUME StreamInv, NEW kind \in EventKind, WriteBatch(kind) PROVE StreamInv'
<1> USE DEF StreamInv
<1>0. /\ UNCHANGED <<gone, req, client>> /\ through \in Nat /\ generation \in Nat /\ gone = FALSE
      /\ req.cur \in Cursors /\ client.cur \in Cursors
  BY DEF WriteBatch, WrittenTypes, ReaderTypes
<1>1. ReaderTypes'
  BY <1>0 DEF ReaderTypes
<1>2. CASE stale
  <2>1. /\ generation' = generation + 1 /\ through' = 1 /\ stale' = FALSE /\ made' = made
        /\ written' = Apply(NoTurn, 1, kind)
    BY <1>2 DEF WriteBatch
  <2>2. WrittenTypes'
    <3>1. WellWritten(NoTurn, 0)
      BY DEF WellWritten, NoTurn
    <3>2. WellWritten(Apply(NoTurn, 0 + 1, kind), 0 + 1)
      BY <3>1, ApplyGrows
    <3>3. WellWritten(written', through')
      BY <2>1, <3>2
    <3>4. through' \in Nat /\ generation' \in Nat /\ made' \in Seq(EventKind)
      BY <1>0, <2>1 DEF WrittenTypes
    <3>5. stale' \in BOOLEAN /\ gone' \in BOOLEAN
      BY <1>0, <2>1
    <3> QED
      BY <3>3, <3>4, <3>5 DEF WrittenTypes
  <2>3. SeenBefore(req.cur.gen)' /\ SeenBefore(client.cur.gen)'
    <3>1. \A cur \in Cursors : cur.gen[1] \in Nat
      BY DEF Cursors
    <3> QED
      BY <1>0, <2>1, <3>1 DEF SeenBefore
  <2>4. ~Current(req.cur)' /\ ~Current(client.cur)'
    BY <1>0, <2>1, NotYetSeen DEF Current, Position
  <2> QED
    BY <1>1, <2>2, <2>3, <2>4 DEF ClientHolds, RequestHolds
<1>3. CASE ~stale
  <2>1. /\ generation' = generation /\ through' = through + 1 /\ stale' = stale
        /\ made' \in {made, Append(made, kind)}
        /\ written' = Apply(written, through + 1, kind)
    BY <1>3 DEF WriteBatch
  <2>2. WellWritten(written', through') /\ Grown(written, written', through) /\ WellWritten(written, through)
    BY <1>0, <2>1, ApplyGrows DEF WrittenTypes
  <2>3. WrittenTypes'
    BY <1>0, <2>1, <2>2 DEF WrittenTypes
  <2>4. SeenBefore(req.cur.gen)' /\ SeenBefore(client.cur.gen)'
    BY <1>0, <2>1 DEF SeenBefore
  <2>5. (Current(req.cur)' <=> Current(req.cur)) /\ (Current(client.cur)' <=> Current(client.cur))
    BY <1>0, <2>1 DEF Current, Position
  <2>6. \A cur \in Cursors : \A items, ops :
          CursorHolds(written, through, cur, items, ops) =>
             /\ CursorHolds(written', through', cur, items, ops)
             /\ AllRead(written, cur) => AllRead(written', cur)
    BY <1>0, <2>1, <2>2, HoldsGrows
  <2>7. ClientHolds'
    BY <1>0, <2>5, <2>6 DEF ClientHolds
  <2>8. RequestHolds'
    BY <1>0, <2>5, <2>6 DEF RequestHolds
  <2> QED
    BY <1>1, <2>3, <2>4, <2>7, <2>8
<1> QED
  BY <1>2, <1>3

\* A reindex or a purge takes the rows away under everyone, and no cursor is
\* current any more.
LEMMA TakenKeeps == ASSUME StreamInv, Reindex \/ PurgeTurns PROVE StreamInv'
<1> USE DEF StreamInv
<1>0. /\ UNCHANGED <<through, generation, made, req, client>> /\ through \in Nat /\ generation \in Nat
      /\ gone = FALSE /\ req.cur \in Cursors /\ client.cur \in Cursors
  BY DEF Reindex, PurgeTurns, WrittenTypes, ReaderTypes
<1>1. ReaderTypes'
  BY <1>0 DEF ReaderTypes
<1>2. /\ written'.item = {} /\ written'.op = <<>> /\ DOMAIN written' = {"exists", "item", "op"}
      /\ stale' \in BOOLEAN /\ gone' \in BOOLEAN
  <2>1. CASE Reindex
    BY <1>0, <2>1 DEF Reindex, NoTurn
  <2>2. CASE PurgeTurns
    <3>1. "item" \in DOMAIN written
      BY DEF WrittenTypes, WellWritten
    <3> QED
      BY <2>2, <3>1 DEF PurgeTurns, WrittenTypes, WellWritten
  <2> QED
    BY <2>1, <2>2
<1>3. WrittenTypes'
  BY <1>0, <1>2 DEF WrittenTypes, WellWritten
<1>4. SeenBefore(req.cur.gen)' /\ SeenBefore(client.cur.gen)'
  BY <1>0 DEF SeenBefore
<1>5. ~Current(req.cur)' /\ ~Current(client.cur)'
  <2>1. CASE Reindex
    BY <2>1 DEF Reindex, Current
  <2>2. CASE PurgeTurns
    BY <1>0, <2>2, NotYetSeen DEF PurgeTurns, Current, Position
  <2> QED
    BY <2>1, <2>2
<1> QED
  BY <1>1, <1>3, <1>4, <1>5 DEF ClientHolds, RequestHolds

\* What is left to show of a step of the stream: it writes nothing.
LEMMA ReaderStep ==
    ASSUME StreamInv, UNCHANGED <<written, through, generation, stale, gone, made>>, ReaderTypes',
           req'.cur.gen \in {req.cur.gen, client.cur.gen, Position, NoCursor.gen},
           client'.cur.gen \in {req.cur.gen, client.cur.gen, NoCursor.gen},
           ClientHolds', RequestHolds'
    PROVE  StreamInv'
<1>1. WrittenTypes'
  BY DEF StreamInv, WrittenTypes
<1>2. SeenBefore(Position) /\ SeenBefore(NoCursor.gen)
  <2>1. generation \in Nat /\ Position[1] = generation /\ Position[2] = gone
    BY DEF StreamInv, WrittenTypes, Position
  <2>2. generation <= generation /\ 0 <= generation
    BY <2>1
  <2>3. NoCursor.gen[1] = 0 /\ ~(NoCursor.gen[2])
    BY DEF NoCursor
  <2> QED
    BY <2>1, <2>2, <2>3, Zenon DEF SeenBefore
<1>3. SeenBefore(req'.cur.gen) /\ SeenBefore(client'.cur.gen)
  BY <1>2 DEF StreamInv
<1>4. SeenBefore(req.cur.gen)' /\ SeenBefore(client.cur.gen)'
  BY <1>3 DEF SeenBefore
<1> QED
  BY <1>1, <1>4 DEF StreamInv

\* A request starts from nothing, or from the client's cursor.
LEMMA BeginKeeps == ASSUME StreamInv, BeginStream PROVE StreamInv'
<1> DEFINE reset == ~client.has \/ client.cur.gen # Position \/ client.cur.since > through
           base == IF reset THEN [NoCursor EXCEPT !.gen = Position] ELSE client.cur
           cur == IF base.through = -1 THEN [base EXCEPT !.through = through] ELSE base
<1>0. /\ UNCHANGED <<written, through, generation, stale, gone, made, client>>
      /\ req' = [Idle EXCEPT !.pc = "header", !.cur = cur, !.whole = reset]
  BY DEF BeginStream
<1>t. /\ through \in Nat /\ generation \in Nat /\ gone \in BOOLEAN /\ client.cur \in Cursors
      /\ WellWritten(written, through)
  BY DEF StreamInv, WrittenTypes, ReaderTypes
<1>1. base \in Cursors
  <2>1. [NoCursor EXCEPT !.gen = Position] \in Cursors
    BY <1>t DEF NoCursor, Cursors, Checkpoints, Position
  <2> QED
    BY <1>t, <2>1
<1>b. base.gen = Position
  BY DEF NoCursor
<1>n. reset => base.since = -1 /\ base.through = -1 /\ base.item = 0 /\ base.op = 0 /\ base.itemsDone = FALSE
  BY DEF NoCursor
<1>o. ~reset => base = client.cur /\ client.has
  OBVIOUS
<1> HIDE DEF base
<1>2. /\ cur \in Cursors /\ cur.gen = Position /\ cur.through \in Nat
      /\ cur.since = base.since /\ cur.item = base.item /\ cur.op = base.op
      /\ cur.itemsDone = base.itemsDone
      /\ base.through # -1 => cur = base
      /\ base.through = -1 => cur.through = through
  BY <1>t, <1>1, <1>b DEF Cursors, Checkpoints
<1> HIDE DEF cur, reset
<1>3. /\ req'.pc = "header" /\ req'.cur = cur /\ req'.whole = reset /\ req'.items = {} /\ req'.ops = <<>>
      /\ req' = [pc |-> req'.pc, cur |-> req'.cur, items |-> req'.items, ops |-> req'.ops,
                 whole |-> req'.whole]
  BY <1>0 DEF Idle
<1>4. ReaderTypes'
  BY <1>0, <1>2, <1>3 DEF StreamInv, ReaderTypes, Serving
<1>5. ClientHolds'
  BY <1>0 DEF StreamInv, ClientHolds, Current, Position
<1>6. ASSUME reset PROVE CursorHolds(written, through, cur, {}, <<>>)
  <2>1. /\ cur.since = -1 /\ cur.through = through /\ cur.item = 0 /\ cur.op = 0 /\ cur.itemsDone = FALSE
    BY <1>2, <1>6, <1>n
  <2>2. ASSUME NEW i \in written.item PROVE ~(i <= -1) /\ ~(i <= 0)
    BY <1>t DEF WellWritten
  <2>3. ASSUME NEW o \in DOMAIN written.op PROVE ~(written.op[o] <= -1) /\ ~(o <= 0)
    BY <1>t DEF WellWritten
  <2>4. DOMAIN <<>> = {} /\ through # -1 /\ -1 <= through /\ 0 <= through
    BY <1>t
  <2> QED
    BY <1>t, <2>1, <2>2, <2>3, <2>4 DEF CursorHolds
<1>7. ASSUME ~reset, ~stale PROVE CursorHolds(written, through, cur, client.items, client.ops)
  <2>1. CursorHolds(written, through, base, client.items, client.ops)
    BY <1>7, <1>b, <1>o DEF StreamInv, ClientHolds, Current
  <2>2. CASE base.through # -1
    BY <1>2, <2>1, <2>2
  <2>3. CASE base.through = -1
    <3>1. base.op = 0 /\ ~base.itemsDone /\ base.since <= through
      BY <2>1, <2>3 DEF CursorHolds
    <3>2. ASSUME NEW o \in DOMAIN written.op PROVE ~(o <= 0)
      BY <1>t DEF WellWritten
    <3>3. through # -1 /\ through <= through
      BY <1>t
    <3> QED
      BY <1>2, <2>1, <2>3, <3>1, <3>2, <3>3 DEF CursorHolds
  <2> QED
    BY <2>2, <2>3
<1>8. RequestHolds'
  <2>1. Current(req.cur)' => ~stale
    BY <1>0 DEF Current
  <2>2. reset \in BOOLEAN
    BY DEF reset
  <2>3. /\ reset => CursorHolds(written', through', req'.cur, {}, <<>>)
        /\ ~reset /\ ~stale => CursorHolds(written', through', req'.cur, client'.items, client'.ops)
    BY <1>0, <1>3, <1>6, <1>7
  <2>4. (req'.whole => reset) /\ (~req'.whole => ~reset)
    BY <1>3, <2>2
  <2>5. req'.pc = "header"
    BY <1>3
  <2> QED
    BY <2>1, <2>3, <2>4, <2>5 DEF RequestHolds
<1> QED
  BY <1>0, <1>2, <1>3, <1>4, <1>5, <1>8, ReaderStep

\* A request ends, and the client keeps what it has or forgets it.
LEMMA EndKeeps == ASSUME StreamInv, SendReset \/ DropStream PROVE StreamInv'
<1>0. /\ UNCHANGED <<written, through, generation, stale, gone, made>>
      /\ req' = Idle /\ client' \in {client, Empty}
  BY DEF SendReset, DropStream
<1>1. NoCursor \in Cursors
  BY DEF NoCursor, Cursors, Checkpoints
<1>2. ReaderTypes'
  BY <1>0, <1>1 DEF StreamInv, ReaderTypes, Idle, Empty, Serving
<1>3. ClientHolds'
  BY <1>0 DEF StreamInv, ClientHolds, Current, Position, Empty
<1>4. RequestHolds'
  BY <1>0 DEF RequestHolds, Idle
<1>5. req'.cur = NoCursor /\ client'.cur \in {client.cur, NoCursor}
  BY <1>0 DEF Idle, Empty
<1> QED
  BY <1>0, <1>2, <1>3, <1>4, <1>5, ReaderStep

\* The header carries the request's cursor to the client.
LEMMA HeaderKeeps == ASSUME StreamInv, SendHeader PROVE StreamInv'
<1>0. /\ UNCHANGED <<written, through, generation, stale, gone, made>> /\ req.pc = "header"
  BY DEF SendHeader
<1>r. ReaderTypes /\ RequestHolds /\ ClientHolds
  BY DEF StreamInv
<1>1. CASE ~written.exists \/ Position # req.cur.gen
  <2>1. req' = Idle /\ client' = client
    BY <1>1 DEF SendHeader
  <2>2. NoCursor \in Cursors
    BY DEF NoCursor, Cursors, Checkpoints
  <2>3. ReaderTypes'
    BY <1>r, <2>1, <2>2 DEF ReaderTypes, Idle, Serving
  <2>4. ClientHolds' /\ RequestHolds'
    BY <1>0, <1>r, <2>1 DEF ClientHolds, RequestHolds, Current, Position, Idle
  <2> QED
    BY <1>0, <2>1, <2>3, <2>4, ReaderStep DEF Idle
<1>2. CASE ~(~written.exists \/ Position # req.cur.gen)
  <2>1. /\ req' = [req EXCEPT !.pc = "page"]
        /\ client' = IF req.whole THEN [Empty EXCEPT !.has = TRUE, !.cur = req.cur]
                     ELSE [client EXCEPT !.cur = req.cur]
    BY <1>2 DEF SendHeader
  <2>2. /\ req'.pc = "page" /\ req'.cur = req.cur /\ req'.items = req.items /\ req'.ops = req.ops
        /\ req' = [pc |-> req'.pc, cur |-> req'.cur, items |-> req'.items, ops |-> req'.ops,
                   whole |-> req'.whole]
    BY <1>r, <2>1 DEF ReaderTypes
  <2>3. /\ client'.cur = req.cur
        /\ req.whole => client'.items = {} /\ client'.ops = <<>>
        /\ ~req.whole => client'.items = client.items /\ client'.ops = client.ops
        /\ client' = [has |-> client'.has, cur |-> client'.cur, items |-> client'.items, ops |-> client'.ops]
    BY <1>r, <2>1 DEF ReaderTypes, Empty
  <2>4. ReaderTypes'
    BY <1>0, <1>r, <2>2, <2>3 DEF ReaderTypes, Serving
  <2>5. Current(req.cur) => CursorHolds(written, through, req.cur, client'.items, client'.ops)
    BY <1>0, <1>r, <2>3 DEF RequestHolds
  <2>6. Current(req.cur)' <=> Current(req.cur)
    BY <1>0, <2>2 DEF Current, Position
  <2>7. RequestHolds'
    BY <1>0, <2>2, <2>5, <2>6 DEF RequestHolds
  <2>8. ClientHolds'
    BY <1>0, <2>2, <2>3, <2>5, <2>6 DEF ClientHolds, Current
  <2> QED
    BY <1>0, <2>2, <2>3, <2>4, <2>7, <2>8, ReaderStep
<1> QED
  BY <1>1, <1>2

\* A page is read of the rows as they are.
LEMMA ReadKeeps == ASSUME StreamInv, ReadPage PROVE StreamInv'
<1> DEFINE cur == req.cur
           items == PageItems(cur)
           ords == FirstRows({o \in DOMAIN written.op : o > cur.op /\ written.op[o] > cur.since}, PageSize)
           page == [o \in ords |-> written.op[o]]
<1>0. /\ UNCHANGED <<written, through, generation, stale, gone, made, client>> /\ req.pc = "page"
  BY DEF ReadPage
<1>r. ReaderTypes /\ RequestHolds /\ ClientHolds /\ WrittenTypes
  BY DEF StreamInv
<1>t. /\ through \in Nat /\ WellWritten(written, through) /\ cur \in Cursors /\ cur.through \in Nat
      /\ req.items = {}
  BY <1>0, <1>r DEF WrittenTypes, ReaderTypes, Serving
<1>i. items = FirstRows(ItemRows(written, cur), PageSize)
  BY DEF PageItems, ItemRows
<1>p. ords = FirstRows(OpRows(written, cur), PageSize)
  BY DEF OpRows
<1>e. /\ Position # cur.gen => req' = [req EXCEPT !.pc = "reset"]
      /\ Position = cur.gen /\ ~cur.itemsDone =>
           req' = [req EXCEPT !.pc = "refs", !.items = items,
                     !.cur.itemsDone = Cardinality(items) < PageSize,
                     !.cur.item = IF items = {} THEN @ ELSE Max(items)]
      /\ Position = cur.gen /\ cur.itemsDone =>
           req' = [req EXCEPT !.pc = IF ords = {} THEN "complete" ELSE "send",
                     !.ops = page, !.cur.op = IF ords = {} THEN @ ELSE Max(ords)]
  BY DEF ReadPage
<1>a. AfterItems(cur, items) \in Cursors /\ AfterOps(cur, ords) \in Cursors
  BY <1>t, <1>i, <1>p, CursorAdvances
<1>h. Current(cur) => CursorHolds(written, through, cur, client.items, client.ops)
  BY <1>0, <1>r DEF RequestHolds
<1>c. ClientHolds'
  BY <1>0, <1>r DEF ClientHolds, Current, Position
<1> HIDE DEF items, ords, page
<1>1. CASE Position # cur.gen
  <2>1. /\ req'.pc = "reset" /\ req'.cur = req.cur
        /\ req' = [pc |-> req'.pc, cur |-> req'.cur, items |-> req'.items, ops |-> req'.ops,
                   whole |-> req'.whole]
    BY <1>1, <1>e, <1>r DEF ReaderTypes
  <2>2. ReaderTypes'
    BY <1>0, <1>r, <2>1 DEF ReaderTypes, Serving
  <2>3. RequestHolds'
    BY <2>1 DEF RequestHolds
  <2> QED
    BY <1>0, <1>c, <2>1, <2>2, <2>3, ReaderStep
<1>2. CASE Position = cur.gen /\ ~cur.itemsDone
  <2>1. /\ req'.pc = "refs" /\ req'.cur = AfterItems(cur, items) /\ req'.items = items
        /\ req' = [pc |-> req'.pc, cur |-> req'.cur, items |-> req'.items, ops |-> req'.ops,
                   whole |-> req'.whole]
    BY <1>2, <1>e, <1>r DEF ReaderTypes, AfterItems
  <2>2. req'.cur.gen = cur.gen /\ req'.cur.through = cur.through
    BY <1>t, <2>1 DEF AfterItems, Cursors
  <2>3. ReaderTypes'
    BY <1>0, <1>r, <1>t, <1>a, <2>1, <2>2 DEF ReaderTypes, Serving
  <2>4. Current(cur) => CursorHolds(written, through, req'.cur, client.items \cup items, client.ops)
    BY <1>t, <1>i, <1>h, <2>1, ItemPageHolds
  <2>5. Current(req.cur)' <=> Current(cur)
    BY <1>0, <2>2 DEF Current, Position
  <2>6. RequestHolds'
    BY <1>0, <2>1, <2>4, <2>5 DEF RequestHolds
  <2> QED
    BY <1>0, <1>c, <2>2, <2>3, <2>6, ReaderStep
<1>3. CASE Position = cur.gen /\ cur.itemsDone
  <2>1. /\ req'.pc = (IF ords = {} THEN "complete" ELSE "send")
        /\ req'.cur = AfterOps(cur, ords) /\ req'.items = {} /\ req'.ops = page
        /\ req' = [pc |-> req'.pc, cur |-> req'.cur, items |-> req'.items, ops |-> req'.ops,
                   whole |-> req'.whole]
    BY <1>3, <1>e, <1>r, <1>t DEF ReaderTypes, AfterOps
  <2>2. req'.cur.gen = cur.gen /\ req'.cur.through = cur.through
    BY <1>t, <2>1 DEF AfterOps, Cursors
  <2>3. ReaderTypes'
    BY <1>0, <1>r, <1>t, <1>a, <2>1, <2>2 DEF ReaderTypes, Serving
  <2>4. Current(cur) => /\ CursorHolds(written, through, req'.cur, client.items, Over(page, client.ops))
                        /\ ords = {} => req'.cur = cur /\ AllRead(written, cur)
    BY <1>3, <1>t, <1>p, <1>h, <2>1, OpPageHolds DEF page
  <2>5. Current(req.cur)' <=> Current(cur)
    BY <1>0, <2>2 DEF Current, Position
  <2>6. client.items \cup {} = client.items
    OBVIOUS
  <2>7. RequestHolds'
    BY <1>0, <1>h, <2>1, <2>4, <2>5, <2>6 DEF RequestHolds
  <2> QED
    BY <1>0, <1>c, <2>2, <2>3, <2>7, ReaderStep
<1> QED
  BY <1>1, <1>2, <1>3

\* Operations that a page names are read as they are.
LEMMA ReferencesKeep == ASSUME StreamInv, ReadReferences PROVE StreamInv'
<1>0. UNCHANGED <<written, through, generation, stale, gone, made, client>> /\ req.pc = "refs"
  BY DEF ReadReferences
<1>r. ReaderTypes /\ RequestHolds /\ ClientHolds
  BY DEF StreamInv
<1>1. PICK ords : req' = [req EXCEPT !.pc = "send", !.ops = Restrict(written.op, ords \cap DOMAIN written.op)]
  BY DEF ReadReferences
<1> DEFINE page == Restrict(written.op, ords \cap DOMAIN written.op)
<1>2. DOMAIN page \subseteq DOMAIN written.op /\ \A o \in DOMAIN page : page[o] = written.op[o]
  BY DEF Restrict
<1> HIDE DEF page
<1>3. /\ req'.pc = "send" /\ req'.cur = req.cur /\ req'.items = req.items /\ req'.ops = page
      /\ req' = [pc |-> req'.pc, cur |-> req'.cur, items |-> req'.items, ops |-> req'.ops,
                 whole |-> req'.whole]
  BY <1>1, <1>r DEF ReaderTypes, page
<1>4. ReaderTypes'
  BY <1>0, <1>r, <1>3 DEF ReaderTypes, Serving
<1>5. Current(req.cur) =>
        CursorHolds(written, through, req.cur, client.items \cup req.items, Over(page, client.ops))
  BY <1>0, <1>r, <1>2, OverHolds DEF RequestHolds
<1>6. Current(req.cur)' <=> Current(req.cur)
  BY <1>0, <1>3 DEF Current, Position
<1>7. RequestHolds'
  BY <1>0, <1>3, <1>5, <1>6 DEF RequestHolds
<1>8. ClientHolds'
  BY <1>0, <1>r DEF ClientHolds, Current, Position
<1> QED
  BY <1>0, <1>3, <1>4, <1>7, <1>8, ReaderStep

\* A page is sent with the cursor behind it, or not at all.
LEMMA SendKeeps == ASSUME StreamInv, SendPage PROVE StreamInv'
<1>0. UNCHANGED <<written, through, generation, stale, gone, made>> /\ req.pc = "send"
  BY DEF SendPage
<1>r. ReaderTypes /\ RequestHolds /\ ClientHolds
  BY DEF StreamInv
<1>1. CASE Position # req.cur.gen
  <2>1. req' = [req EXCEPT !.pc = "reset"] /\ client' = client
    BY <1>1 DEF SendPage
  <2>2. /\ req'.pc = "reset" /\ req'.cur = req.cur
        /\ req' = [pc |-> req'.pc, cur |-> req'.cur, items |-> req'.items, ops |-> req'.ops,
                   whole |-> req'.whole]
    BY <1>r, <2>1 DEF ReaderTypes
  <2>3. ReaderTypes'
    BY <1>r, <2>1, <2>2 DEF ReaderTypes, Serving
  <2>4. ClientHolds' /\ RequestHolds'
    BY <1>0, <1>r, <2>1, <2>2 DEF ClientHolds, RequestHolds, Current, Position
  <2> QED
    BY <1>0, <2>1, <2>2, <2>3, <2>4, ReaderStep
<1>2. CASE Position = req.cur.gen
  <2>1. /\ req' = [req EXCEPT !.pc = "page", !.items = {}, !.ops = <<>>]
        /\ client' = [client EXCEPT !.items = @ \cup req.items, !.ops = Over(req.ops, @), !.cur = req.cur]
    BY <1>2 DEF SendPage
  <2>2. /\ req'.pc = "page" /\ req'.cur = req.cur /\ req'.items = {}
        /\ req' = [pc |-> req'.pc, cur |-> req'.cur, items |-> req'.items, ops |-> req'.ops,
                   whole |-> req'.whole]
    BY <1>r, <2>1 DEF ReaderTypes
  <2>3. /\ client'.cur = req.cur /\ client'.items = client.items \cup req.items
        /\ client'.ops = Over(req.ops, client.ops)
        /\ client' = [has |-> client'.has, cur |-> client'.cur, items |-> client'.items, ops |-> client'.ops]
    BY <1>r, <2>1 DEF ReaderTypes
  <2>4. ReaderTypes'
    BY <1>0, <1>r, <2>2, <2>3 DEF ReaderTypes, Serving
  <2>5. Current(req.cur) => CursorHolds(written, through, req.cur, client'.items, client'.ops)
    BY <1>0, <1>r, <2>3 DEF RequestHolds
  <2>6. Current(req.cur)' <=> Current(req.cur)
    BY <1>0, <2>2 DEF Current, Position
  <2>7. RequestHolds'
    BY <1>0, <2>2, <2>5, <2>6 DEF RequestHolds
  <2>8. ClientHolds'
    BY <1>0, <2>2, <2>3, <2>5, <2>6 DEF ClientHolds, Current
  <2> QED
    BY <1>0, <2>2, <2>3, <2>4, <2>7, <2>8, ReaderStep
<1> QED
  BY <1>1, <1>2

\* When nothing is left, the checkpoint is what the client has read to.
LEMMA CompletedKeeps == ASSUME StreamInv, SendComplete PROVE StreamInv'
<1>0. UNCHANGED <<written, through, generation, stale, gone, made>> /\ req.pc = "complete"
  BY DEF SendComplete
<1>r. ReaderTypes /\ RequestHolds /\ ClientHolds /\ WrittenTypes
  BY DEF StreamInv
<1>1. CASE Position # req.cur.gen
  <2>1. req' = [req EXCEPT !.pc = "reset"] /\ client' = client
    BY <1>1 DEF SendComplete
  <2>2. /\ req'.pc = "reset" /\ req'.cur = req.cur
        /\ req' = [pc |-> req'.pc, cur |-> req'.cur, items |-> req'.items, ops |-> req'.ops,
                   whole |-> req'.whole]
    BY <1>r, <2>1 DEF ReaderTypes
  <2>3. ReaderTypes'
    BY <1>r, <2>1, <2>2 DEF ReaderTypes, Serving
  <2>4. ClientHolds' /\ RequestHolds'
    BY <1>0, <1>r, <2>1, <2>2 DEF ClientHolds, RequestHolds, Current, Position
  <2> QED
    BY <1>0, <2>1, <2>2, <2>3, <2>4, ReaderStep
<1>2. CASE Position = req.cur.gen
  <2> DEFINE cur == req.cur
             nx == [gen |-> cur.gen, since |-> cur.through, through |-> -1, item |-> cur.through,
                    op |-> 0, itemsDone |-> FALSE]
  <2>1. req' = Idle /\ client' = [client EXCEPT !.cur = nx]
    BY <1>2 DEF SendComplete
  <2>2. cur \in Cursors /\ cur.through \in Nat /\ through \in Nat /\ WellWritten(written, through)
    BY <1>0, <1>r DEF ReaderTypes, WrittenTypes, Serving
  <2>3. nx \in Cursors
    BY <2>2 DEF Cursors, Checkpoints
  <2>4. NoCursor \in Cursors
    BY DEF NoCursor, Cursors, Checkpoints
  <2>n. nx.gen = cur.gen /\ nx.since = cur.through /\ nx.through = -1 /\ nx.item = cur.through
        /\ nx.op = 0 /\ nx.itemsDone = FALSE
    OBVIOUS
  <2> HIDE DEF nx
  <2>5. /\ client'.cur = nx /\ client'.items = client.items /\ client'.ops = client.ops
        /\ client' = [has |-> client'.has, cur |-> client'.cur, items |-> client'.items, ops |-> client'.ops]
    BY <1>r, <2>1 DEF ReaderTypes
  <2>6. ReaderTypes'
    BY <2>1, <2>3, <2>4, <2>5 DEF ReaderTypes, Idle, Serving
  <2>7. ASSUME Current(cur) PROVE CursorHolds(written, through, nx, client.items, client.ops)
    <3>1. CursorHolds(written, through, cur, client.items, client.ops) /\ AllRead(written, cur)
      BY <1>0, <1>r, <2>7 DEF RequestHolds
    <3>2. ASSUME NEW i \in written.item, i <= cur.through PROVE i \in client.items
      BY <3>1, <3>2 DEF CursorHolds, AllRead
    <3>3. ASSUME NEW o \in DOMAIN written.op, written.op[o] <= cur.through
          PROVE  o \in DOMAIN client.ops /\ client.ops[o] = written.op[o]
      BY <3>1, <3>3 DEF CursorHolds, AllRead
    <3>4. ASSUME NEW o \in DOMAIN written.op PROVE ~(o <= 0)
      BY <2>2 DEF WellWritten
    <3>5. -1 <= through /\ cur.through <= through
      BY <2>2, <3>1 DEF CursorHolds
    <3> QED
      BY <2>n, <3>1, <3>2, <3>3, <3>4, <3>5 DEF CursorHolds
  <2>8. ClientHolds'
    BY <1>0, <2>5, <2>7, <2>n DEF ClientHolds, Current, Position
  <2>9. RequestHolds'
    BY <2>1 DEF RequestHolds, Idle
  <2>10. req'.cur = NoCursor /\ client'.cur.gen = req.cur.gen
    BY <2>1, <2>5, <2>n DEF Idle
  <2> QED
    BY <1>0, <2>6, <2>8, <2>9, <2>10, ReaderStep
<1> QED
  BY <1>1, <1>2

\* Every step of the writer, the stream and the client keeps the invariant.
LEMMA StreamStep == StreamInv /\ [StreamNext]_streamVars => StreamInv'
<1> SUFFICES ASSUME StreamInv, [StreamNext]_streamVars PROVE StreamInv'
  OBVIOUS
<1>1. CASE UNCHANGED streamVars
  BY <1>1 DEF streamVars, StreamInv, WrittenTypes, ReaderTypes, SeenBefore, ClientHolds, RequestHolds,
              Current, Position
<1>2. CASE \E kind \in EventKind : WriteBatch(kind)
  BY <1>2, BatchAppends
<1>3. CASE Reindex \/ PurgeTurns
  BY <1>3, TakenKeeps
<1>4. CASE BeginStream
  BY <1>4, BeginKeeps
<1>5. CASE Serve \/ DropStream
  BY <1>5, HeaderKeeps, ReadKeeps, ReferencesKeep, SendKeeps, CompletedKeeps, EndKeeps DEF Serve
<1> QED
  BY <1>1, <1>2, <1>3, <1>4, <1>5 DEF StreamNext

\* The stream moves in its focus only.
LEMMA StreamFocus ==
    ASSUME [Next]_pipelineVars
    PROVE  [StreamNext]_streamVars
BY DEF Next, OthersRest, pipelineVars

\* A tab has every item up to its checkpoint and every operation as new as it,
\* and nothing of a generation that was replaced or purged, for any number of
\* events, rebuilds, drops and pages of any size (projection/stream.rs).
THEOREM StreamIsExact == Spec => []StreamExact
<1>1. Init => StreamInv
  BY StreamStarts DEF Init
<1>2. StreamInv /\ [Next]_pipelineVars => StreamInv'
  BY StreamStep, StreamFocus
<1>3. StreamInv => StreamExact
  <2> SUFFICES ASSUME StreamInv, Fresh PROVE NothingSkipped /\ NothingLeftOver
    BY DEF StreamExact, NothingSkipped, NothingLeftOver
  <2>1. CursorHolds(written, through, client.cur, client.items, client.ops)
    BY DEF StreamInv, ClientHolds, Fresh, Current
  <2> QED
    BY <2>1 DEF CursorHolds, NothingSkipped, NothingLeftOver
<1> QED
  BY <1>1, <1>2, <1>3, PTL DEF Spec

-----------------------------------------------------------------------------
(* Sums over finite sets, by induction on the size of the set.             *)

\* An element of a set that has one, the one a sum takes first.
Pick(T) == CHOOSE x \in T : TRUE

\* What a sum is of the parts of a set, and of the part without its first element.
SumStep(it, f, T) == IF T = {} THEN 0 ELSE f[Pick(T)] + it[T \ {Pick(T)}]

\* The parts of a set that have at most n elements.
PartsUpTo(S, n) == {U \in SUBSET S : Cardinality(U) <= n}

\* The recursion has a solution on the parts of any size.
SumSolved(S, f, n) == \E it : \A T \in PartsUpTo(S, n) : it[T] = SumStep(it, f, T)

\* A solution for the parts of one size gives one for the next.
LEMMA SumParts ==
    ASSUME NEW S, IsFiniteSet(S), NEW f, NEW n \in Nat
    PROVE  SumSolved(S, f, n)
<1> DEFINE D(m) == PartsUpTo(S, m)
           Good(m) == SumSolved(S, f, m)
           Bad == {m \in Nat : ~ Good(m)}
<1> SUFFICES ASSUME ~ Good(n) PROVE FALSE
  OBVIOUS
<1> HIDE DEF Good
<1> USE DEF PartsUpTo
<1>1. PICK m \in Bad : \A y \in Bad : m <= y
  <2>1. Bad \in SUBSET Nat /\ Bad # {}
    OBVIOUS
  <2> HIDE DEF Bad
  <2> QED
    BY <2>1, FirstOf
<1>2. m # 0
  <2>1. ASSUME NEW U \in D(0) PROVE U = {}
    <3>1. IsFiniteSet(U) /\ Cardinality(U) \in Nat /\ Cardinality(U) <= 0
      BY FS_Subset, FS_CardinalityType
    <3> QED
      BY <3>1, FS_EmptySet
  <2> DEFINE it == [T \in D(0) |-> 0]
  <2>2. \A T \in D(0) : it[T] = SumStep(it, f, T)
    BY <2>1 DEF SumStep
  <2>3. Good(0)
    BY <2>2 DEF Good, SumSolved
  <2> QED
    BY <2>3
<1>3. m - 1 \in Nat /\ Good(m - 1)
  BY <1>1, <1>2
<1>4. PICK old : \A T \in D(m - 1) : old[T] = SumStep(old, f, T)
  BY <1>3 DEF Good, SumSolved
<1> DEFINE it == [T \in D(m) |-> SumStep(old, f, T)]
<1>5. ASSUME NEW U \in D(m), U # {} PROVE U \ {Pick(U)} \in D(m - 1)
  <2>1. IsFiniteSet(U) /\ Cardinality(U) \in Nat /\ Cardinality(U) <= m /\ Pick(U) \in U
    BY <1>5, FS_Subset, FS_CardinalityType DEF Pick
  <2>2. Cardinality(U \ {Pick(U)}) = Cardinality(U) - 1
    BY <2>1, FS_RemoveElement
  <2> QED
    BY <2>1, <2>2
<1>6. ASSUME NEW U \in D(m - 1) PROVE it[U] = old[U]
  <2>1. U \in D(m)
    <3>1. IsFiniteSet(U) /\ Cardinality(U) \in Nat
      BY FS_Subset, FS_CardinalityType
    <3> QED
      BY <3>1, <1>3
  <2> QED
    BY <2>1, <1>4
<1>7. ASSUME NEW U \in D(m) PROVE it[U] = SumStep(it, f, U)
  <2>1. it[U] = SumStep(old, f, U)
    OBVIOUS
  <2> HIDE DEF it, D
  <2> QED
    BY <2>1, <1>5, <1>6 DEF SumStep
<1> QED
  BY <1>1, <1>7 DEF Good, SumSolved

\* The recursion MapThenSumSet is written with.
SumTable(f, S) == CHOOSE it : it = [T \in SUBSET S |-> SumStep(it, f, T)]

\* MapThenSumSet chooses a solution, for there is one.
LEMMA SumTableIs ==
    ASSUME NEW S, IsFiniteSet(S), NEW f
    PROVE  SumTable(f, S) = [T \in SUBSET S |-> SumStep(SumTable(f, S), f, T)]
<1>1. PICK n \in Nat : n = Cardinality(S)
  BY FS_CardinalityType
<1>2. PartsUpTo(S, n) = SUBSET S
  BY <1>1, FS_Subset DEF PartsUpTo
<1>3. \E it : it = [T \in SUBSET S |-> SumStep(it, f, T)]
  <2>1. PICK old : \A T \in PartsUpTo(S, n) : old[T] = SumStep(old, f, T)
    <3>1. SumSolved(S, f, n)
      BY SumParts
    <3> QED
      BY <3>1 DEF SumSolved
  <2> DEFINE it == [T \in SUBSET S |-> old[T]]
  <2>2. it = [T \in SUBSET S |-> SumStep(it, f, T)]
    BY <1>2, <2>1 DEF SumStep
  <2> QED
    BY <2>2
<1> QED
  BY <1>3 DEF SumTable

\* A sum is the entry of the whole set.
LEMMA SumIsTable ==
    ASSUME NEW S, NEW f
    PROVE  SumOver(f, S) = SumTable(f, S)[S]
BY DEF SumOver, MapThenSumSet, MapThenFoldSet, SumTable, SumStep, Pick

\* What it says of a part does not depend on the set the part is taken from.
LEMMA SumTablesAgree ==
    ASSUME NEW S, IsFiniteSet(S), NEW R \in SUBSET S, NEW T \in SUBSET R, NEW f
    PROVE  SumTable(f, S)[T] = SumTable(f, R)[T]
<1> DEFINE Bad == {n \in Nat : \E U \in SUBSET R : Cardinality(U) = n /\ SumTable(f, S)[U] # SumTable(f, R)[U]}
<1> SUFFICES ASSUME SumTable(f, S)[T] # SumTable(f, R)[T] PROVE FALSE
  OBVIOUS
<1>0. IsFiniteSet(R)
  BY FS_Subset
<1>1. Cardinality(T) \in Bad
  BY <1>0, FS_Subset, FS_CardinalityType
<1>2. PICK m \in Bad : \A y \in Bad : m <= y
  <2>1. Bad \in SUBSET Nat /\ Bad # {}
    BY <1>1
  <2> HIDE DEF Bad
  <2> QED
    BY <2>1, FirstOf
<1>3. PICK U \in SUBSET R : Cardinality(U) = m /\ SumTable(f, S)[U] # SumTable(f, R)[U]
  OBVIOUS
<1>4. /\ SumTable(f, S)[U] = SumStep(SumTable(f, S), f, U)
      /\ SumTable(f, R)[U] = SumStep(SumTable(f, R), f, U)
  <2>1. SumTable(f, S) = [V \in SUBSET S |-> SumStep(SumTable(f, S), f, V)]
    BY SumTableIs
  <2>2. SumTable(f, R) = [V \in SUBSET R |-> SumStep(SumTable(f, R), f, V)]
    BY <1>0, SumTableIs
  <2>3. U \in SUBSET S /\ U \in SUBSET R
    OBVIOUS
  <2> QED
    BY <2>1, <2>2, <2>3
<1>5. U # {}
  BY <1>3, <1>4 DEF SumStep
<1> DEFINE V == U \ {Pick(U)}
<1>6. V \in SUBSET R /\ Cardinality(V) = m - 1 /\ m - 1 \in Nat
  <2>1. IsFiniteSet(U) /\ Pick(U) \in U
    BY <1>0, <1>5, FS_Subset DEF Pick
  <2>2. Cardinality(V) = Cardinality(U) - 1 /\ IsFiniteSet(V)
    BY <2>1, FS_RemoveElement
  <2>3. Cardinality(V) \in Nat
    BY <2>2, FS_CardinalityType
  <2> QED
    BY <1>3, <2>2, <2>3
<1>7. SumTable(f, S)[V] = SumTable(f, R)[V]
  <2>1. m - 1 \notin Bad
    BY <1>2, <1>6
  <2> QED
    BY <1>6, <2>1
<1> QED
  BY <1>3, <1>4, <1>5, <1>7 DEF SumStep

\* A sum is its first term and the sum of the others.
LEMMA SumPick ==
    ASSUME NEW S, IsFiniteSet(S), NEW f
    PROVE  SumOver(f, S) = IF S = {} THEN 0 ELSE f[Pick(S)] + SumOver(f, S \ {Pick(S)})
<1>1. SumTable(f, S)[S] = SumStep(SumTable(f, S), f, S)
  <2>1. SumTable(f, S) = [V \in SUBSET S |-> SumStep(SumTable(f, S), f, V)]
    BY SumTableIs
  <2> QED
    BY <2>1
<1> DEFINE R == S \ {Pick(S)}
<1>2. SumTable(f, S)[R] = SumTable(f, R)[R]
  BY SumTablesAgree
<1> QED
  BY <1>1, <1>2, SumIsTable DEF SumStep

\* A sum of integers is one.
LEMMA SumType ==
    ASSUME NEW S, IsFiniteSet(S), NEW f, \A x \in S : f[x] \in Int
    PROVE  SumOver(f, S) \in Int
<1> DEFINE Bad == {n \in Nat : \E U \in SUBSET S : Cardinality(U) = n /\ SumOver(f, U) \notin Int}
<1> SUFFICES ASSUME SumOver(f, S) \notin Int PROVE FALSE
  OBVIOUS
<1>1. Cardinality(S) \in Bad
  BY FS_CardinalityType
<1>2. PICK m \in Bad : \A y \in Bad : m <= y
  <2>1. Bad \in SUBSET Nat /\ Bad # {}
    BY <1>1
  <2> HIDE DEF Bad
  <2> QED
    BY <2>1, FirstOf
<1>3. PICK U \in SUBSET S : Cardinality(U) = m /\ SumOver(f, U) \notin Int
  OBVIOUS
<1>4. IsFiniteSet(U)
  BY FS_Subset
<1>5. U # {}
  <2>1. U = {} => SumOver(f, U) = 0
    BY <1>4, SumPick
  <2> QED
    BY <1>3, <2>1
<1> DEFINE V == U \ {Pick(U)}
<1>6. V \in SUBSET S /\ Cardinality(V) = m - 1 /\ m - 1 \in Nat /\ Pick(U) \in U
  <2>1. Pick(U) \in U
    BY <1>5 DEF Pick
  <2>2. Cardinality(V) = Cardinality(U) - 1 /\ IsFiniteSet(V)
    BY <1>4, <2>1, FS_RemoveElement
  <2>3. Cardinality(V) \in Nat
    BY <2>2, FS_CardinalityType
  <2> QED
    BY <1>3, <2>1, <2>2, <2>3
<1>7. SumOver(f, V) \in Int
  <2>1. m - 1 \notin Bad
    BY <1>2, <1>6
  <2> QED
    BY <1>6, <2>1
<1>8. SumOver(f, U) = f[Pick(U)] + SumOver(f, V)
  BY <1>4, <1>5, SumPick
<1> QED
  BY <1>3, <1>6, <1>7, <1>8

\* Any term may be taken out first.
LEMMA SumRemove ==
    ASSUME NEW S, IsFiniteSet(S), NEW f, \A x \in S : f[x] \in Int, NEW a \in S
    PROVE  SumOver(f, S) = f[a] + SumOver(f, S \ {a})
<1> DEFINE Fits(U, x) == SumOver(f, U) = f[x] + SumOver(f, U \ {x})
           Bad == {n \in Nat : \E U \in SUBSET S : Cardinality(U) = n /\ \E x \in U : ~ Fits(U, x)}
<1> SUFFICES ASSUME ~ Fits(S, a) PROVE FALSE
  OBVIOUS
<1> HIDE DEF Fits
<1>1. Cardinality(S) \in Bad
  BY FS_CardinalityType
<1>2. PICK m \in Bad : \A y \in Bad : m <= y
  <2>1. Bad \in SUBSET Nat /\ Bad # {}
    BY <1>1
  <2> HIDE DEF Bad
  <2> QED
    BY <2>1, FirstOf
<1>3. PICK U \in SUBSET S : Cardinality(U) = m /\ \E x \in U : ~ Fits(U, x)
  OBVIOUS
<1>4. PICK x \in U : ~ Fits(U, x)
  BY <1>3
<1>5. IsFiniteSet(U) /\ Cardinality(U) \in Nat
  BY FS_Subset, FS_CardinalityType
<1> DEFINE y == Pick(U)
<1>6. y \in U
  BY <1>4 DEF Pick
<1>7. Fits(U, y)
  BY <1>4, <1>5, SumPick DEF Fits
<1> HIDE DEF y
<1>8. x # y
  BY <1>4, <1>7
<1>9. ASSUME NEW z \in U, NEW w \in U \ {z} PROVE Fits(U \ {z}, w)
  <2>1. Cardinality(U \ {z}) = m - 1 /\ m - 1 \in Nat
    <3>1. Cardinality(U \ {z}) = Cardinality(U) - 1 /\ IsFiniteSet(U \ {z})
      BY <1>5, FS_RemoveElement
    <3>2. Cardinality(U \ {z}) \in Nat
      BY <3>1, FS_CardinalityType
    <3> QED
      BY <1>3, <3>1, <3>2
  <2>2. m - 1 \notin Bad
    BY <1>2, <2>1
  <2>3. U \ {z} \in SUBSET S
    OBVIOUS
  <2> QED
    BY <2>1, <2>2, <2>3
<1> DEFINE rest == U \ {x, y}
<1>10. (U \ {y}) \ {x} = rest /\ (U \ {x}) \ {y} = rest
  OBVIOUS
<1>11. SumOver(f, rest) \in Int
  <2>1. IsFiniteSet(rest) /\ \A w \in rest : f[w] \in Int
    BY <1>5, FS_Subset
  <2> HIDE DEF rest
  <2> QED
    BY <2>1, SumType
<1>12. SumOver(f, U \ {y}) = f[x] + SumOver(f, rest)
  BY <1>6, <1>8, <1>9, <1>10 DEF Fits
<1>13. SumOver(f, U \ {x}) = f[y] + SumOver(f, rest)
  BY <1>6, <1>8, <1>9, <1>10 DEF Fits
<1>14. SumOver(f, U) = f[y] + SumOver(f, U \ {y})
  BY <1>7 DEF Fits
<1>15. f[x] \in Int /\ f[y] \in Int
  BY <1>6
<1>16. SumOver(f, U) = f[x] + SumOver(f, U \ {x})
  <2> HIDE DEF rest
  <2> QED
    BY <1>11, <1>12, <1>13, <1>14, <1>15
<1> QED
  BY <1>4, <1>16 DEF Fits

\* One term more.
LEMMA SumAdd ==
    ASSUME NEW S, IsFiniteSet(S), NEW f, NEW a, a \notin S, \A x \in S \cup {a} : f[x] \in Int
    PROVE  SumOver(f, S \cup {a}) = SumOver(f, S) + f[a]
<1> DEFINE T == S \cup {a}
<1>1. IsFiniteSet(T) /\ a \in T /\ T \ {a} = S
  BY FS_AddElement
<1>2. SumOver(f, T) = f[a] + SumOver(f, T \ {a})
  <2>1. \A x \in T : f[x] \in Int
    OBVIOUS
  <2> HIDE DEF T
  <2> QED
    BY <1>1, <2>1, SumRemove
<1>3. SumOver(f, S) \in Int /\ f[a] \in Int
  BY SumType
<1>4. SumOver(f, T) = f[a] + SumOver(f, S)
  BY <1>1, <1>2
<1> HIDE DEF T
<1>5. SumOver(f, T) = SumOver(f, S) + f[a]
  BY <1>3, <1>4
<1> QED
  BY <1>5 DEF T

\* Equal terms have equal sums.
LEMMA SumSame ==
    ASSUME NEW S, IsFiniteSet(S), NEW f, NEW g, \A x \in S : f[x] = g[x]
    PROVE  SumOver(f, S) = SumOver(g, S)
<1> DEFINE Bad == {n \in Nat : \E U \in SUBSET S : Cardinality(U) = n /\ SumOver(f, U) # SumOver(g, U)}
<1> SUFFICES ASSUME SumOver(f, S) # SumOver(g, S) PROVE FALSE
  OBVIOUS
<1>1. Cardinality(S) \in Bad
  BY FS_CardinalityType
<1>2. PICK m \in Bad : \A y \in Bad : m <= y
  <2>1. Bad \in SUBSET Nat /\ Bad # {}
    BY <1>1
  <2> HIDE DEF Bad
  <2> QED
    BY <2>1, FirstOf
<1>3. PICK U \in SUBSET S : Cardinality(U) = m /\ SumOver(f, U) # SumOver(g, U)
  OBVIOUS
<1>4. IsFiniteSet(U)
  BY FS_Subset
<1>5. U # {}
  BY <1>3, <1>4, SumPick
<1> DEFINE V == U \ {Pick(U)}
<1>6. V \in SUBSET S /\ Cardinality(V) = m - 1 /\ m - 1 \in Nat /\ Pick(U) \in U
  <2>1. Pick(U) \in U
    BY <1>5 DEF Pick
  <2>2. Cardinality(V) = Cardinality(U) - 1 /\ IsFiniteSet(V)
    BY <1>4, <2>1, FS_RemoveElement
  <2>3. Cardinality(V) \in Nat
    BY <2>2, FS_CardinalityType
  <2> QED
    BY <1>3, <2>1, <2>2, <2>3
<1>7. SumOver(f, V) = SumOver(g, V)
  <2>1. m - 1 \notin Bad
    BY <1>2, <1>6
  <2> QED
    BY <1>6, <2>1
<1>8. SumOver(f, U) = f[Pick(U)] + SumOver(f, V) /\ SumOver(g, U) = g[Pick(U)] + SumOver(g, V)
  BY <1>4, <1>5, SumPick
<1> QED
  BY <1>3, <1>6, <1>7, <1>8

\* The sum of one term, and of none.
LEMMA SumOne ==
    ASSUME NEW f, NEW a, f[a] \in Int
    PROVE  SumOver(f, {}) = 0 /\ SumOver(f, {a}) = f[a]
<1>1. SumOver(f, {}) = 0
  BY FS_EmptySet, SumPick
<1>2. SumOver(f, {} \cup {a}) = SumOver(f, {}) + f[a]
  BY FS_EmptySet, SumAdd
<1>3. {} \cup {a} = {a}
  OBVIOUS
<1> QED
  BY <1>1, <1>2, <1>3

\* At most one element of a set.
AtMostOne(P) == P = {} \/ \E p : P = {p}

\* Taking at most one term out of a sum and putting at most one in.
OneForOne(f, g, S, P, A) == SumOver(g, (S \ P) \cup A) = SumOver(f, S) - SumOver(f, P) + SumOver(g, A)

\* It changes the sum by the terms taken out and put in.
LEMMA SumReplace ==
    ASSUME NEW S, IsFiniteSet(S), NEW f, NEW g, \A x \in S : f[x] \in Int /\ g[x] = f[x],
           NEW P \in SUBSET S, AtMostOne(P), NEW A, AtMostOne(A), A \cap S = {}, \A x \in A : g[x] \in Int
    PROVE  OneForOne(f, g, S, P, A)
<1> DEFINE R == S \ P
<1>1. IsFiniteSet(R) /\ \A x \in R : f[x] \in Int /\ g[x] = f[x]
  BY FS_Subset
<1>2. SumOver(f, S) \in Int
  BY SumType
<1>3. SumOver(f, R) = SumOver(f, S) - SumOver(f, P) /\ SumOver(f, R) \in Int
  <2>0. SumOver(f, R) \in Int
    <3> HIDE DEF R
    <3> QED
      BY <1>1, SumType
  <2>1. CASE P = {}
    <3>1. R = S /\ SumOver(f, P) = 0
      BY <2>1, FS_EmptySet, SumPick
    <3>2. SumOver(f, R) = SumOver(f, S)
      BY <3>1
    <3> HIDE DEF R
    <3> QED
      BY <1>2, <3>1, <3>2
  <2>2. CASE P # {}
    <3>1. PICK p \in S : P = {p}
      BY <2>2 DEF AtMostOne
    <3>2. SumOver(f, S) = f[p] + SumOver(f, S \ {p})
      BY SumRemove
    <3>3. SumOver(f, P) = f[p] /\ f[p] \in Int
      BY <3>1, SumOne
    <3>4. SumOver(f, S) = f[p] + SumOver(f, R)
      BY <3>1, <3>2
    <3> HIDE DEF R
    <3> QED
      BY <2>0, <3>3, <3>4
  <2> QED
    BY <2>1, <2>2
<1>4. SumOver(g, R) = SumOver(f, R)
  <2> HIDE DEF R
  <2> QED
    BY <1>1, SumSame
<1>5. SumOver(g, R \cup A) = SumOver(g, R) + SumOver(g, A)
  <2>1. CASE A = {}
    <3>1. R \cup A = R /\ SumOver(g, A) = 0
      BY <2>1, FS_EmptySet, SumPick
    <3>2. SumOver(g, R \cup A) = SumOver(g, R)
      BY <3>1
    <3> HIDE DEF R
    <3> QED
      BY <1>3, <1>4, <3>1, <3>2
  <2>2. CASE A # {}
    <3>1. PICK a : A = {a}
      BY <2>2 DEF AtMostOne
    <3>2. a \notin R /\ g[a] \in Int /\ \A x \in R \cup {a} : g[x] \in Int
      BY <1>1, <3>1
    <3> HIDE DEF R
    <3>3. SumOver(g, R \cup {a}) = SumOver(g, R) + g[a]
      BY <1>1, <3>2, SumAdd
    <3>4. SumOver(g, A) = g[a]
      BY <3>1, <3>2, SumOne
    <3> QED
      BY <3>1, <3>3, <3>4
  <2> QED
    BY <2>1, <2>2
<1>6. SumOver(g, R \cup A) = SumOver(f, S) - SumOver(f, P) + SumOver(g, A)
  <2> HIDE DEF R
  <2> QED
    BY <1>3, <1>4, <1>5
<1> QED
  BY <1>6 DEF OneForOne

\* One term of a sum is another.
LEMMA SumChange ==
    ASSUME NEW S, IsFiniteSet(S), NEW f, NEW g, NEW a \in S,
           \A x \in S : f[x] \in Int /\ g[x] \in Int /\ (x # a => g[x] = f[x])
    PROVE  SumOver(g, S) = SumOver(f, S) - f[a] + g[a]
<1> DEFINE R == S \ {a}
<1>1. SumOver(f, S) = f[a] + SumOver(f, R)
  BY SumRemove
<1>2. SumOver(g, S) = g[a] + SumOver(g, R)
  BY SumRemove
<1>3. IsFiniteSet(R) /\ \A x \in R : f[x] \in Int /\ g[x] = f[x]
  BY FS_Subset
<1>4. f[a] \in Int /\ g[a] \in Int
  OBVIOUS
<1> HIDE DEF R
<1>5. SumOver(g, R) = SumOver(f, R) /\ SumOver(f, R) \in Int
  BY <1>3, SumSame, SumType
<1> QED
  BY <1>1, <1>2, <1>4, <1>5

\* A sum of nothing but zeros.
LEMMA SumZero ==
    ASSUME NEW S, IsFiniteSet(S), NEW f, \A x \in S : f[x] = 0
    PROVE  SumOver(f, S) = 0
<1> DEFINE Bad == {n \in Nat : \E U \in SUBSET S : Cardinality(U) = n /\ SumOver(f, U) # 0}
<1> SUFFICES ASSUME SumOver(f, S) # 0 PROVE FALSE
  OBVIOUS
<1>1. Cardinality(S) \in Bad
  BY FS_CardinalityType
<1>2. PICK m \in Bad : \A y \in Bad : m <= y
  <2>1. Bad \in SUBSET Nat /\ Bad # {}
    BY <1>1
  <2> HIDE DEF Bad
  <2> QED
    BY <2>1, FirstOf
<1>3. PICK U \in SUBSET S : Cardinality(U) = m /\ SumOver(f, U) # 0
  OBVIOUS
<1>4. IsFiniteSet(U)
  BY FS_Subset
<1>5. U # {}
  BY <1>3, <1>4, SumPick
<1> DEFINE V == U \ {Pick(U)}
<1>6. V \in SUBSET S /\ Cardinality(V) = m - 1 /\ m - 1 \in Nat /\ Pick(U) \in U
  <2>1. Pick(U) \in U
    BY <1>5 DEF Pick
  <2>2. Cardinality(V) = Cardinality(U) - 1 /\ IsFiniteSet(V)
    BY <1>4, <2>1, FS_RemoveElement
  <2>3. Cardinality(V) \in Nat
    BY <2>2, FS_CardinalityType
  <2> QED
    BY <1>3, <2>1, <2>2, <2>3
<1>7. SumOver(f, V) = 0
  <2>1. m - 1 \notin Bad
    BY <1>2, <1>6
  <2> QED
    BY <1>6, <2>1
<1>8. SumOver(f, U) = f[Pick(U)] + SumOver(f, V)
  BY <1>4, <1>5, SumPick
<1> QED
  BY <1>3, <1>6, <1>7, <1>8

\* The terms that have a key, and their sum for each key (GROUP BY).
Under(S, key, k) == {i \in S : key[i] = k}
Grouped(f, S, key, K) == [k \in K |-> SumOver(f, Under(S, key, k))]

\* The sums of all groups add up to the sum of all terms.
LEMMA SumByKey ==
    ASSUME NEW S, IsFiniteSet(S), NEW f, \A x \in S : f[x] \in Int,
           NEW key, NEW K, IsFiniteSet(K), \A x \in S : key[x] \in K
    PROVE  SumOver(Grouped(f, S, key, K), K) = SumOver(f, S)
<1> DEFINE Fits(U) == SumOver(Grouped(f, U, key, K), K) = SumOver(f, U)
           Bad == {n \in Nat : \E U \in SUBSET S : Cardinality(U) = n /\ ~ Fits(U)}
<1> SUFFICES ASSUME ~ Fits(S) PROVE FALSE
  OBVIOUS
<1> HIDE DEF Fits
<1>1. Cardinality(S) \in Bad
  BY FS_CardinalityType
<1>2. PICK m \in Bad : \A y \in Bad : m <= y
  <2>1. Bad \in SUBSET Nat /\ Bad # {}
    BY <1>1
  <2> HIDE DEF Bad
  <2> QED
    BY <2>1, FirstOf
<1>3. PICK U \in SUBSET S : Cardinality(U) = m /\ ~ Fits(U)
  OBVIOUS
<1>4. IsFiniteSet(U)
  BY FS_Subset
<1>5. U # {}
  <2>1. SumOver(f, {}) = 0
    BY FS_EmptySet, SumPick
  <2>2. \A k \in K : Under({}, key, k) = {}
    BY DEF Under
  <2>3. \A k \in K : Grouped(f, {}, key, K)[k] = 0
    BY <2>1, <2>2 DEF Grouped
  <2>4. SumOver(Grouped(f, {}, key, K), K) = 0
    BY <2>3, SumZero
  <2>5. Fits({})
    BY <2>1, <2>4 DEF Fits
  <2> QED
    BY <1>3, <2>5
<1> DEFINE x == Pick(U)
           V == U \ {x}
<1>6. V \in SUBSET S /\ Cardinality(V) = m - 1 /\ m - 1 \in Nat /\ x \in U /\ IsFiniteSet(V)
  <2>1. x \in U
    BY <1>5 DEF Pick
  <2>2. Cardinality(V) = Cardinality(U) - 1 /\ IsFiniteSet(V)
    BY <1>4, <2>1, FS_RemoveElement
  <2>3. Cardinality(V) \in Nat
    BY <2>2, FS_CardinalityType
  <2> QED
    BY <1>3, <2>1, <2>2, <2>3
<1>7. Fits(V)
  <2>1. m - 1 \notin Bad
    BY <1>2, <1>6
  <2> QED
    BY <1>6, <2>1
<1> HIDE DEF x
<1>8. V \cup {x} = U /\ x \notin V /\ f[x] \in Int /\ key[x] \in K /\ \A y \in V : f[y] \in Int
  BY <1>6
<1> HIDE DEF V
<1>9. SumOver(f, U) = SumOver(f, V) + f[x] /\ SumOver(f, V) \in Int
  <2>1. SumOver(f, V) \in Int
    BY <1>6, <1>8, SumType
  <2>2. SumOver(f, V \cup {x}) = SumOver(f, V) + f[x]
    BY <1>6, <1>8, SumAdd
  <2> QED
    BY <1>8, <2>1, <2>2
<1> DEFINE gU == Grouped(f, U, key, K)
           gV == Grouped(f, V, key, K)
<1>10. ASSUME NEW k \in K PROVE gV[k] \in Int /\ gU[k] = IF k = key[x] THEN gV[k] + f[x] ELSE gV[k]
  <2> DEFINE B == Under(V, key, k)
  <2>1. gV[k] = SumOver(f, B) /\ gU[k] = SumOver(f, Under(U, key, k))
    BY DEF Grouped
  <2>2. IsFiniteSet(B) /\ x \notin B /\ \A y \in B : f[y] \in Int
    <3>1. B \in SUBSET V
      BY DEF Under
    <3> QED
      BY <1>6, <1>8, <3>1, FS_Subset
  <2>3. Under(U, key, k) = IF k = key[x] THEN B \cup {x} ELSE B
    BY <1>8 DEF Under
  <2> HIDE DEF B
  <2>4. SumOver(f, B) \in Int
    BY <2>2, SumType
  <2>5. SumOver(f, B \cup {x}) = SumOver(f, B) + f[x]
    BY <1>8, <2>2, SumAdd
  <2> QED
    BY <2>1, <2>3, <2>4, <2>5
<1>11. \A k \in K : gV[k] \in Int /\ gU[k] \in Int /\ (k # key[x] => gU[k] = gV[k])
  BY <1>8, <1>10
<1>12. gU[key[x]] = gV[key[x]] + f[x] /\ gV[key[x]] \in Int
  BY <1>8, <1>10
<1> HIDE DEF gU, gV
<1>13. SumOver(gU, K) = SumOver(gV, K) - gV[key[x]] + gU[key[x]]
  <2> DEFINE a == key[x]
  <2>1. a \in K /\ \A k \in K : gV[k] \in Int /\ gU[k] \in Int /\ (k # a => gU[k] = gV[k])
    BY <1>8, <1>11
  <2> HIDE DEF a
  <2>2. SumOver(gU, K) = SumOver(gV, K) - gV[a] + gU[a]
    BY <2>1, SumChange
  <2> QED
    BY <2>2 DEF a
<1>14. SumOver(gV, K) \in Int
  BY <1>11, SumType
<1>15. SumOver(gU, K) = SumOver(gV, K) + f[x]
  BY <1>8, <1>12, <1>13, <1>14
<1>16. SumOver(gV, K) = SumOver(f, V)
  BY <1>7 DEF Fits, gV
<1>17. Fits(U)
  BY <1>9, <1>15, <1>16 DEF Fits, gU
<1> QED
  BY <1>3, <1>17

\* The keys of finitely many terms.
LEMMA KeysFinite ==
    ASSUME NEW S, IsFiniteSet(S), NEW key
    PROVE  IsFiniteSet({key[i] : i \in S})
<1> DEFINE T == {key[i] : i \in S}
           f == [i \in S |-> key[i]]
<1>1. f \in Surjection(S, T)
  BY DEF Surjection
<1> HIDE DEF T, f
<1>2. IsFiniteSet(T)
  BY <1>1, FS_Surjection
<1> QED
  BY <1>2 DEF T

-----------------------------------------------------------------------------
(* The rows of a session, and one row more.                                *)

Metas == {[k |-> "meta", id |-> NoId, model |-> UnknownModel, tok |-> n] : n \in {0, Fork}}
UsageLines == Receipt \cup Record \cup Metas
LedgerRows == [line : UsageLines, day : 1 .. LastDay, inherited : BOOLEAN,
               parent : {NoId} \cup {l.model : l \in UsageLines}]

\* A row is added behind the others.
LEMMA OneMore ==
    ASSUME NEW rows \in Seq(LedgerRows), NEW entry \in LedgerRows
    PROVE  LET new == rows \o <<entry>>
               n   == Len(rows)
           IN  /\ new \in Seq(LedgerRows)
               /\ n \in Nat /\ Len(new) = n + 1
               /\ DOMAIN rows = 1 .. n /\ DOMAIN new = 1 .. (n + 1)
               /\ \A i \in 1 .. n : new[i] = rows[i]
               /\ new[n + 1] = entry
<1> DEFINE one == <<entry>>
<1>1. one \in Seq(LedgerRows) /\ Len(one) = 1 /\ one[1] = entry
  OBVIOUS
<1> HIDE DEF one
<1>2. rows \o one \in Seq(LedgerRows) /\ Len(rows \o one) = Len(rows) + Len(one)
      /\ \A i \in 1 .. Len(rows) + Len(one) :
            (rows \o one)[i] = IF i <= Len(rows) THEN rows[i] ELSE one[i - Len(rows)]
  BY <1>1, ConcatProperties
<1>3. Len(rows) \in Nat /\ DOMAIN rows = 1 .. Len(rows) /\ DOMAIN (rows \o one) = 1 .. Len(rows \o one)
  BY <1>2, LenProperties
<1> QED
  BY <1>1, <1>2, <1>3 DEF one

\* What a repair knows after i rows, from what it knew before the last.
ContextStep(c, rows, i) == IF i = 0 THEN NewCtx ELSE UpdateContext(c[i - 1], rows[i].line, i - 1)
ContextSolved(rows, n) == \E c : \A i \in 0 .. n : c[i] = ContextStep(c, rows, i)

\* The recursion has a solution for any number of rows.
LEMMA ContextExists ==
    ASSUME NEW rows, NEW n \in Nat
    PROVE  ContextSolved(rows, n)
<1> DEFINE Bad == {m \in Nat : ~ ContextSolved(rows, m)}
<1> SUFFICES ASSUME ~ ContextSolved(rows, n) PROVE FALSE
  OBVIOUS
<1>1. PICK m \in Bad : \A y \in Bad : m <= y
  <2>1. Bad \in SUBSET Nat /\ Bad # {}
    OBVIOUS
  <2> HIDE DEF Bad
  <2> QED
    BY <2>1, FirstOf
<1>2. m # 0
  <2> DEFINE c == [i \in 0 .. 0 |-> NewCtx]
  <2>1. \A i \in 0 .. 0 : c[i] = ContextStep(c, rows, i)
    BY DEF ContextStep
  <2>2. ContextSolved(rows, 0)
    BY <2>1 DEF ContextSolved
  <2> QED
    BY <2>2
<1>3. m - 1 \in Nat /\ ContextSolved(rows, m - 1)
  BY <1>1, <1>2
<1>4. PICK c : \A i \in 0 .. (m - 1) : c[i] = ContextStep(c, rows, i)
  BY <1>3 DEF ContextSolved
<1> DEFINE d == [i \in 0 .. m |-> IF i < m THEN c[i] ELSE ContextStep(c, rows, i)]
<1>5. ASSUME NEW i \in 0 .. m PROVE d[i] = ContextStep(d, rows, i)
  <2>1. d[i] = ContextStep(c, rows, i)
    BY <1>3, <1>4
  <2>2. i # 0 => d[i - 1] = c[i - 1]
    BY <1>3
  <2> HIDE DEF d
  <2> QED
    BY <2>1, <2>2 DEF ContextStep
<1> HIDE DEF d
<1>6. ContextSolved(rows, m)
  BY <1>5 DEF ContextSolved
<1> QED
  BY <1>1, <1>6

\* The context after each row is made from the one before it.
LEMMA ContextIs ==
    ASSUME NEW rows, Len(rows) \in Nat
    PROVE  \A i \in 0 .. Len(rows) : ContextAfter(rows)[i] = ContextStep(ContextAfter(rows), rows, i)
<1> DEFINE C == CHOOSE c : c = [i \in 0 .. Len(rows) |-> ContextStep(c, rows, i)]
<1>1. ContextAfter(rows) = C
  BY DEF ContextAfter, ContextStep
<1>2. PICK n \in Nat : n = Len(rows)
  OBVIOUS
<1>3. PICK old : \A i \in 0 .. n : old[i] = ContextStep(old, rows, i)
  <2>1. ContextSolved(rows, n)
    BY ContextExists
  <2> QED
    BY <2>1 DEF ContextSolved
<1> DEFINE d == [i \in 0 .. n |-> old[i]]
<1>4. d = [i \in 0 .. n |-> ContextStep(d, rows, i)]
  <2>1. ASSUME NEW i \in 0 .. n PROVE d[i] = ContextStep(d, rows, i)
    <3>1. i # 0 => d[i - 1] = old[i - 1]
      BY <1>2
    <3>2. d[i] = ContextStep(old, rows, i)
      BY <1>3
    <3> HIDE DEF d
    <3> QED
      BY <3>1, <3>2 DEF ContextStep
  <2> QED
    BY <2>1
<1> HIDE DEF d
<1>5. C = [i \in 0 .. n |-> ContextStep(C, rows, i)]
  BY <1>2, <1>4
<1> HIDE DEF C
<1> QED
  BY <1>1, <1>2, <1>5

\* The contexts of the first rows do not depend on the rows behind them.
LEMMA ContextOfPrefix ==
    ASSUME NEW rows \in Seq(LedgerRows), NEW entry \in LedgerRows
    PROVE  \A i \in 0 .. Len(rows) : ContextAfter(rows \o <<entry>>)[i] = ContextAfter(rows)[i]
<1> DEFINE new == rows \o <<entry>>
           Bad == {i \in 0 .. Len(rows) : ContextAfter(new)[i] # ContextAfter(rows)[i]}
<1> SUFFICES ASSUME Bad # {} PROVE FALSE
  OBVIOUS
<1>0. Len(rows) \in Nat /\ Len(new) = Len(rows) + 1 /\ \A i \in 1 .. Len(rows) : new[i] = rows[i]
  BY OneMore
<1> HIDE DEF new
<1>1. PICK m \in Bad : \A y \in Bad : m <= y
  <2>1. Bad \in SUBSET Nat
    BY <1>0
  <2> HIDE DEF Bad
  <2> QED
    BY <2>1, FirstOf
<1>2. /\ ContextAfter(new)[m] = ContextStep(ContextAfter(new), new, m)
      /\ ContextAfter(rows)[m] = ContextStep(ContextAfter(rows), rows, m)
  BY <1>0, ContextIs
<1>3. CASE m = 0
  BY <1>1, <1>2, <1>3 DEF ContextStep
<1>4. CASE m # 0
  <2>1. m - 1 \in 0 .. Len(rows) /\ m - 1 \notin Bad /\ m \in 1 .. Len(rows)
    BY <1>0, <1>1, <1>4
  <2>2. ContextAfter(new)[m - 1] = ContextAfter(rows)[m - 1] /\ new[m] = rows[m]
    BY <1>0, <2>1
  <2> QED
    BY <1>1, <1>2, <1>4, <2>2 DEF ContextStep
<1> QED
  BY <1>3, <1>4

\* What a replay has counted after i rows, from what it had before the last.
ReplayStep(c, rows, i) ==
    IF i = 0 THEN NewReplay ELSE IF rows[i].inherited THEN c[i - 1] ELSE Observe(c[i - 1], rows[i], i)
ReplaySolved(rows, n) == \E c : \A i \in 0 .. n : c[i] = ReplayStep(c, rows, i)

\* The recursion has a solution for any number of rows.
LEMMA ReplayExists ==
    ASSUME NEW rows, NEW n \in Nat
    PROVE  ReplaySolved(rows, n)
<1> DEFINE Bad == {m \in Nat : ~ ReplaySolved(rows, m)}
<1> SUFFICES ASSUME ~ ReplaySolved(rows, n) PROVE FALSE
  OBVIOUS
<1>1. PICK m \in Bad : \A y \in Bad : m <= y
  <2>1. Bad \in SUBSET Nat /\ Bad # {}
    OBVIOUS
  <2> HIDE DEF Bad
  <2> QED
    BY <2>1, FirstOf
<1>2. m # 0
  <2> DEFINE c == [i \in 0 .. 0 |-> NewReplay]
  <2>1. \A i \in 0 .. 0 : c[i] = ReplayStep(c, rows, i)
    BY DEF ReplayStep
  <2>2. ReplaySolved(rows, 0)
    BY <2>1 DEF ReplaySolved
  <2> QED
    BY <2>2
<1>3. m - 1 \in Nat /\ ReplaySolved(rows, m - 1)
  BY <1>1, <1>2
<1>4. PICK c : \A i \in 0 .. (m - 1) : c[i] = ReplayStep(c, rows, i)
  BY <1>3 DEF ReplaySolved
<1> DEFINE d == [i \in 0 .. m |-> IF i < m THEN c[i] ELSE ReplayStep(c, rows, i)]
<1>5. ASSUME NEW i \in 0 .. m PROVE d[i] = ReplayStep(d, rows, i)
  <2>1. d[i] = ReplayStep(c, rows, i)
    BY <1>3, <1>4
  <2>2. i # 0 => d[i - 1] = c[i - 1]
    BY <1>3
  <2> HIDE DEF d
  <2> QED
    BY <2>1, <2>2 DEF ReplayStep
<1> HIDE DEF d
<1>6. ReplaySolved(rows, m)
  BY <1>5 DEF ReplaySolved
<1> QED
  BY <1>1, <1>6

\* The replay after each row is made from the one before it.
LEMMA ReplayIs ==
    ASSUME NEW rows, Len(rows) \in Nat
    PROVE  \A i \in 0 .. Len(rows) : Observed(rows)[i] = ReplayStep(Observed(rows), rows, i)
<1> DEFINE C == CHOOSE c : c = [i \in 0 .. Len(rows) |-> ReplayStep(c, rows, i)]
<1>1. Observed(rows) = C
  BY DEF Observed, ReplayStep
<1>2. PICK n \in Nat : n = Len(rows)
  OBVIOUS
<1>3. PICK old : \A i \in 0 .. n : old[i] = ReplayStep(old, rows, i)
  <2>1. ReplaySolved(rows, n)
    BY ReplayExists
  <2> QED
    BY <2>1 DEF ReplaySolved
<1> DEFINE d == [i \in 0 .. n |-> old[i]]
<1>4. d = [i \in 0 .. n |-> ReplayStep(d, rows, i)]
  <2>1. ASSUME NEW i \in 0 .. n PROVE d[i] = ReplayStep(d, rows, i)
    <3>1. i # 0 => d[i - 1] = old[i - 1]
      BY <1>2
    <3>2. d[i] = ReplayStep(old, rows, i)
      BY <1>3
    <3> HIDE DEF d
    <3> QED
      BY <3>1, <3>2 DEF ReplayStep
  <2> QED
    BY <2>1
<1> HIDE DEF d
<1>5. C = [i \in 0 .. n |-> ReplayStep(C, rows, i)]
  BY <1>2, <1>4
<1> HIDE DEF C
<1> QED
  BY <1>1, <1>2, <1>5

\* The replays of the first rows do not depend on the rows behind them.
LEMMA ReplayOfPrefix ==
    ASSUME NEW rows \in Seq(LedgerRows), NEW entry \in LedgerRows
    PROVE  \A i \in 0 .. Len(rows) : Observed(rows \o <<entry>>)[i] = Observed(rows)[i]
<1> DEFINE new == rows \o <<entry>>
           Bad == {i \in 0 .. Len(rows) : Observed(new)[i] # Observed(rows)[i]}
<1> SUFFICES ASSUME Bad # {} PROVE FALSE
  OBVIOUS
<1>0. Len(rows) \in Nat /\ Len(new) = Len(rows) + 1 /\ \A i \in 1 .. Len(rows) : new[i] = rows[i]
  BY OneMore
<1> HIDE DEF new
<1>1. PICK m \in Bad : \A y \in Bad : m <= y
  <2>1. Bad \in SUBSET Nat
    BY <1>0
  <2> HIDE DEF Bad
  <2> QED
    BY <2>1, FirstOf
<1>2. /\ Observed(new)[m] = ReplayStep(Observed(new), new, m)
      /\ Observed(rows)[m] = ReplayStep(Observed(rows), rows, m)
  BY <1>0, ReplayIs
<1>3. CASE m = 0
  BY <1>1, <1>2, <1>3 DEF ReplayStep
<1>4. CASE m # 0
  <2>1. m - 1 \in 0 .. Len(rows) /\ m - 1 \notin Bad /\ m \in 1 .. Len(rows)
    BY <1>0, <1>1, <1>4
  <2>2. Observed(new)[m - 1] = Observed(rows)[m - 1] /\ new[m] = rows[m]
    BY <1>0, <2>1
  <2> QED
    BY <1>1, <1>2, <1>4, <2>2 DEF ReplayStep
<1> QED
  BY <1>3, <1>4

-----------------------------------------------------------------------------
(* Lineage: the context of a tick is that of a repair.                     *)

\* A row number that no other exceeds is the greatest.
LEMMA MaxBy ==
    ASSUME NEW n \in Nat, NEW S \in SUBSET (1 .. n), NEW m \in S, \A y \in S : y <= m
    PROVE  Max(S) = m
<1>1. Max(S) \in S /\ m <= Max(S) /\ Max(S) <= m
  BY MaxOf
<1>2. Max(S) \in 1 .. n /\ m \in 1 .. n
  BY <1>1
<1> QED
  BY <1>1, <1>2

\* The number of lines a fork has of its parent, the session's own turns, and
\* the turn a line falls into.
StartOf(rows) == IF Codex(rows) THEN rows[1].line.tok ELSE 0
OwnTurns(rows, i) == {j \in 1 .. i : rows[j].line.k = "turn" /\ ~rows[j].inherited}
TurnAt(rows, i) == IF OwnTurns(rows, i) = {} THEN NoId ELSE rows[Max(OwnTurns(rows, i))].line.model

\* The lines a transcript can hold next, and the transcripts made of them.
LinesAfter(rows) == IF rows = <<>> THEN Receipt \cup Metas ELSE IF Codex(rows) THEN Record ELSE Receipt
Shaped(rows) ==
    /\ rows \in Seq(LedgerRows)
    /\ Codex(rows) => rows[1].line \in Metas /\ \A i \in 2 .. Len(rows) : rows[i].line \in Record
    /\ ~Codex(rows) => \A i \in 1 .. Len(rows) : rows[i].line \in Receipt

\* What a repair derives is known from the rows, and the rows say it.
LineageOf(rows) ==
    /\ \A i \in 0 .. Len(rows) :
          ContextAfter(rows)[i] = [start |-> IF i = 0 THEN 0 ELSE StartOf(rows), turn |-> TurnAt(rows, i)]
    /\ \A i \in 1 .. Len(rows) :
          rows[i] = Enriched(ContextAfter(rows)[i - 1], rows[i].line, i - 1, rows[i].day)

\* Kinds of lines do not overlap.
LEMMA LineKinds ==
    /\ \A l \in Receipt : l.k = "receipt" /\ l.tok \in Int
    /\ \A l \in Record : l.k \in {"total", "response", "turn", "foreign"} /\ l.tok \in Int
    /\ \A l \in Metas : l.k = "meta" /\ l.tok \in Nat /\ l.model = UnknownModel
    /\ \A l \in UsageLines : l.tok \in Int
BY LedgerAssumption DEF Metas, UsageLines

\* Of the rows that are there, another row behind them changes nothing.
LEMMA TurnsOfPrefix ==
    ASSUME NEW rows \in Seq(LedgerRows), NEW entry \in LedgerRows, NEW i \in 0 .. Len(rows)
    PROVE  LET new == rows \o <<entry>>
           IN  /\ OwnTurns(new, i) = OwnTurns(rows, i)
               /\ TurnAt(new, i) = TurnAt(rows, i) /\ ModelAt(new, i) = ModelAt(rows, i)
<1> DEFINE new == rows \o <<entry>>
<1>1. Len(rows) \in Nat /\ \A j \in 1 .. Len(rows) : new[j] = rows[j]
  BY OneMore
<1> HIDE DEF new
<1>2. OwnTurns(new, i) = OwnTurns(rows, i)
  BY <1>1 DEF OwnTurns
<1>3. OwnTurns(rows, i) # {} => Max(OwnTurns(rows, i)) \in 1 .. Len(rows)
  <2>1. i \in Nat /\ OwnTurns(rows, i) \in SUBSET (1 .. i) /\ 1 .. i \subseteq 1 .. Len(rows)
    BY <1>1 DEF OwnTurns
  <2> QED
    BY <2>1, MaxOf
<1>4. TurnAt(new, i) = TurnAt(rows, i)
  BY <1>1, <1>2, <1>3 DEF TurnAt
<1>5. ModelAt(new, i) = ModelAt(rows, i)
  BY <1>1, <1>2, <1>3 DEF ModelAt, OwnTurns
<1> QED
  BY <1>2, <1>4, <1>5 DEF new

\* The line's own row, if it is a turn of the session, is the turn.
LEMMA TurnOfLast ==
    ASSUME NEW rows \in Seq(LedgerRows), NEW entry \in LedgerRows
    PROVE  LET new == rows \o <<entry>>
               n == Len(rows)
               own == entry.line.k = "turn" /\ ~entry.inherited
           IN  /\ TurnAt(new, n + 1) = IF own THEN entry.line.model ELSE TurnAt(rows, n)
               /\ ModelAt(new, n + 1) = IF own THEN entry.line.model ELSE ModelAt(rows, n)
<1> DEFINE new == rows \o <<entry>>
           n == Len(rows)
<1>1. n \in Nat /\ new[n + 1] = entry /\ \A j \in 1 .. n : new[j] = rows[j]
  BY OneMore
<1>2. /\ OwnTurns(new, n) = OwnTurns(rows, n)
      /\ TurnAt(new, n) = TurnAt(rows, n) /\ ModelAt(new, n) = ModelAt(rows, n)
  BY <1>1, TurnsOfPrefix
<1> HIDE DEF new, n
<1>3. CASE entry.line.k = "turn" /\ ~entry.inherited
  <2>1. n + 1 \in OwnTurns(new, n + 1) /\ OwnTurns(new, n + 1) \in SUBSET (1 .. (n + 1))
        /\ \A y \in OwnTurns(new, n + 1) : y <= n + 1
    BY <1>1, <1>3 DEF OwnTurns
  <2>2. Max(OwnTurns(new, n + 1)) = n + 1
    <3>1. n + 1 \in Nat
      BY <1>1
    <3> QED
      BY <2>1, <3>1, MaxBy
  <2> QED
    BY <1>1, <1>3, <2>1, <2>2 DEF TurnAt, ModelAt, OwnTurns, new, n
<1>4. CASE ~(entry.line.k = "turn" /\ ~entry.inherited)
  <2>1. OwnTurns(new, n + 1) = OwnTurns(new, n)
    BY <1>1, <1>4 DEF OwnTurns
  <2> QED
    BY <1>2, <1>4, <2>1 DEF TurnAt, ModelAt, OwnTurns, new, n
<1> QED
  BY <1>3, <1>4

\* The fields of a row that enrich_codex_lineage writes.
LEMMA EnrichedIs ==
    ASSUME NEW c, NEW line, NEW ordinal, NEW day
    PROVE  LET entry == Enriched(c, line, ordinal, day)
           IN  /\ entry.line = line /\ entry.day = day
               /\ entry.inherited <=> IsInherited(c, line, ordinal)
               /\ entry.inherited \in BOOLEAN
               /\ entry.parent = IF IsInherited(c, line, ordinal) \/ line.k = "meta" THEN NoId ELSE c.turn
<1>1. IsInherited(c, line, ordinal) \in BOOLEAN
  BY DEF IsInherited
<1> QED
  BY <1>1, Zenon DEF Enriched

\* load_codex_context finds in the rows what a repair would know behind them.
LEMMA LoadIsRepair ==
    ASSUME NEW rows, Shaped(rows), LineageOf(rows)
    PROVE  LoadContext(rows) = ContextAfter(rows)[Len(rows)]
<1> DEFINE n == Len(rows)
           metas == {i \in DOMAIN rows : rows[i].line.k = "meta"}
           turns == {i \in DOMAIN rows : rows[i].line.k = "turn" /\ ~rows[i].inherited}
           one == IF metas = {} THEN NewCtx ELSE UpdateContext(NewCtx, rows[Min(metas)].line, Min(metas) - 1)
<1>1. n \in Nat /\ DOMAIN rows = 1 .. n /\ (n = 0 <=> rows = <<>>)
  BY LenProperties, EmptySeq DEF Shaped
<1>2. turns = OwnTurns(rows, n)
  BY <1>1 DEF OwnTurns
<1>3. one = [start |-> StartOf(rows), turn |-> NoId]
  <2>1. CASE Codex(rows)
    <3>1. metas = {1}
      BY <1>1, <2>1, LineKinds DEF Shaped, Codex
    <3>2. Min(metas) = 1
      BY <3>1 DEF Min
    <3>3. rows[1].line.k = "meta"
      BY <2>1 DEF Codex
    <3>4. ~IsInherited(NewCtx, rows[1].line, 1 - 1)
      BY <3>3 DEF IsInherited, NewCtx
    <3>5. UpdateContext(NewCtx, rows[1].line, 1 - 1) = [NewCtx EXCEPT !.start = rows[1].line.tok]
      BY <3>3, <3>4 DEF UpdateContext
    <3>6. one = [NewCtx EXCEPT !.start = rows[1].line.tok]
      BY <3>1, <3>2, <3>5
    <3> QED
      BY <2>1, <3>6 DEF StartOf, NewCtx
  <2>2. CASE ~Codex(rows)
    <3>1. metas = {}
      BY <1>1, <2>2, LineKinds DEF Shaped
    <3> QED
      BY <2>2, <3>1 DEF StartOf, NewCtx
  <2> QED
    BY <2>1, <2>2
<1>4. LoadContext(rows) = IF turns = {} THEN one ELSE UpdateContext(one, rows[Max(turns)].line, Max(turns) - 1)
  BY DEF LoadContext
<1> HIDE DEF one, metas
<1>5. ContextAfter(rows)[n] = [start |-> IF n = 0 THEN 0 ELSE StartOf(rows), turn |-> TurnAt(rows, n)]
  BY <1>1 DEF LineageOf
<1>6. n = 0 => StartOf(rows) = 0
  BY <1>1 DEF StartOf, Codex
<1>7. CASE turns = {}
  BY <1>2, <1>3, <1>4, <1>5, <1>6, <1>7 DEF TurnAt
<1>8. CASE turns # {}
  <2> DEFINE m == Max(turns)
  <2>1. m \in turns
    <3>1. turns \in SUBSET (1 .. n)
      BY <1>1
    <3> HIDE DEF turns, n
    <3> QED
      BY <1>1, <1>8, <3>1, MaxOf
  <2>2. m \in 1 .. n /\ rows[m].line.k = "turn" /\ ~rows[m].inherited
    BY <1>1, <2>1
  <2>3. m \in 2 .. n
    <3>1. rows[1].line.k # "turn"
      BY <1>1, <2>2, LineKinds DEF Shaped, Codex
    <3> QED
      BY <2>2, <3>1
  <2>4. ~IsInherited(ContextAfter(rows)[m - 1], rows[m].line, m - 1)
    <3>1. rows[m] = Enriched(ContextAfter(rows)[m - 1], rows[m].line, m - 1, rows[m].day)
      BY <2>2 DEF LineageOf
    <3>2. rows[m].inherited <=> IsInherited(ContextAfter(rows)[m - 1], rows[m].line, m - 1)
      BY <3>1, EnrichedIs
    <3> QED
      BY <2>2, <3>2
  <2>5. ContextAfter(rows)[m - 1].start = StartOf(rows)
    <3>1. m - 1 \in 0 .. n /\ m - 1 # 0
      BY <1>1, <2>3
    <3>2. ContextAfter(rows)[m - 1] = [start |-> IF m - 1 = 0 THEN 0 ELSE StartOf(rows), turn |-> TurnAt(rows, m - 1)]
      BY <3>1 DEF LineageOf
    <3> QED
      BY <3>1, <3>2
  <2> HIDE DEF m
  <2>6. ~IsInherited(one, rows[m].line, m - 1)
    BY <1>3, <2>4, <2>5 DEF IsInherited
  <2>7. UpdateContext(one, rows[m].line, m - 1) = [start |-> StartOf(rows), turn |-> rows[m].line.model]
    BY <1>3, <2>2, <2>6 DEF UpdateContext
  <2>8. TurnAt(rows, n) = rows[m].line.model
    BY <1>2, <1>8 DEF TurnAt, m
  <2>9. n # 0
    BY <1>1, <2>2
  <2> QED
    BY <1>4, <1>5, <1>8, <2>7, <2>8, <2>9 DEF m
<1> QED
  BY <1>7, <1>8

\* A line that can come next makes a row of its kind.
LEMMA NewRow ==
    ASSUME NEW rows, Shaped(rows), LineageOf(rows), NEW line \in LinesAfter(rows), NEW day \in 1 .. LastDay
    PROVE  Enriched(ContextAfter(rows)[Len(rows)], line, Len(rows), day) \in LedgerRows
<1> DEFINE n == Len(rows)
           c == ContextAfter(rows)[n]
           entry == Enriched(c, line, n, day)
<1>1. n \in Nat /\ DOMAIN rows = 1 .. n
  BY LenProperties DEF Shaped
<1>2. c.turn = TurnAt(rows, n)
  <2>1. n \in 0 .. Len(rows)
    BY <1>1
  <2>2. c = [start |-> IF n = 0 THEN 0 ELSE StartOf(rows), turn |-> TurnAt(rows, n)]
    BY <2>1 DEF LineageOf
  <2> HIDE DEF c, n
  <2> QED
    BY <2>2
<1>3. TurnAt(rows, n) \in {NoId} \cup {l.model : l \in UsageLines}
  <2>1. CASE OwnTurns(rows, n) # {}
    <3> DEFINE m == Max(OwnTurns(rows, n))
    <3>1. m \in 1 .. n
      <4>1. OwnTurns(rows, n) \in SUBSET (1 .. n)
        BY DEF OwnTurns
      <4> QED
        BY <1>1, <2>1, <4>1, MaxOf
    <3>2. rows[m] \in LedgerRows
      BY <1>1, <3>1, ElementOfSeq DEF Shaped
    <3>3. rows[m].line \in UsageLines
      BY <3>2 DEF LedgerRows
    <3> QED
      BY <2>1, <3>3 DEF TurnAt
  <2>2. CASE OwnTurns(rows, n) = {}
    BY <2>2 DEF TurnAt
  <2> QED
    BY <2>1, <2>2
<1>4. line \in UsageLines
  BY DEF LinesAfter, UsageLines
<1> HIDE DEF c, n
<1>5. entry.line \in UsageLines /\ entry.day \in 1 .. LastDay /\ entry.inherited \in BOOLEAN
  BY <1>4, EnrichedIs
<1>6. entry.parent \in {NoId} \cup {l.model : l \in UsageLines}
  BY <1>2, <1>3, EnrichedIs
<1>7. entry = [line |-> entry.line, day |-> entry.day, inherited |-> entry.inherited, parent |-> entry.parent]
  BY Zenon DEF Enriched
<1> HIDE DEF entry
<1>8. entry \in LedgerRows
  BY <1>5, <1>6, <1>7 DEF LedgerRows
<1> QED
  BY <1>8 DEF entry, c, n

\* A transcript keeps its shape.
LEMMA ShapeKept ==
    ASSUME NEW rows, Shaped(rows), NEW entry \in LedgerRows, entry.line \in LinesAfter(rows)
    PROVE  LET new == rows \o <<entry>>
           IN  Shaped(new) /\ (rows # <<>> => (Codex(new) <=> Codex(rows)) /\ StartOf(new) = StartOf(rows))
<1> DEFINE n == Len(rows)
           new == rows \o <<entry>>
<1>1. /\ rows \in Seq(LedgerRows) /\ new \in Seq(LedgerRows) /\ n \in Nat /\ Len(new) = n + 1
      /\ new[n + 1] = entry /\ \A i \in 1 .. n : new[i] = rows[i]
  BY OneMore DEF Shaped
<1>2. (n = 0 <=> rows = <<>>) /\ new # <<>>
  BY <1>1, EmptySeq
<1> HIDE DEF new, n
<1>3. CASE rows = <<>>
  <2>1. n = 0 /\ new[1] = entry /\ entry.line \in Receipt \cup Metas
    BY <1>1, <1>2, <1>3 DEF LinesAfter
  <2>2. Codex(new) => entry.line \in Metas
    BY <2>1, LineKinds DEF Codex
  <2>3. ~Codex(new) => entry.line \in Receipt
    BY <1>2, <2>1, LineKinds DEF Codex
  <2>4. Shaped(new)
    BY <1>1, <2>1, <2>2, <2>3 DEF Shaped, n
  <2> QED
    BY <1>3, <2>4 DEF new
<1>4. CASE rows # <<>>
  <2>1. n >= 1 /\ new[1] = rows[1]
    BY <1>1, <1>2, <1>4
  <2>2. Codex(new) <=> Codex(rows)
    BY <1>2, <1>4, <2>1 DEF Codex
  <2>3. StartOf(new) = StartOf(rows)
    BY <2>1, <2>2 DEF StartOf
  <2>4. ASSUME Codex(new) PROVE new[1].line \in Metas /\ \A i \in 2 .. (n + 1) : new[i].line \in Record
    <3>1. rows[1].line \in Metas /\ (\A i \in 2 .. n : rows[i].line \in Record) /\ entry.line \in Record
      BY <1>4, <2>2, <2>4 DEF Shaped, LinesAfter, n
    <3> QED
      BY <1>1, <2>1, <3>1
  <2>5. ASSUME ~Codex(new) PROVE \A i \in 1 .. (n + 1) : new[i].line \in Receipt
    <3>1. (\A i \in 1 .. n : rows[i].line \in Receipt) /\ entry.line \in Receipt
      BY <1>4, <2>2, <2>5 DEF Shaped, LinesAfter, n
    <3> QED
      BY <1>1, <3>1
  <2>6. Shaped(new)
    BY <1>1, <2>4, <2>5 DEF Shaped
  <2> QED
    BY <2>2, <2>3, <2>6 DEF new
<1> QED
  BY <1>3, <1>4

\* The context goes on from row to row as TurnAt and StartOf say.
LEMMA ContextGoesOn ==
    ASSUME NEW rows, Shaped(rows), LineageOf(rows), NEW line \in LinesAfter(rows), NEW day \in 1 .. LastDay
    PROVE  LET n   == Len(rows)
               entry == Enriched(ContextAfter(rows)[n], line, n, day)
               new == rows \o <<entry>>
           IN  UpdateContext(ContextAfter(rows)[n], line, n) = [start |-> StartOf(new), turn |-> TurnAt(new, n + 1)]
<1> DEFINE n   == Len(rows)
           c   == ContextAfter(rows)[n]
           entry == Enriched(c, line, n, day)
           new == rows \o <<entry>>
<1>1. /\ rows \in Seq(LedgerRows) /\ n \in Nat
      /\ entry \in LedgerRows /\ entry.line = line /\ (entry.inherited <=> IsInherited(c, line, n))
  BY NewRow, EnrichedIs, LenProperties DEF Shaped
<1>2. TurnAt(new, n + 1) = IF line.k = "turn" /\ ~IsInherited(c, line, n) THEN line.model ELSE TurnAt(rows, n)
  <2> HIDE DEF entry, n, c
  <2>1. TurnAt(rows \o <<entry>>, Len(rows) + 1) = IF entry.line.k = "turn" /\ ~entry.inherited THEN entry.line.model
                              ELSE TurnAt(rows, Len(rows))
    BY <1>1, TurnOfLast
  <2> QED
    BY <1>1, <2>1 DEF n
<1>3. c = [start |-> IF n = 0 THEN 0 ELSE StartOf(rows), turn |-> TurnAt(rows, n)]
  BY <1>1 DEF LineageOf
<1>4. rows = <<>> <=> n = 0
  BY <1>1, EmptySeq
<1>5. rows # <<>> => StartOf(new) = StartOf(rows)
  BY <1>1, ShapeKept
<1>6. rows = <<>> => new[1] = entry /\ new # <<>>
  BY <1>1, <1>4, OneMore
<1> HIDE DEF entry, n, c, new
<1>7. CASE rows = <<>>
  <2>1. line \in Receipt \cup Metas /\ n = 0 /\ c = [start |-> 0, turn |-> NoId]
    <3>1. OwnTurns(rows, 0) = {}
      BY DEF OwnTurns
    <3> QED
      BY <1>3, <1>4, <1>7, <3>1 DEF LinesAfter, TurnAt
  <2>2. ~IsInherited(c, line, n) /\ line.k # "turn"
    BY <2>1, LineKinds DEF IsInherited
  <2>3. TurnAt(new, n + 1) = NoId
    BY <1>2, <1>3, <2>1, <2>2
  <2>4. CASE line.k = "meta"
    <3>1. UpdateContext(c, line, n) = [c EXCEPT !.start = line.tok]
      BY <2>2, <2>4 DEF UpdateContext
    <3>2. Codex(new) /\ StartOf(new) = line.tok
      BY <1>1, <1>6, <1>7, <2>4 DEF Codex, StartOf
    <3> QED
      BY <2>1, <2>3, <3>1, <3>2 DEF entry, n, c, new
  <2>5. CASE line.k # "meta"
    <3>1. UpdateContext(c, line, n) = c
      BY <2>2, <2>5 DEF UpdateContext
    <3>2. StartOf(new) = 0
      BY <1>1, <1>6, <1>7, <2>5 DEF Codex, StartOf
    <3> QED
      BY <2>1, <2>3, <3>1, <3>2 DEF entry, n, c, new
  <2> QED
    BY <2>4, <2>5
<1>8. CASE rows # <<>>
  <2>1. c = [start |-> StartOf(new), turn |-> TurnAt(rows, n)] /\ line.k # "meta"
    BY <1>3, <1>4, <1>5, <1>8, LineKinds DEF LinesAfter
  <2>2. CASE line.k = "turn" /\ ~IsInherited(c, line, n)
    <3>1. UpdateContext(c, line, n) = [c EXCEPT !.turn = line.model]
      BY <2>1, <2>2 DEF UpdateContext
    <3> QED
      BY <1>2, <2>1, <2>2, <3>1 DEF entry, n, c, new
  <2>3. CASE ~(line.k = "turn" /\ ~IsInherited(c, line, n))
    <3>1. UpdateContext(c, line, n) = c
      BY <2>1, <2>3 DEF UpdateContext
    <3> QED
      BY <1>2, <2>1, <2>3, <3>1 DEF entry, n, c, new
  <2> QED
    BY <2>2, <2>3
<1> QED
  BY <1>7, <1>8

\* The new row says what a repair would, and so do the ones before it.
LEMMA LineageGrows ==
    ASSUME NEW rows, Shaped(rows), LineageOf(rows), NEW line \in LinesAfter(rows), NEW day \in 1 .. LastDay
    PROVE  LET n   == Len(rows)
               entry == Enriched(ContextAfter(rows)[n], line, n, day)
               new == rows \o <<entry>>
           IN  /\ LineageOf(new)
               /\ ContextAfter(new)[n + 1] = UpdateContext(ContextAfter(rows)[n], line, n)
<1> DEFINE n   == Len(rows)
           c   == ContextAfter(rows)[n]
           entry == Enriched(c, line, n, day)
           new == rows \o <<entry>>
<1>1. rows \in Seq(LedgerRows) /\ entry \in LedgerRows /\ entry.line = line /\ entry.day = day
  BY NewRow, EnrichedIs DEF Shaped
<1>2. /\ new \in Seq(LedgerRows) /\ n \in Nat /\ Len(new) = n + 1
      /\ new[n + 1] = entry /\ \A i \in 1 .. n : new[i] = rows[i]
  BY <1>1, OneMore
<1>3. \A i \in 0 .. n : ContextAfter(new)[i] = ContextAfter(rows)[i] /\ TurnAt(new, i) = TurnAt(rows, i)
  <2> HIDE DEF entry
  <2> QED
    BY <1>1, ContextOfPrefix, TurnsOfPrefix
<1>4. ContextAfter(new)[n + 1] = UpdateContext(c, line, n)
  <2>1. ContextAfter(new)[n + 1] = ContextStep(ContextAfter(new), new, n + 1)
    <3>1. Len(new) \in Nat /\ n + 1 \in 0 .. Len(new)
      BY <1>2
    <3> HIDE DEF new, entry, n, c
    <3> QED
      BY <3>1, ContextIs
  <2>2. ContextAfter(new)[n] = c /\ n + 1 # 0 /\ (n + 1) - 1 = n
    BY <1>2, <1>3
  <2> HIDE DEF new, entry, n, c
  <2> QED
    BY <1>1, <1>2, <2>1, <2>2 DEF ContextStep
<1>5. UpdateContext(c, line, n) = [start |-> StartOf(new), turn |-> TurnAt(new, n + 1)]
  BY ContextGoesOn
<1>6. n # 0 => StartOf(new) = StartOf(rows)
  <2>1. n # 0 => rows # <<>>
    BY <1>1, EmptySeq
  <2> QED
    BY <1>1, <2>1, ShapeKept
<1>7. entry = Enriched(ContextAfter(new)[n], new[n + 1].line, n, new[n + 1].day)
  <2>1. new[n + 1].line = line /\ new[n + 1].day = day /\ ContextAfter(new)[n] = c
    BY <1>1, <1>2, <1>3
  <2> QED
    BY <2>1
<1> HIDE DEF new, entry, n, c
<1>8. ASSUME NEW i \in 0 .. Len(new)
      PROVE  ContextAfter(new)[i] = [start |-> IF i = 0 THEN 0 ELSE StartOf(new), turn |-> TurnAt(new, i)]
  <2>1. CASE i = n + 1
    BY <1>2, <1>4, <1>5, <2>1
  <2>2. CASE i # n + 1
    <3>1. i \in 0 .. n
      BY <1>2, <2>2
    <3>2. ContextAfter(rows)[i] = [start |-> IF i = 0 THEN 0 ELSE StartOf(rows), turn |-> TurnAt(rows, i)]
      BY <3>1 DEF LineageOf, n
    <3>3. i # 0 => n # 0
      BY <1>2, <3>1
    <3> QED
      BY <1>3, <1>6, <3>1, <3>2, <3>3
  <2> QED
    BY <2>1, <2>2
<1>9. ASSUME NEW i \in 1 .. Len(new)
      PROVE  new[i] = Enriched(ContextAfter(new)[i - 1], new[i].line, i - 1, new[i].day)
  <2>1. CASE i = n + 1
    BY <1>2, <1>7, <2>1
  <2>2. CASE i # n + 1
    <3>1. i \in 1 .. n /\ i - 1 \in 0 .. n
      BY <1>2, <2>2
    <3>2. rows[i] = Enriched(ContextAfter(rows)[i - 1], rows[i].line, i - 1, rows[i].day)
      BY <3>1 DEF LineageOf, n
    <3> QED
      BY <1>2, <1>3, <3>1, <3>2
  <2> QED
    BY <2>1, <2>2
<1>10. LineageOf(new)
  BY <1>8, <1>9 DEF LineageOf
<1> QED
  BY <1>4, <1>10 DEF new, entry, n, c

-----------------------------------------------------------------------------
(* Codex totals counted again, one row at a time.                          *)

TotalsIn(rows) == {i \in DOMAIN rows : rows[i].line.k = "total" /\ ~rows[i].inherited}
TotalBefore(rows, i) ==
    LET before == {j \in TotalsIn(rows) : j < i}
    IN  IF before = {} THEN 0 ELSE rows[Max(before)].line.tok
Rises(rows) == [i \in TotalsIn(rows) |-> Floor(rows[i].line.tok - TotalBefore(rows, i))]
DayAndModel(rows, i) == <<rows[i].day, ModelAt(rows, i)>>
TotalsOf(rows, k) == {i \in TotalsIn(rows) : DayAndModel(rows, i) = k}
TotalsOn(rows, d) == {i \in TotalsIn(rows) : rows[i].day = d}

LegacyTotal(rows) == IF TotalsIn(rows) = {} THEN 0 ELSE rows[Max(TotalsIn(rows))].line.tok
LegacyDays(rows) == [d \in {rows[i].day : i \in TotalsIn(rows)} |-> rows[Max(TotalsOn(rows, d))].line.tok]
LegacyModels(rows) == [k \in {DayAndModel(rows, i) : i \in TotalsIn(rows)} |-> SumOver(Rises(rows), TotalsOf(rows, k))]

\* What rebuild_legacy writes, with no rows where there is no total.
LEMMA LegacyIs ==
    ASSUME NEW rows
    PROVE  /\ RebuildLegacy(rows).total = LegacyTotal(rows)
           /\ RebuildLegacy(rows).days = LegacyDays(rows)
           /\ RebuildLegacy(rows).models = LegacyModels(rows)
           /\ RebuildLegacy(rows).claimed = {}
<1>1. CASE TotalsIn(rows) = {}
  <2>1. RebuildLegacy(rows) = NoLedger
    BY <1>1 DEF RebuildLegacy, TotalsIn
  <2>2. LegacyDays(rows) = <<>> /\ LegacyModels(rows) = <<>> /\ LegacyTotal(rows) = 0
    BY <1>1 DEF LegacyDays, LegacyModels, LegacyTotal
  <2> QED
    BY <2>1, <2>2 DEF NoLedger
<1>2. CASE TotalsIn(rows) # {}
  <2> DEFINE totals == {i \in DOMAIN rows : rows[i].line.k = "total" /\ ~rows[i].inherited}
             days == [d \in {rows[i].day : i \in totals} |-> rows[Max({i \in totals : rows[i].day = d})].line.tok]
             rise == [i \in totals |-> Floor(rows[i].line.tok - (IF {j \in totals : j < i} = {} THEN 0
                                                ELSE rows[Max({j \in totals : j < i})].line.tok))]
             models == [k \in {<<rows[i].day, ModelAt(rows, i)>> : i \in totals} |->
                          SumOver(rise, {i \in totals : <<rows[i].day, ModelAt(rows, i)>> = k})]
  <2>1. RebuildLegacy(rows) = [NoLedger EXCEPT !.exists = TRUE, !.total = rows[Max(totals)].line.tok,
                                  !.through = Max(totals), !.days = days, !.models = models]
    BY <1>2 DEF RebuildLegacy, TotalsIn
  <2>2. totals = TotalsIn(rows)
    BY DEF TotalsIn
  <2>3. days = LegacyDays(rows)
    BY <2>2 DEF LegacyDays, TotalsOn
  <2>4. rise = Rises(rows)
    BY <2>2 DEF Rises, TotalBefore
  <2>5. models = LegacyModels(rows)
    BY <2>2, <2>4 DEF LegacyModels, TotalsOf, DayAndModel
  <2> HIDE DEF totals, days, rise, models
  <2>6. RebuildLegacy(rows).total = rows[Max(totals)].line.tok /\ RebuildLegacy(rows).days = days
        /\ RebuildLegacy(rows).models = models /\ RebuildLegacy(rows).claimed = {}
    BY <2>1 DEF NoLedger
  <2> QED
    BY <1>2, <2>2, <2>3, <2>5, <2>6 DEF LegacyTotal
<1> QED
  BY <1>1, <1>2

\* The totals, and what each rises by, are numbers.
LEMMA LegacyTypes ==
    ASSUME NEW rows \in Seq(LedgerRows)
    PROVE  /\ TotalsIn(rows) \in SUBSET (1 .. Len(rows)) /\ Len(rows) \in Nat /\ DOMAIN rows = 1 .. Len(rows)
           /\ \A i \in 1 .. Len(rows) : rows[i].line.tok \in Int
           /\ \A i \in Nat : TotalBefore(rows, i) \in Int
           /\ \A i \in TotalsIn(rows) : Rises(rows)[i] \in Int
           /\ LegacyTotal(rows) \in Int
           /\ \A S \in SUBSET TotalsIn(rows) : IsFiniteSet(S)
<1>1. Len(rows) \in Nat /\ DOMAIN rows = 1 .. Len(rows)
  BY LenProperties
<1>2. ASSUME NEW i \in 1 .. Len(rows) PROVE rows[i].line.tok \in Int
  <2>1. rows[i] \in LedgerRows
    BY <1>1, ElementOfSeq
  <2>2. rows[i].line \in UsageLines
    BY <2>1 DEF LedgerRows
  <2> QED
    BY <2>2, LineKinds
<1>3. TotalsIn(rows) \in SUBSET (1 .. Len(rows))
  BY <1>1 DEF TotalsIn
<1>4. ASSUME NEW i \in Nat PROVE TotalBefore(rows, i) \in Int
  <2> DEFINE before == {j \in TotalsIn(rows) : j < i}
  <2>1. before # {} => Max(before) \in 1 .. Len(rows)
    <3>1. before \in SUBSET (1 .. Len(rows))
      BY <1>3
    <3> HIDE DEF before
    <3> QED
      BY <1>1, <3>1, MaxOf
  <2>2. before # {} => rows[Max(before)].line.tok \in Int
    BY <1>2, <2>1
  <2>3. TotalBefore(rows, i) = IF before = {} THEN 0 ELSE rows[Max(before)].line.tok
    BY DEF TotalBefore
  <2> HIDE DEF before
  <2> QED
    BY <2>2, <2>3
<1>5. ASSUME NEW i \in TotalsIn(rows) PROVE Rises(rows)[i] \in Int
  <2>1. rows[i].line.tok \in Int /\ TotalBefore(rows, i) \in Int
    BY <1>1, <1>2, <1>3, <1>4
  <2> QED
    BY <2>1 DEF Rises, Floor
<1>6. LegacyTotal(rows) \in Int
  <2>1. TotalsIn(rows) # {} => Max(TotalsIn(rows)) \in 1 .. Len(rows)
    BY <1>1, <1>3, MaxOf
  <2> QED
    BY <1>2, <2>1 DEF LegacyTotal
<1>7. ASSUME NEW S \in SUBSET TotalsIn(rows) PROVE IsFiniteSet(S)
  <2>1. IsFiniteSet(1 .. Len(rows)) /\ S \in SUBSET (1 .. Len(rows))
    BY <1>1, <1>3, FS_Interval
  <2> QED
    BY <2>1, FS_Subset
<1> QED
  BY <1>1, <1>2, <1>3, <1>4, <1>5, <1>6, <1>7

\* The totals that are there keep their place, day, model and rise.
LEMMA LegacyOfPrefix ==
    ASSUME NEW rows \in Seq(LedgerRows), NEW entry \in LedgerRows
    PROVE  LET new == rows \o <<entry>>
               n == Len(rows)
           IN  /\ TotalsIn(new) = TotalsIn(rows) \cup
                       (IF entry.line.k = "total" /\ ~entry.inherited THEN {n + 1} ELSE {})
               /\ \A i \in TotalsIn(rows) : /\ TotalBefore(new, i) = TotalBefore(rows, i)
                                            /\ DayAndModel(new, i) = DayAndModel(rows, i)
                                            /\ Rises(new)[i] = Rises(rows)[i]
               /\ TotalBefore(new, n + 1) = LegacyTotal(rows)
<1> DEFINE new == rows \o <<entry>>
           n == Len(rows)
<1>1. /\ n \in Nat /\ DOMAIN rows = 1 .. n /\ DOMAIN new = 1 .. (n + 1)
      /\ new[n + 1] = entry /\ \A i \in 1 .. n : new[i] = rows[i]
  BY OneMore
<1>2. \A i \in 1 .. n : ModelAt(new, i) = ModelAt(rows, i)
  BY <1>1, TurnsOfPrefix
<1> HIDE DEF new, n
<1>3. TotalsIn(new) = TotalsIn(rows) \cup (IF entry.line.k = "total" /\ ~entry.inherited THEN {n + 1} ELSE {})
  BY <1>1 DEF TotalsIn
<1>4. TotalsIn(rows) \in SUBSET (1 .. n)
  BY <1>1 DEF TotalsIn
<1>5. ASSUME NEW i \in 1 .. (n + 1)
      PROVE  {j \in TotalsIn(new) : j < i} = {j \in TotalsIn(rows) : j < i}
  BY <1>1, <1>3, <1>4
<1>6. ASSUME NEW i \in 1 .. (n + 1) PROVE TotalBefore(new, i) = TotalBefore(rows, i)
  <2> DEFINE before == {j \in TotalsIn(rows) : j < i}
  <2>1. before # {} => Max(before) \in 1 .. n
    <3>1. before \in SUBSET (1 .. n)
      BY <1>4
    <3> HIDE DEF before
    <3> QED
      BY <1>1, <3>1, MaxOf
  <2>2. before # {} => new[Max(before)] = rows[Max(before)]
    BY <1>1, <2>1
  <2>3. TotalBefore(new, i) = IF before = {} THEN 0 ELSE new[Max(before)].line.tok
    BY <1>5 DEF TotalBefore
  <2>4. TotalBefore(rows, i) = IF before = {} THEN 0 ELSE rows[Max(before)].line.tok
    BY DEF TotalBefore
  <2> HIDE DEF before
  <2> QED
    BY <2>2, <2>3, <2>4
<1>7. ASSUME NEW i \in TotalsIn(rows)
      PROVE  TotalBefore(new, i) = TotalBefore(rows, i) /\ DayAndModel(new, i) = DayAndModel(rows, i)
             /\ Rises(new)[i] = Rises(rows)[i]
  <2>1. i \in 1 .. n /\ i \in 1 .. (n + 1) /\ i \in TotalsIn(new)
    BY <1>1, <1>3, <1>4
  <2>2. TotalBefore(new, i) = TotalBefore(rows, i) /\ new[i] = rows[i] /\ ModelAt(new, i) = ModelAt(rows, i)
    BY <1>1, <1>2, <1>6, <2>1
  <2> QED
    BY <2>1, <2>2 DEF DayAndModel, Rises
<1>8. TotalBefore(rows, n + 1) = LegacyTotal(rows)
  <2>1. {j \in TotalsIn(rows) : j < n + 1} = TotalsIn(rows)
    BY <1>1, <1>4
  <2> QED
    BY <2>1 DEF TotalBefore, LegacyTotal
<1>9. TotalBefore(new, n + 1) = LegacyTotal(rows)
  <2>1. n + 1 \in 1 .. (n + 1)
    BY <1>1
  <2> QED
    BY <1>6, <1>8, <2>1
<1> QED
  BY <1>3, <1>7, <1>9 DEF new, n

\* A row that is no total of the session's own changes nothing.
LEMMA LegacyRests ==
    ASSUME NEW rows \in Seq(LedgerRows), NEW entry \in LedgerRows, ~(entry.line.k = "total" /\ ~entry.inherited)
    PROVE  LET new == rows \o <<entry>>
           IN  /\ LegacyTotal(new) = LegacyTotal(rows)
               /\ LegacyDays(new) = LegacyDays(rows)
               /\ LegacyModels(new) = LegacyModels(rows)
<1> DEFINE new == rows \o <<entry>>
           n == Len(rows)
<1>1. n \in Nat /\ \A i \in 1 .. n : new[i] = rows[i]
  BY OneMore
<1>2. /\ TotalsIn(new) = TotalsIn(rows)
      /\ \A i \in TotalsIn(rows) : DayAndModel(new, i) = DayAndModel(rows, i) /\ Rises(new)[i] = Rises(rows)[i]
  BY LegacyOfPrefix
<1>3. TotalsIn(rows) \in SUBSET (1 .. n)
  BY LegacyTypes
<1> HIDE DEF new, n
<1>4. \A i \in TotalsIn(rows) : new[i] = rows[i]
  BY <1>1, <1>3
<1>5. ASSUME NEW S \in SUBSET TotalsIn(rows), S # {} PROVE new[Max(S)] = rows[Max(S)]
  <2>1. Max(S) \in S
    <3>1. S \in SUBSET (1 .. n)
      BY <1>3
    <3> QED
      BY <1>1, <1>5, <3>1, MaxOf
  <2> QED
    BY <1>4, <2>1
<1>6. LegacyTotal(new) = LegacyTotal(rows)
  BY <1>2, <1>5 DEF LegacyTotal
<1>7. LegacyDays(new) = LegacyDays(rows)
  <2>1. {new[i].day : i \in TotalsIn(rows)} = {rows[i].day : i \in TotalsIn(rows)}
    BY <1>4
  <2>2. ASSUME NEW d \in {rows[i].day : i \in TotalsIn(rows)}
        PROVE  new[Max(TotalsOn(new, d))].line.tok = rows[Max(TotalsOn(rows, d))].line.tok
    <3>1. TotalsOn(new, d) = TotalsOn(rows, d) /\ TotalsOn(rows, d) # {}
      BY <1>2, <1>4 DEF TotalsOn
    <3>2. TotalsOn(rows, d) \in SUBSET TotalsIn(rows)
      BY DEF TotalsOn
    <3> QED
      BY <1>5, <3>1, <3>2
  <2> QED
    BY <1>2, <2>1, <2>2 DEF LegacyDays
<1>8. LegacyModels(new) = LegacyModels(rows)
  <2>1. {DayAndModel(new, i) : i \in TotalsIn(rows)} = {DayAndModel(rows, i) : i \in TotalsIn(rows)}
    BY <1>2
  <2>2. ASSUME NEW k PROVE SumOver(Rises(new), TotalsOf(new, k)) = SumOver(Rises(rows), TotalsOf(rows, k))
    <3>1. TotalsOf(new, k) = TotalsOf(rows, k)
      BY <1>2 DEF TotalsOf
    <3>2. IsFiniteSet(TotalsOf(rows, k)) /\ TotalsOf(rows, k) \in SUBSET TotalsIn(rows)
      BY LegacyTypes DEF TotalsOf
    <3>3. \A i \in TotalsOf(rows, k) : Rises(new)[i] = Rises(rows)[i]
      BY <1>2, <3>2
    <3> QED
      BY <3>1, <3>2, <3>3, SumSame
  <2> QED
    BY <1>2, <2>1, <2>2 DEF LegacyModels
<1> QED
  BY <1>6, <1>7, <1>8 DEF new

\* A total of the session's own is the new total, of its day too, and its
\* rise is added to its day and model.
LEMMA LegacyCounts ==
    ASSUME NEW rows \in Seq(LedgerRows), NEW entry \in LedgerRows, entry.line.k = "total", ~entry.inherited
    PROVE  LET new == rows \o <<entry>>
               tok == entry.line.tok
           IN  /\ LegacyTotal(new) = tok
               /\ LegacyDays(new) = Upsert(LegacyDays(rows), entry.day, tok)
               /\ LegacyModels(new) = AddTo(LegacyModels(rows), <<entry.day, ModelAt(rows, Len(rows))>>,
                                            Floor(tok - LegacyTotal(rows)))
<1> DEFINE new == rows \o <<entry>>
           n == Len(rows)
           tok == entry.line.tok
<1>1. /\ n \in Nat /\ new[n + 1] = entry /\ new \in Seq(LedgerRows) /\ Len(new) = n + 1
      /\ \A i \in 1 .. n : new[i] = rows[i]
  BY OneMore
<1>2. /\ TotalsIn(new) = TotalsIn(rows) \cup {n + 1}
      /\ \A i \in TotalsIn(rows) : DayAndModel(new, i) = DayAndModel(rows, i) /\ Rises(new)[i] = Rises(rows)[i]
      /\ TotalBefore(new, n + 1) = LegacyTotal(rows)
  BY LegacyOfPrefix
<1>3. TotalsIn(rows) \in SUBSET (1 .. n) /\ LegacyTotal(rows) \in Int
  BY LegacyTypes
<1>4. ModelAt(new, n + 1) = ModelAt(rows, n)
  BY TurnOfLast
<1>5. /\ TotalsIn(new) \in SUBSET (1 .. (n + 1)) /\ tok \in Int
      /\ \A i \in TotalsIn(new) : Rises(new)[i] \in Int
  <2>1. n + 1 \in 1 .. (n + 1)
    BY <1>1
  <2> QED
    BY <1>1, <2>1, LegacyTypes
<1> HIDE DEF new, n
<1>6. \A i \in TotalsIn(rows) : new[i] = rows[i] /\ i # n + 1
  BY <1>1, <1>3
<1>7. ASSUME NEW S \in SUBSET TotalsIn(new), n + 1 \in S PROVE Max(S) = n + 1
  <2>1. n + 1 \in Nat /\ S \in SUBSET (1 .. (n + 1)) /\ \A y \in S : y <= n + 1
    BY <1>1, <1>5
  <2> QED
    BY <1>7, <2>1, MaxBy
<1>8. LegacyTotal(new) = tok
  BY <1>1, <1>2, <1>7 DEF LegacyTotal
<1>9. LegacyDays(new) = Upsert(LegacyDays(rows), entry.day, tok)
  <2>1. {new[i].day : i \in TotalsIn(new)} = {rows[i].day : i \in TotalsIn(rows)} \cup {entry.day}
    BY <1>1, <1>2, <1>6
  <2>2. ASSUME NEW d \in {new[i].day : i \in TotalsIn(new)}
        PROVE  new[Max(TotalsOn(new, d))].line.tok = IF d = entry.day THEN tok ELSE LegacyDays(rows)[d]
    <3>1. CASE d = entry.day
      <4>1. TotalsOn(new, d) \in SUBSET TotalsIn(new) /\ n + 1 \in TotalsOn(new, d)
        BY <1>1, <1>2, <3>1 DEF TotalsOn
      <4> QED
        BY <1>1, <1>7, <3>1, <4>1
    <3>2. CASE d # entry.day
      <4>1. TotalsOn(new, d) = TotalsOn(rows, d)
        BY <1>1, <1>2, <1>6, <3>2 DEF TotalsOn
      <4>2. d \in {rows[i].day : i \in TotalsIn(rows)}
        BY <2>1, <3>2
      <4>3. TotalsOn(rows, d) # {} /\ TotalsOn(rows, d) \in SUBSET TotalsIn(rows)
        BY <4>2 DEF TotalsOn
      <4>4. Max(TotalsOn(rows, d)) \in TotalsIn(rows)
        <5>1. TotalsOn(rows, d) \in SUBSET (1 .. n)
          BY <1>3, <4>3
        <5> QED
          BY <1>1, <4>3, <5>1, MaxOf
      <4> QED
        BY <1>6, <3>2, <4>1, <4>2, <4>4 DEF LegacyDays
    <3> QED
      BY <3>1, <3>2
  <2>3. DOMAIN LegacyDays(rows) = {rows[i].day : i \in TotalsIn(rows)}
    BY DEF LegacyDays
  <2> QED
    BY <2>1, <2>2, <2>3 DEF LegacyDays, Upsert
<1> DEFINE key == <<entry.day, ModelAt(rows, n)>>
           rise == Floor(tok - LegacyTotal(rows))
<1>10. DayAndModel(new, n + 1) = key
  BY <1>1, <1>4 DEF DayAndModel
<1>11. rise \in Int /\ Rises(new)[n + 1] = rise
  <2>1. n + 1 \in TotalsIn(new)
    BY <1>2
  <2> QED
    BY <1>1, <1>2, <1>3, <1>5, <2>1 DEF Rises, Floor
<1>12. {DayAndModel(new, i) : i \in TotalsIn(new)} = {DayAndModel(rows, i) : i \in TotalsIn(rows)} \cup {key}
  BY <1>2, <1>10
<1> HIDE DEF key, rise, tok
<1>13. ASSUME NEW k
       PROVE  /\ IsFiniteSet(TotalsOf(rows, k)) /\ SumOver(Rises(rows), TotalsOf(rows, k)) \in Int
              /\ SumOver(Rises(new), TotalsOf(rows, k)) = SumOver(Rises(rows), TotalsOf(rows, k))
  <2>1. IsFiniteSet(TotalsOf(rows, k)) /\ TotalsOf(rows, k) \in SUBSET TotalsIn(rows)
    BY LegacyTypes DEF TotalsOf
  <2>2. \A i \in TotalsOf(rows, k) : Rises(rows)[i] \in Int /\ Rises(new)[i] = Rises(rows)[i]
    BY <1>2, <2>1, LegacyTypes
  <2> QED
    BY <2>1, <2>2, SumSame, SumType
<1>14. ASSUME NEW k \in {DayAndModel(new, i) : i \in TotalsIn(new)}
       PROVE  SumOver(Rises(new), TotalsOf(new, k)) =
                IF k = key THEN rise + (IF key \in DOMAIN LegacyModels(rows) THEN LegacyModels(rows)[key] ELSE 0)
                ELSE LegacyModels(rows)[k]
  <2>1. CASE k = key
    <3>1. TotalsOf(new, k) = TotalsOf(rows, k) \cup {n + 1} /\ n + 1 \notin TotalsOf(rows, k)
      BY <1>2, <1>6, <1>10, <2>1 DEF TotalsOf
    <3>2. \A i \in TotalsOf(rows, k) \cup {n + 1} : Rises(new)[i] \in Int
      BY <1>2, <1>5 DEF TotalsOf
    <3>3. SumOver(Rises(new), TotalsOf(new, k)) = SumOver(Rises(rows), TotalsOf(rows, k)) + rise
      <4> DEFINE S == TotalsOf(rows, k)
                 a == n + 1
                 f == Rises(new)
      <4>1. IsFiniteSet(S) /\ a \notin S /\ \A i \in S \cup {a} : f[i] \in Int
        BY <1>13, <3>1, <3>2
      <4> HIDE DEF S, a, f
      <4>2. SumOver(f, S \cup {a}) = SumOver(f, S) + f[a]
        BY <4>1, SumAdd
      <4> QED
        BY <1>11, <1>13, <3>1, <4>2 DEF S, a, f
    <3>4. key \in DOMAIN LegacyModels(rows) => LegacyModels(rows)[key] = SumOver(Rises(rows), TotalsOf(rows, k))
      BY <2>1 DEF LegacyModels
    <3>5. key \notin DOMAIN LegacyModels(rows) => SumOver(Rises(rows), TotalsOf(rows, k)) = 0
      <4>1. key \notin DOMAIN LegacyModels(rows) => TotalsOf(rows, k) = {}
        BY <2>1 DEF LegacyModels, TotalsOf
      <4>2. SumOver(Rises(rows), {}) = 0
        BY FS_EmptySet, SumPick
      <4> QED
        BY <4>1, <4>2
    <3>6. SumOver(Rises(rows), TotalsOf(rows, k)) \in Int
      BY <1>13
    <3> QED
      BY <1>11, <2>1, <3>3, <3>4, <3>5, <3>6
  <2>2. CASE k # key
    <3>1. TotalsOf(new, k) = TotalsOf(rows, k)
      BY <1>2, <1>10, <2>2 DEF TotalsOf
    <3>2. k \in {DayAndModel(rows, i) : i \in TotalsIn(rows)}
      BY <1>12, <2>2
    <3>3. LegacyModels(rows)[k] = SumOver(Rises(rows), TotalsOf(rows, k))
      BY <3>2 DEF LegacyModels
    <3> QED
      BY <1>13, <2>2, <3>1, <3>3
  <2> QED
    BY <2>1, <2>2
<1>15. LegacyModels(new) = AddTo(LegacyModels(rows), key, rise)
  <2>1. DOMAIN LegacyModels(rows) = {DayAndModel(rows, i) : i \in TotalsIn(rows)}
    BY DEF LegacyModels
  <2> QED
    BY <1>12, <1>14, <2>1 DEF LegacyModels, AddTo, Upsert
<1> QED
  BY <1>8, <1>9, <1>15 DEF new, n, tok, key, rise

-----------------------------------------------------------------------------
(* A Codex session: the ledger, the replay and the legacy recount.         *)

HasResponse(rows) == \E i \in DOMAIN rows : rows[i].line.k = "response" /\ ~rows[i].inherited
ReplayOf(rows) == Observed(rows)[Len(rows)]

\* What Replay::observe makes of each kind of line.
ReplayRecord(r) ==
    r = [model |-> r.model, total |-> r.total, through |-> r.through, claimed |-> r.claimed,
         days |-> r.days, models |-> r.models]
Counted(r, entry, i, claimed, added, total) ==
    [model |-> r.model, total |-> total, through |-> i, claimed |-> claimed,
     days |-> Upsert(r.days, entry.day, total), models |-> AddTo(r.models, <<entry.day, r.model>>, added)]
Noted(r, entry, i) ==
    [model |-> r.model, total |-> r.total, through |-> i, claimed |-> r.claimed,
     days |-> Upsert(r.days, entry.day, r.total), models |-> r.models]

\* A turn context names the model in force.
LEMMA ObserveTurn ==
    ASSUME NEW r, NEW entry, NEW i, entry.line.k = "turn"
    PROVE  Observe(r, entry, i) = [r EXCEPT !.model = entry.line.model]
BY DEF Observe

\* A total behind a response only reports context.
LEMMA ObserveTotal ==
    ASSUME NEW r, ReplayRecord(r), NEW entry, NEW i, entry.line.k = "total", r.claimed # {}
    PROVE  Observe(r, entry, i) = Noted(r, entry, i)
<1>1. Observe(r, entry, i) = [r EXCEPT !.claimed = @, !.models = @, !.total = r.total, !.through = i,
                                     !.days = Upsert(@, entry.day, r.total)]
  BY DEF Observe
<1> QED
  BY <1>1 DEF ReplayRecord, Noted

\* The other lines: passed over, counted already, or counted.
LEMMA ObserveIs ==
    ASSUME NEW r, ReplayRecord(r), NEW entry, NEW i
    PROVE  LET s == Observe(r, entry, i)
               line == entry.line
           IN  /\ line.k \notin {"turn", "total", "response"} => s = r
               /\ line.k = "response" /\ line.id \in r.claimed => s = r
               /\ line.k = "response" /\ line.id \notin r.claimed =>
                     s = Counted(r, entry, i, r.claimed \cup {line.id}, line.tok, r.total + line.tok)
               /\ line.k = "total" /\ r.claimed = {} =>
                     s = Counted(r, entry, i, r.claimed, Floor(line.tok - r.total), line.tok)
<1> DEFINE line == entry.line
           s == Observe(r, entry, i)
<1>1. line.k \notin {"turn", "total", "response"} => s = r
  BY DEF Observe
<1>2. line.k = "response" /\ line.id \in r.claimed => s = r
  BY DEF Observe
<1>3. ASSUME line.k = "response", line.id \notin r.claimed
      PROVE  s = Counted(r, entry, i, r.claimed \cup {line.id}, line.tok, r.total + line.tok)
  <2>1. s = [r EXCEPT !.claimed = @ \cup {line.id}, !.models = AddTo(@, <<entry.day, r.model>>, line.tok),
                      !.total = r.total + line.tok, !.through = i, !.days = Upsert(@, entry.day, r.total + line.tok)]
    BY <1>3 DEF Observe, DailyDelta
  <2> QED
    BY <2>1 DEF ReplayRecord, Counted
<1>4. ASSUME line.k = "total", r.claimed = {}
      PROVE  s = Counted(r, entry, i, r.claimed, Floor(line.tok - r.total), line.tok)
  <2>1. s = [r EXCEPT !.claimed = @, !.models = AddTo(@, <<entry.day, r.model>>, Floor(line.tok - r.total)),
                      !.total = line.tok, !.through = i, !.days = Upsert(@, entry.day, line.tok)]
    BY <1>4 DEF Observe, DailyDelta
  <2> QED
    BY <2>1 DEF ReplayRecord, Counted
<1> QED
  BY <1>1, <1>2, <1>3, <1>4

\* The replay of one row more.
LEMMA ReplayGoesOn ==
    ASSUME NEW rows \in Seq(LedgerRows), NEW entry \in LedgerRows
    PROVE  ReplayOf(rows \o <<entry>>) =
             IF entry.inherited THEN ReplayOf(rows) ELSE Observe(ReplayOf(rows), entry, Len(rows) + 1)
<1> DEFINE new == rows \o <<entry>>
           n == Len(rows)
<1>1. n \in Nat /\ Len(new) = n + 1 /\ new[n + 1] = entry
  BY OneMore
<1>2. Observed(new)[n] = Observed(rows)[n]
  <2>1. n \in 0 .. Len(rows)
    BY <1>1
  <2> QED
    BY <2>1, ReplayOfPrefix
<1> HIDE DEF new, n
<1>3. Observed(new)[n + 1] = ReplayStep(Observed(new), new, n + 1)
  <2>1. Len(new) \in Nat /\ n + 1 \in 0 .. Len(new)
    BY <1>1
  <2> QED
    BY <2>1, ReplayIs
<1>4. n + 1 # 0 /\ (n + 1) - 1 = n
  BY <1>1
<1>5. Observed(new)[n + 1] = IF entry.inherited THEN Observed(new)[n] ELSE Observe(Observed(new)[n], entry, n + 1)
  BY <1>1, <1>3, <1>4 DEF ReplayStep
<1> QED
  BY <1>1, <1>2, <1>5 DEF ReplayOf, new, n

\* What the replay holds, in terms of the rows; without a response it holds
\* what the legacy recount holds.
ReplayKnows(rows) ==
    LET r == ReplayOf(rows)
    IN  /\ ReplayRecord(r)
        /\ r.model = ModelAt(rows, Len(rows))
        /\ r.through \in 0 .. Len(rows)
        /\ DOMAIN r.days \subseteq 1 .. LastDay
        /\ r.claimed # {} <=> HasResponse(rows)
        /\ ~HasResponse(rows) => /\ r.total = LegacyTotal(rows)
                                 /\ r.days = LegacyDays(rows)
                                 /\ r.models = LegacyModels(rows)

\* Before the first row nothing is counted.
LEMMA ReplayBegins == ReplayKnows(<<>>) /\ ReplayOf(<<>>) = NewReplay /\ ~HasResponse(<<>>)
<1>1. <<>> \in Seq(LedgerRows) /\ Len(<<>>) = 0 /\ DOMAIN <<>> = {}
  OBVIOUS
<1>2. ReplayOf(<<>>) = NewReplay
  <2>1. Observed(<<>>)[0] = ReplayStep(Observed(<<>>), <<>>, 0)
    BY <1>1, ReplayIs
  <2> QED
    BY <1>1, <2>1 DEF ReplayOf, ReplayStep
<1>3. TotalsIn(<<>>) = {} /\ ~HasResponse(<<>>) /\ ModelAt(<<>>, 0) = UnknownModel
  BY <1>1 DEF TotalsIn, HasResponse, ModelAt
<1>4. LegacyTotal(<<>>) = 0 /\ LegacyDays(<<>>) = <<>> /\ LegacyModels(<<>>) = <<>>
  BY <1>3 DEF LegacyDays, LegacyModels, LegacyTotal
<1>5. ReplayRecord(NewReplay)
  BY DEF ReplayRecord, NewReplay
<1>6. ReplayKnows(<<>>)
  <2>1. /\ NewReplay.model = UnknownModel /\ NewReplay.through = 0 /\ NewReplay.claimed = {}
        /\ NewReplay.days = <<>> /\ NewReplay.models = <<>> /\ NewReplay.total = 0
    BY DEF NewReplay
  <2>2. 0 \in 0 .. 0 /\ {} \subseteq 1 .. LastDay
    OBVIOUS
  <2> QED
    BY <1>1, <1>2, <1>3, <1>4, <1>5, <2>1, <2>2 DEF ReplayKnows
<1> QED
  BY <1>2, <1>3, <1>6

\* One row more, and the replay still holds what the rows say.
LEMMA ReplayKeepsUp ==
    ASSUME NEW rows \in Seq(LedgerRows), NEW entry \in LedgerRows, ReplayKnows(rows)
    PROVE  ReplayKnows(rows \o <<entry>>)
<1> DEFINE new == rows \o <<entry>>
           n == Len(rows)
           r == ReplayOf(rows)
           s == ReplayOf(new)
           line == entry.line
<1>1. /\ n \in Nat /\ Len(new) = n + 1 /\ DOMAIN rows = 1 .. n /\ DOMAIN new = 1 .. (n + 1)
      /\ new[n + 1] = entry /\ \A i \in 1 .. n : new[i] = rows[i]
  BY OneMore
<1>2. s = IF entry.inherited THEN r ELSE Observe(r, entry, n + 1)
  BY ReplayGoesOn
<1>3. /\ ReplayRecord(r) /\ r.model = ModelAt(rows, n) /\ r.through \in 0 .. n
      /\ DOMAIN r.days \subseteq 1 .. LastDay /\ (r.claimed # {} <=> HasResponse(rows))
      /\ ~HasResponse(rows) => r.total = LegacyTotal(rows) /\ r.days = LegacyDays(rows) /\ r.models = LegacyModels(rows)
  BY DEF ReplayKnows
<1>4. ModelAt(new, n + 1) = IF line.k = "turn" /\ ~entry.inherited THEN line.model ELSE ModelAt(rows, n)
  BY TurnOfLast
<1>5. ~(line.k = "total" /\ ~entry.inherited) =>
         /\ LegacyTotal(new) = LegacyTotal(rows) /\ LegacyDays(new) = LegacyDays(rows)
         /\ LegacyModels(new) = LegacyModels(rows)
  BY LegacyRests
<1>6. line.k = "total" /\ ~entry.inherited =>
         /\ LegacyTotal(new) = line.tok
         /\ LegacyDays(new) = Upsert(LegacyDays(rows), entry.day, line.tok)
         /\ LegacyModels(new) = AddTo(LegacyModels(rows), <<entry.day, ModelAt(rows, n)>>, Floor(line.tok - LegacyTotal(rows)))
  BY LegacyCounts
<1>7. entry.day \in 1 .. LastDay
  BY DEF LedgerRows
<1> HIDE DEF new, n, r, s
<1>8. HasResponse(new) <=> HasResponse(rows) \/ (line.k = "response" /\ ~entry.inherited)
  BY <1>1 DEF HasResponse
<1>9. n \in 0 .. (n + 1) /\ n + 1 \in 0 .. (n + 1) /\ 0 .. n \subseteq 0 .. (n + 1)
  BY <1>1
<1>10. CASE entry.inherited \/ line.k \notin {"turn", "total", "response"} \/ (line.k = "response" /\ line.id \in r.claimed)
  <2>1. s = r
    BY <1>2, <1>3, <1>10, ObserveIs
  <2>2. ModelAt(new, n + 1) = ModelAt(rows, n) /\ (HasResponse(new) <=> HasResponse(rows))
        /\ ~(line.k = "total" /\ ~entry.inherited)
    BY <1>3, <1>4, <1>8, <1>10
  <2> QED
    BY <1>1, <1>3, <1>5, <1>9, <2>1, <2>2 DEF ReplayKnows, new, n, r, s
<1>11. CASE line.k = "turn" /\ ~entry.inherited
  <2>1. s = [r EXCEPT !.model = line.model]
    <3>1. s = Observe(r, entry, n + 1)
      BY <1>2, <1>11
    <3> QED
      BY <1>11, <3>1, ObserveTurn
  <2>2. s = [model |-> line.model, total |-> r.total, through |-> r.through, claimed |-> r.claimed,
             days |-> r.days, models |-> r.models]
    BY <1>3, <2>1 DEF ReplayRecord
  <2>3. s.model = line.model /\ s.total = r.total /\ s.through = r.through /\ s.claimed = r.claimed
        /\ s.days = r.days /\ s.models = r.models /\ ReplayRecord(s)
    BY <2>2 DEF ReplayRecord
  <2> QED
    BY <1>1, <1>3, <1>4, <1>5, <1>8, <1>9, <1>11, <2>3 DEF ReplayKnows, new, s
<1>12. ASSUME NEW claimed, NEW added, NEW total, s = Counted(r, entry, n + 1, claimed, added, total)
       PROVE  /\ ReplayRecord(s) /\ s.model = r.model /\ s.through = n + 1 /\ s.claimed = claimed /\ s.total = total
              /\ s.days = Upsert(r.days, entry.day, total) /\ s.models = AddTo(r.models, <<entry.day, r.model>>, added)
              /\ DOMAIN s.days \subseteq 1 .. LastDay
  BY <1>3, <1>7, <1>12 DEF ReplayRecord, Counted, Upsert
<1>13. CASE line.k = "response" /\ line.id \notin r.claimed /\ ~entry.inherited
  <2>1. s = Counted(r, entry, n + 1, r.claimed \cup {line.id}, line.tok, r.total + line.tok)
    BY <1>2, <1>3, <1>13, ObserveIs
  <2>2. ReplayRecord(s) /\ s.model = r.model /\ s.through = n + 1 /\ s.claimed # {} /\ DOMAIN s.days \subseteq 1 .. LastDay
    <3>1. s.claimed = r.claimed \cup {line.id}
      BY <1>12, <2>1
    <3>2. s.claimed # {}
      BY <3>1
    <3> QED
      BY <1>12, <2>1, <3>2
  <2> QED
    BY <1>1, <1>3, <1>4, <1>8, <1>9, <1>13, <2>2 DEF ReplayKnows, new, s
<1>14. CASE line.k = "total" /\ r.claimed # {} /\ ~entry.inherited
  <2>1. s = Noted(r, entry, n + 1)
    <3>1. s = Observe(r, entry, n + 1)
      BY <1>2, <1>14
    <3> QED
      BY <1>3, <1>14, <3>1, ObserveTotal
  <2>2. ReplayRecord(s) /\ s.model = r.model /\ s.through = n + 1 /\ s.claimed = r.claimed
        /\ DOMAIN s.days \subseteq 1 .. LastDay
    BY <1>3, <1>7, <2>1 DEF ReplayRecord, Noted, Upsert
  <2> QED
    BY <1>1, <1>3, <1>4, <1>8, <1>9, <1>14, <2>2 DEF ReplayKnows, new, s
<1>15. CASE line.k = "total" /\ r.claimed = {} /\ ~entry.inherited
  <2>1. s = Counted(r, entry, n + 1, r.claimed, Floor(line.tok - r.total), line.tok)
    BY <1>2, <1>3, <1>15, ObserveIs
  <2>2. /\ ReplayRecord(s) /\ s.model = r.model /\ s.through = n + 1 /\ s.claimed = {} /\ DOMAIN s.days \subseteq 1 .. LastDay
        /\ s.total = line.tok /\ s.days = Upsert(r.days, entry.day, line.tok)
        /\ s.models = AddTo(r.models, <<entry.day, r.model>>, Floor(line.tok - r.total))
    BY <1>12, <1>15, <2>1
  <2>3. ~HasResponse(rows) /\ ~HasResponse(new)
    BY <1>3, <1>8, <1>15
  <2>4. s.total = LegacyTotal(new) /\ s.days = LegacyDays(new) /\ s.models = LegacyModels(new)
    BY <1>3, <1>6, <1>15, <2>2, <2>3
  <2> QED
    BY <1>1, <1>3, <1>4, <1>9, <1>15, <2>2, <2>3, <2>4 DEF ReplayKnows, new, s
<1> QED
  BY <1>10, <1>11, <1>13, <1>14, <1>15

\* The usage rows of a Codex session hold what its replay holds.
LedgerFields == {"exists", "total", "last", "through", "modern", "claimed", "days", "models"}
LedgerRecord(l) == l = [x \in LedgerFields |-> l[x]]
FollowsReplay(l, rows) ==
    LET r == ReplayOf(rows)
    IN  /\ LedgerRecord(l)
        /\ l.total = r.total /\ l.days = r.days /\ l.models = r.models /\ l.claimed = r.claimed
        /\ l.modern <=> HasResponse(rows)
        /\ l.through \in 0 .. Len(rows)

\* store_usage: a line passed over, context only, and a counted line.
LEMMA PassedOver ==
    ASSUME NEW l, NEW rows, NEW i,
           \/ rows[i].line.k \notin {"total", "response"}
           \/ rows[i].line.k = "response" /\ rows[i].line.id \in l.claimed
    PROVE  CountCodex(l, rows, i) = l
BY DEF CountCodex

\* A total behind a response is context only.
LEMMA ContextOnly ==
    ASSUME NEW l, LedgerRecord(l), NEW rows, NEW i, rows[i].line.k = "total", l.modern
    PROVE  LET m == CountCodex(l, rows, i)
           IN  /\ LedgerRecord(m) /\ (m.modern <=> TRUE) /\ m.total = l.total /\ m.models = l.models
               /\ m.claimed = l.claimed /\ m.through = i
               /\ m.days = Upsert(l.days, rows[i].day, l.total)
<1> DEFINE seen == [l EXCEPT !.through = i]
           m == [seen EXCEPT !.days = Upsert(@, rows[i].day, seen.total)]
<1>1. CountCodex(l, rows, i) = m
  BY DEF CountCodex
<1>2. LedgerRecord(seen) /\ seen.total = l.total /\ seen.days = l.days /\ seen.modern = l.modern
      /\ seen.models = l.models /\ seen.claimed = l.claimed /\ seen.through = i
  BY DEF LedgerRecord, LedgerFields
<1> HIDE DEF seen
<1>3. LedgerRecord(m) /\ m.total = l.total /\ m.modern = l.modern /\ m.models = l.models
      /\ m.claimed = l.claimed /\ m.through = i /\ m.days = Upsert(l.days, rows[i].day, l.total)
  BY <1>2 DEF LedgerRecord, LedgerFields
<1> HIDE DEF m
<1> QED
  BY <1>1, <1>3

\* A response not seen before, or a total before the first, is counted.
IsCounted(l, line) == \/ line.k = "response" /\ line.id \notin l.claimed
                      \/ line.k = "total" /\ ~l.modern
CountedInto(m, l, entry, model, i) ==
    LET line == entry.line
        total == IF line.k = "total" THEN line.tok ELSE l.total + line.tok
    IN  /\ LedgerRecord(m) /\ (m.modern <=> l.modern \/ line.k = "response") /\ m.through = i
        /\ m.total = total
        /\ m.claimed = IF line.k = "response" THEN l.claimed \cup {line.id} ELSE l.claimed
        /\ m.models = AddTo(l.models, <<entry.day, model>>, DailyDelta(l, line))
        /\ m.days = Upsert(l.days, entry.day, total)

\* What a counted line adds.
LEMMA LineCounted ==
    ASSUME NEW l, LedgerRecord(l), NEW rows, NEW i, IsCounted(l, rows[i].line)
    PROVE  CountedInto(CountCodex(l, rows, i), l, rows[i], ModelAt(rows, i), i)
<1> DEFINE line == rows[i].line
           total == IF line.k = "total" THEN line.tok ELSE l.total + line.tok
           claimed == IF line.k = "response" THEN l.claimed \cup {line.id} ELSE l.claimed
           models == AddTo(l.models, <<rows[i].day, ModelAt(rows, i)>>, DailyDelta(l, line))
           modern == l.modern \/ line.k = "response"
           add == [l EXCEPT !.exists = TRUE, !.through = i,
                     !.total = IF line.k = "total" THEN line.tok ELSE @ + line.tok,
                     !.modern = @ \/ line.k = "response",
                     !.claimed = IF line.k = "response" THEN @ \cup {line.id} ELSE @,
                     !.models = AddTo(@, <<rows[i].day, ModelAt(rows, i)>>, DailyDelta(l, line))]
           m == [add EXCEPT !.days = Upsert(@, rows[i].day, add.total)]
<1>1. CountCodex(l, rows, i) = m
  BY DEF CountCodex, IsCounted
<1>2. /\ LedgerRecord(add) /\ (add.modern <=> modern) /\ add.through = i /\ add.total = total
      /\ add.claimed = claimed /\ add.models = models /\ add.days = l.days
  BY DEF LedgerRecord, LedgerFields
<1> HIDE DEF add, total, claimed, models, modern
<1>3. /\ LedgerRecord(m) /\ (m.modern <=> add.modern) /\ m.through = add.through /\ m.total = add.total
      /\ m.claimed = add.claimed /\ m.models = add.models /\ m.days = Upsert(add.days, rows[i].day, add.total)
  BY <1>2 DEF LedgerRecord, LedgerFields
<1> HIDE DEF m
<1> QED
  BY <1>1, <1>2, <1>3 DEF CountedInto, total, claimed, models, modern

\* Counting a Codex line keeps up with the replay.
LEMMA CodexFollows ==
    ASSUME NEW rows \in Seq(LedgerRows), NEW entry \in LedgerRows, entry.line.k # "receipt",
           ReplayKnows(rows), NEW l, FollowsReplay(l, rows)
    PROVE  FollowsReplay(CountLine(l, rows \o <<entry>>, Len(rows) + 1), rows \o <<entry>>)
<1> DEFINE new == rows \o <<entry>>
           n == Len(rows)
           r == ReplayOf(rows)
           s == ReplayOf(new)
           line == entry.line
           m == CountLine(l, new, n + 1)
<1>1. /\ n \in Nat /\ Len(new) = n + 1 /\ DOMAIN rows = 1 .. n /\ DOMAIN new = 1 .. (n + 1)
      /\ new[n + 1] = entry /\ \A i \in 1 .. n : new[i] = rows[i]
  BY OneMore
<1>2. s = IF entry.inherited THEN r ELSE Observe(r, entry, n + 1)
  BY ReplayGoesOn
<1>3. ReplayRecord(r) /\ r.model = ModelAt(rows, n) /\ (r.claimed # {} <=> HasResponse(rows))
  BY DEF ReplayKnows
<1>4. /\ LedgerRecord(l) /\ l.total = r.total /\ l.days = r.days /\ l.models = r.models /\ l.claimed = r.claimed
      /\ (l.modern <=> HasResponse(rows)) /\ l.through \in 0 .. n
  BY DEF FollowsReplay
<1>5. ModelAt(new, n + 1) = IF line.k = "turn" /\ ~entry.inherited THEN line.model ELSE ModelAt(rows, n)
  BY TurnOfLast
<1> HIDE DEF new, n, r, s
<1>6. HasResponse(new) <=> HasResponse(rows) \/ (line.k = "response" /\ ~entry.inherited)
  BY <1>1 DEF HasResponse
<1>7. n + 1 \in 0 .. (n + 1) /\ 0 .. n \subseteq 0 .. (n + 1)
  BY <1>1
<1>8. m = IF entry.inherited THEN l ELSE CountCodex(l, new, n + 1)
  <2>1. ~(n + 1 <= l.through)
    BY <1>1, <1>4
  <2> QED
    BY <1>1, <2>1 DEF CountLine
<1> HIDE DEF m
<1>9. CASE entry.inherited \/ line.k \notin {"turn", "total", "response"} \/ (line.k = "response" /\ line.id \in r.claimed)
  <2>1. s = r
    BY <1>2, <1>3, <1>9, ObserveIs
  <2>2. m = l
    BY <1>1, <1>4, <1>8, <1>9, PassedOver
  <2>3. HasResponse(new) <=> HasResponse(rows)
    BY <1>3, <1>6, <1>9
  <2> QED
    BY <1>1, <1>4, <1>7, <2>1, <2>2, <2>3 DEF FollowsReplay, new, n, r, s, m
<1>10. CASE line.k = "turn" /\ ~entry.inherited
  <2>1. s = [r EXCEPT !.model = line.model]
    BY <1>2, <1>10, ObserveTurn
  <2>2. s.total = r.total /\ s.claimed = r.claimed /\ s.days = r.days /\ s.models = r.models
    BY <1>3, <2>1 DEF ReplayRecord
  <2>3. m = l
    BY <1>1, <1>8, <1>10, PassedOver
  <2> QED
    BY <1>1, <1>4, <1>6, <1>7, <1>10, <2>2, <2>3 DEF FollowsReplay, new, n, r, s, m
<1>11. CASE line.k = "response" /\ line.id \notin r.claimed /\ ~entry.inherited
  <2>1. s = Counted(r, entry, n + 1, r.claimed \cup {line.id}, line.tok, r.total + line.tok)
    BY <1>2, <1>3, <1>11, ObserveIs
  <2>2. /\ s.claimed = r.claimed \cup {line.id} /\ s.total = r.total + line.tok
        /\ s.days = Upsert(r.days, entry.day, r.total + line.tok)
        /\ s.models = AddTo(r.models, <<entry.day, r.model>>, line.tok)
    BY <2>1 DEF Counted
  <2>3. m = CountCodex(l, new, n + 1)
    BY <1>8, <1>11
  <2>4. new[n + 1].line.k = "response" /\ new[n + 1].line.id \notin l.claimed
    BY <1>1, <1>4, <1>11
  <2>5. /\ LedgerRecord(m) /\ (m.modern <=> TRUE) /\ m.through = n + 1
        /\ m.total = l.total + line.tok /\ m.claimed = l.claimed \cup {line.id}
        /\ m.models = AddTo(l.models, <<entry.day, ModelAt(new, n + 1)>>, DailyDelta(l, line))
        /\ m.days = Upsert(l.days, entry.day, l.total + line.tok)
    <3>1. IsCounted(l, new[n + 1].line)
      BY <2>4 DEF IsCounted
    <3>2. CountedInto(m, l, entry, ModelAt(new, n + 1), n + 1)
      BY <1>1, <1>4, <2>3, <3>1, LineCounted
    <3> QED
      BY <1>11, <3>2 DEF CountedInto
  <2>6. DailyDelta(l, line) = line.tok /\ ModelAt(new, n + 1) = r.model
    BY <1>3, <1>5, <1>11 DEF DailyDelta
  <2> QED
    BY <1>1, <1>4, <1>6, <1>7, <1>11, <2>2, <2>5, <2>6 DEF FollowsReplay, new, n, r, s, m
<1>12. CASE line.k = "total" /\ r.claimed # {} /\ ~entry.inherited
  <2>1. s = Noted(r, entry, n + 1)
    <3>1. s = Observe(r, entry, n + 1)
      BY <1>2, <1>12
    <3> QED
      BY <1>3, <1>12, <3>1, ObserveTotal
  <2>2. /\ s.claimed = r.claimed /\ s.total = r.total /\ s.models = r.models
        /\ s.days = Upsert(r.days, entry.day, r.total)
    BY <2>1 DEF Noted
  <2>3. m = CountCodex(l, new, n + 1) /\ new[n + 1].line.k = "total" /\ l.modern
    BY <1>1, <1>3, <1>4, <1>8, <1>12
  <2>4. /\ LedgerRecord(m) /\ (m.modern <=> TRUE) /\ m.total = l.total /\ m.models = l.models
        /\ m.claimed = l.claimed /\ m.through = n + 1 /\ m.days = Upsert(l.days, entry.day, l.total)
    BY <1>1, <1>4, <2>3, ContextOnly
  <2>5. HasResponse(new)
    BY <1>3, <1>6, <1>12
  <2> QED
    BY <1>1, <1>4, <1>7, <2>2, <2>4, <2>5 DEF FollowsReplay, new, n, r, s, m
<1>13. CASE line.k = "total" /\ r.claimed = {} /\ ~entry.inherited
  <2>1. s = Counted(r, entry, n + 1, r.claimed, Floor(line.tok - r.total), line.tok)
    BY <1>2, <1>3, <1>13, ObserveIs
  <2>2. /\ s.claimed = r.claimed /\ s.total = line.tok /\ s.days = Upsert(r.days, entry.day, line.tok)
        /\ s.models = AddTo(r.models, <<entry.day, r.model>>, Floor(line.tok - r.total))
    BY <2>1 DEF Counted
  <2>3. m = CountCodex(l, new, n + 1) /\ new[n + 1].line.k = "total" /\ ~l.modern
    BY <1>1, <1>3, <1>4, <1>8, <1>13
  <2>4. /\ LedgerRecord(m) /\ (m.modern <=> FALSE) /\ m.through = n + 1
        /\ m.total = line.tok /\ m.claimed = l.claimed
        /\ m.models = AddTo(l.models, <<entry.day, ModelAt(new, n + 1)>>, DailyDelta(l, line))
        /\ m.days = Upsert(l.days, entry.day, line.tok)
    <3>1. IsCounted(l, new[n + 1].line)
      BY <2>3 DEF IsCounted
    <3>2. CountedInto(m, l, entry, ModelAt(new, n + 1), n + 1)
      BY <1>1, <1>4, <2>3, <3>1, LineCounted
    <3> QED
      BY <1>1, <1>4, <1>13, <2>3, <3>2 DEF CountedInto
  <2>5. DailyDelta(l, line) = Floor(line.tok - r.total) /\ ModelAt(new, n + 1) = r.model
    BY <1>3, <1>4, <1>5, <1>13 DEF DailyDelta
  <2>6. ~HasResponse(new)
    BY <1>3, <1>6, <1>13
  <2> QED
    BY <1>1, <1>4, <1>7, <2>2, <2>4, <2>5, <2>6 DEF FollowsReplay, new, n, r, s, m
<1> QED
  BY <1>9, <1>10, <1>11, <1>12, <1>13

\* A rebuild writes what the replay holds too.
LEMMA RebuildFollows ==
    ASSUME NEW rows \in Seq(LedgerRows), Codex(rows), ReplayKnows(rows)
    PROVE  FollowsReplay(Rebuilt(rows), rows)
<1> DEFINE r == ReplayOf(rows)
           b == Rebuilt(rows)
<1>0. rows # <<>>
  BY DEF Codex
<1>1. /\ r.through \in 0 .. Len(rows)
      /\ ~HasResponse(rows) => /\ r.total = LegacyTotal(rows) /\ r.days = LegacyDays(rows)
                               /\ r.models = LegacyModels(rows) /\ r.claimed = {}
  BY DEF ReplayKnows
<1>2. CASE HasResponse(rows)
  <2>1. b = [NoLedger EXCEPT !.exists = TRUE, !.modern = TRUE, !.total = r.total, !.through = r.through,
                             !.claimed = r.claimed, !.days = r.days, !.models = r.models]
    BY <1>0, <1>2 DEF Rebuilt, HasResponse, Replay, ReplayOf
  <2> HIDE DEF b, r
  <2>2. LedgerRecord(NoLedger)
    BY DEF LedgerRecord, LedgerFields, NoLedger
  <2>3. /\ LedgerRecord(b) /\ b.modern = TRUE /\ b.total = r.total /\ b.through = r.through /\ b.claimed = r.claimed
        /\ b.days = r.days /\ b.models = r.models
    BY <2>1, <2>2 DEF LedgerRecord, LedgerFields
  <2> QED
    BY <1>1, <1>2, <2>3 DEF FollowsReplay, b, r
<1>3. CASE ~HasResponse(rows)
  <2>1. b = RebuildLegacy(rows)
    BY <1>0, <1>3 DEF Rebuilt, HasResponse
  <2>2. b.total = r.total /\ b.days = r.days /\ b.models = r.models /\ b.claimed = r.claimed
    BY <1>1, <1>3, <2>1, LegacyIs
  <2>3. LedgerRecord(b) /\ (b.modern <=> FALSE) /\ b.through \in 0 .. Len(rows)
    <3>1. TotalsIn(rows) \in SUBSET (1 .. Len(rows)) /\ Len(rows) \in Nat
      BY LegacyTypes
    <3>2. CASE TotalsIn(rows) = {}
      <4>1. b = NoLedger
        BY <2>1, <3>2 DEF RebuildLegacy, TotalsIn
      <4> HIDE DEF b
      <4>2. NoLedger.modern = FALSE /\ NoLedger.through = 0 /\ LedgerRecord(NoLedger)
        BY DEF NoLedger, LedgerRecord, LedgerFields
      <4> QED
        BY <3>1, <4>1, <4>2
    <3>3. CASE TotalsIn(rows) # {}
      <4> DEFINE top == Max(TotalsIn(rows))
      <4>1. top \in 0 .. Len(rows)
        <5>1. top \in TotalsIn(rows)
          BY <3>1, <3>3, MaxOf
        <5> QED
          BY <3>1, <5>1
      <4>2. \E total, days, models :
              b = [NoLedger EXCEPT !.exists = TRUE, !.total = total, !.through = top, !.days = days, !.models = models]
        BY <2>1, <3>3 DEF RebuildLegacy, TotalsIn
      <4>3. PICK total, days, models :
              b = [NoLedger EXCEPT !.exists = TRUE, !.total = total, !.through = top, !.days = days, !.models = models]
        BY <4>2
      <4> HIDE DEF b, top
      <4>4. LedgerRecord(NoLedger) /\ NoLedger.modern = FALSE
        BY DEF LedgerRecord, LedgerFields, NoLedger
      <4>5. LedgerRecord(b) /\ b.modern = FALSE /\ b.through = top
        BY <4>3, <4>4 DEF LedgerRecord, LedgerFields
      <4> QED
        BY <4>1, <4>5
    <3> QED
      BY <3>2, <3>3
  <2> HIDE DEF b, r
  <2> QED
    BY <1>3, <2>2, <2>3 DEF FollowsReplay, b, r
<1> QED
  BY <1>2, <1>3

-----------------------------------------------------------------------------
(* Claude: a receipt takes the place of the one before it.                 *)

\* The day and model each receipt is billed to, and what it says was used.
Keyed(rows) == [i \in DOMAIN rows |-> <<rows[i].day, rows[i].line.model>>]
Toks(rows) == [i \in DOMAIN rows |-> rows[i].line.tok]

\* claude_sessions.sql, in terms of the sums above.
KeysOf(rows) == {Keyed(rows)[i] : i \in LatestReceipts(rows)}
OfKey(rows, k) == Under(LatestReceipts(rows), Keyed(rows), k)
Weight(rows, k) == SumOver(Toks(rows), OfKey(rows, k))
ClaudeModels(rows) == [k \in KeysOf(rows) |-> Weight(rows, k)]
ClaudeTotal(rows) == SumOver(Toks(rows), LatestReceipts(rows))

\* The receipts a revised one is a revision of, and the one it replaces.
Older(rows, line) == {j \in 1 .. Len(rows) : line.id # NoId /\ rows[j].line.id = line.id}
Replaced(rows, line) == IF Older(rows, line) = {} THEN {} ELSE {Max(Older(rows, line))}

\* What a rebuild of a Claude session writes.
LEMMA ClaudeIs ==
    ASSUME NEW rows
    PROVE  LET b == RebuildClaude(rows)
           IN  /\ LedgerRecord(b) /\ (b.modern <=> FALSE) /\ b.claimed = {} /\ b.through = Len(rows)
               /\ b.total = ClaudeTotal(rows) /\ b.models = ClaudeModels(rows)
               /\ b.days = Cumulative(ClaudeModels(rows))
<1> DEFINE latest == LatestReceipts(rows)
           keys == {<<rows[i].day, rows[i].line.model>> : i \in latest}
           models == [k \in keys |-> SumOver(Toks(rows), {i \in latest : <<rows[i].day, rows[i].line.model>> = k})]
           b == RebuildClaude(rows)
<1>1. latest \in SUBSET DOMAIN rows
  BY DEF LatestReceipts
<1>2. keys = KeysOf(rows)
  BY <1>1 DEF KeysOf, Keyed
<1>3. \A k : {i \in latest : <<rows[i].day, rows[i].line.model>> = k} = OfKey(rows, k)
  BY <1>1 DEF OfKey, Under, Keyed
<1>4. models = ClaudeModels(rows)
  BY <1>2, <1>3 DEF ClaudeModels, Weight
<1>5. b = [NoLedger EXCEPT !.exists = TRUE, !.total = SumOver(Toks(rows), latest), !.through = Len(rows),
            !.last = rows[Len(rows)].line.id, !.days = Cumulative(models), !.models = models]
  BY DEF RebuildClaude, Toks
<1> HIDE DEF b, models, keys, latest
<1>6. LedgerRecord(NoLedger) /\ NoLedger.modern = FALSE /\ NoLedger.claimed = {}
  BY DEF LedgerRecord, LedgerFields, NoLedger
<1>7. /\ LedgerRecord(b) /\ (b.modern <=> FALSE) /\ b.claimed = {} /\ b.through = Len(rows)
      /\ b.total = SumOver(Toks(rows), latest) /\ b.models = models /\ b.days = Cumulative(models)
  BY <1>5, <1>6 DEF LedgerRecord, LedgerFields
<1> QED
  BY <1>4, <1>7 DEF ClaudeTotal, b, latest

\* A receipt's row is the latest of its response, the one it revises no longer.
LEMMA LatestGrows ==
    ASSUME NEW rows \in Seq(LedgerRows), NEW entry \in LedgerRows
    PROVE  /\ LatestReceipts(rows) \in SUBSET (1 .. Len(rows))
           /\ Replaced(rows, entry.line) \in SUBSET LatestReceipts(rows)
           /\ AtMostOne(Replaced(rows, entry.line))
           /\ LatestReceipts(rows \o <<entry>>) = (LatestReceipts(rows) \ Replaced(rows, entry.line)) \cup {Len(rows) + 1}
<1> DEFINE new == rows \o <<entry>>
           n == Len(rows)
           line == entry.line
           old == Older(rows, line)
           L == LatestReceipts(rows)
           P == Replaced(rows, line)
<1>1. /\ n \in Nat /\ DOMAIN rows = 1 .. n /\ DOMAIN new = 1 .. (n + 1)
      /\ new[n + 1] = entry /\ \A i \in 1 .. n : new[i] = rows[i]
  BY OneMore
<1> HIDE DEF new, n, line
<1>2. L \in SUBSET (1 .. n)
  BY <1>1 DEF LatestReceipts
<1>3. ASSUME NEW i \in 1 .. n PROVE i \in P <=> i \in L /\ i \in old
  <2>1. CASE old = {}
    BY <2>1 DEF Replaced
  <2>2. CASE old # {}
    <3>1. Max(old) \in old /\ (\A y \in old : y <= Max(old)) /\ old \in SUBSET (1 .. n)
      <4>1. old \in SUBSET (1 .. n)
        BY DEF Older, n
      <4> QED
        BY <1>1, <2>2, <4>1, MaxOf
    <3>2. P = {Max(old)}
      BY <2>2 DEF Replaced
    <3>3. ASSUME i \in L, i \in old PROVE i = Max(old)
      <4>1. rows[i].line.id # NoId /\ rows[i].line.id = line.id /\ rows[Max(old)].line.id = line.id
        BY <3>1, <3>3 DEF Older
      <4>2. Max(old) <= i
        BY <1>1, <3>1, <3>3, <4>1 DEF LatestReceipts
      <4> QED
        BY <1>1, <3>1, <3>3, <4>2
    <3>4. Max(old) \in L
      <4>1. ASSUME NEW j \in 1 .. n, rows[j].line.id = rows[Max(old)].line.id PROVE j <= Max(old)
        <5>1. j \in old
          BY <3>1, <4>1 DEF Older, n
        <5> QED
          BY <3>1, <5>1
      <4> QED
        BY <1>1, <3>1, <4>1 DEF LatestReceipts
    <3> QED
      BY <3>1, <3>2, <3>3, <3>4
  <2> QED
    BY <2>1, <2>2
<1>4. P \in SUBSET (1 .. n) /\ AtMostOne(P)
  <2>1. old \in SUBSET (1 .. n)
    BY DEF Older, n
  <2>2. old # {} => Max(old) \in old
    BY <1>1, <2>1, MaxOf
  <2> QED
    BY <2>1, <2>2 DEF Replaced, AtMostOne
<1>5. P \in SUBSET L
  BY <1>3, <1>4
<1>6. ASSUME NEW i \in 1 .. (n + 1) PROVE i \in LatestReceipts(new) <=> i = n + 1 \/ (i \in L /\ i \notin P)
  <2>1. CASE i = n + 1
    BY <1>1, <2>1 DEF LatestReceipts
  <2>2. CASE i # n + 1
    <3>1. i \in 1 .. n /\ new[i] = rows[i] /\ ~(n + 1 <= i)
      BY <1>1, <2>2
    <3>2. i \in old <=> rows[i].line.id # NoId /\ new[n + 1].line.id = rows[i].line.id
      BY <1>1, <3>1 DEF Older, n, line
    <3>3. i \in LatestReceipts(new) => i \in L
      BY <1>1, <3>1 DEF LatestReceipts
    <3>4. i \in LatestReceipts(new) => i \notin old
      BY <1>1, <3>1, <3>2 DEF LatestReceipts
    <3>5. i \in L /\ i \notin old => i \in LatestReceipts(new)
      <4> SUFFICES ASSUME i \in L, i \notin old, rows[i].line.id # NoId, NEW j \in 1 .. (n + 1),
                          new[j].line.id = rows[i].line.id
                   PROVE  j <= i
        BY <1>1, <3>1 DEF LatestReceipts
      <4>1. j # n + 1
        BY <3>2
      <4>2. j \in 1 .. n /\ new[j] = rows[j]
        BY <1>1, <4>1
      <4> QED
        BY <1>1, <4>2 DEF LatestReceipts
    <3> QED
      BY <1>3, <2>2, <3>1, <3>3, <3>4, <3>5
  <2> QED
    BY <2>1, <2>2
<1>7. LatestReceipts(new) \in SUBSET (1 .. (n + 1))
  BY <1>1 DEF LatestReceipts
<1>8. LatestReceipts(new) = (L \ P) \cup {n + 1}
  <2>1. ASSUME NEW i \in (L \ P) \cup {n + 1} PROVE i \in 1 .. (n + 1)
    BY <1>1, <1>2
  <2> QED
    BY <1>6, <1>7, <2>1
<1> QED
  BY <1>2, <1>4, <1>5, <1>8 DEF new, n, line

\* What a receipt brings to a sum: its own share for that of the one it replaces.
LEMMA TermsGrow ==
    ASSUME NEW rows \in Seq(LedgerRows), NEW entry \in LedgerRows,
           NEW S \in SUBSET (1 .. Len(rows)), NEW P \in SUBSET S, AtMostOne(P),
           NEW A \in SUBSET {Len(rows) + 1}
    PROVE  /\ SumOver(Toks(rows \o <<entry>>), (S \ P) \cup A)
                = SumOver(Toks(rows), S) - SumOver(Toks(rows), P) + SumOver(Toks(rows \o <<entry>>), A)
           /\ SumOver(Toks(rows), S) \in Int
<1> DEFINE new == rows \o <<entry>>
           n == Len(rows)
           f == Toks(rows)
           g == Toks(new)
<1>1. /\ n \in Nat /\ DOMAIN rows = 1 .. n /\ DOMAIN new = 1 .. (n + 1) /\ new \in Seq(LedgerRows)
      /\ new[n + 1] = entry /\ \A i \in 1 .. n : new[i] = rows[i]
  BY OneMore
<1> HIDE DEF new
<1>2. \A i \in 1 .. (n + 1) : new[i].line.tok \in Int
  <2> SUFFICES ASSUME NEW i \in 1 .. (n + 1) PROVE new[i].line.tok \in Int
    OBVIOUS
  <2>1. new[i] \in LedgerRows
    BY <1>1, ElementOfSeq
  <2>2. new[i].line \in UsageLines
    BY <2>1 DEF LedgerRows
  <2> QED
    BY <2>2, LineKinds
<1>3. \A x \in 1 .. n : f[x] \in Int /\ g[x] = f[x]
  <2> SUFFICES ASSUME NEW x \in 1 .. n PROVE f[x] \in Int /\ g[x] = f[x]
    OBVIOUS
  <2>1. x \in 1 .. (n + 1)
    BY <1>1
  <2> QED
    BY <1>1, <1>2, <2>1 DEF Toks
<1>4. \A x \in A : g[x] \in Int
  <2>1. n + 1 \in 1 .. (n + 1)
    BY <1>1
  <2> QED
    BY <1>1, <1>2, <2>1 DEF Toks
<1>5. IsFiniteSet(S)
  <2>1. IsFiniteSet(1 .. n)
    BY <1>1, FS_Interval
  <2> QED
    BY <2>1, FS_Subset
<1>6. A \cap S = {} /\ AtMostOne(A)
  <2>1. n + 1 \notin 1 .. n
    BY <1>1
  <2>2. n + 1 \notin S
    BY <2>1
  <2>3. A = {} \/ A = {n + 1}
    OBVIOUS
  <2> QED
    BY <2>2, <2>3 DEF AtMostOne
<1>7. \A x \in S : f[x] \in Int /\ g[x] = f[x]
  BY <1>3
<1> HIDE DEF n, f, g
<1>8. OneForOne(f, g, S, P, A)
  BY <1>4, <1>5, <1>6, <1>7, SumReplace
<1>9. SumOver(f, S) \in Int
  BY <1>5, <1>7, SumType
<1> QED
  BY <1>8, <1>9 DEF OneForOne, f, g, new

\* The row a receipt revises (its own when it revises none), what that one was
\* counted for, and where the two are billed.
PriorOf(rows, entry) == IF Older(rows, entry.line) = {} THEN entry ELSE rows[Max(Older(rows, entry.line))]
Less(rows, entry) == IF Older(rows, entry.line) = {} THEN 0 ELSE PriorOf(rows, entry).line.tok
KeyOf(entry) == <<entry.day, entry.line.model>>
Taken(rows, entry, k) == IF Older(rows, entry.line) # {} /\ k = KeyOf(PriorOf(rows, entry)) THEN Less(rows, entry) ELSE 0
Given(entry, k) == IF k = KeyOf(entry) THEN entry.line.tok ELSE 0

\* The tokens of rows are numbers, and those of the last row are its line's.
LEMMA ToksAre ==
    ASSUME NEW rows \in Seq(LedgerRows), NEW entry \in LedgerRows
    PROVE  /\ entry.line.tok \in Int /\ Less(rows, entry) \in Int
           /\ SumOver(Toks(rows), {}) = 0
           /\ SumOver(Toks(rows), Replaced(rows, entry.line)) = Less(rows, entry)
           /\ SumOver(Toks(rows \o <<entry>>), {}) = 0
           /\ SumOver(Toks(rows \o <<entry>>), {Len(rows) + 1}) = entry.line.tok
<1> DEFINE new == rows \o <<entry>>
           n == Len(rows)
           old == Older(rows, entry.line)
           f == Toks(rows)
           g == Toks(new)
<1>1. /\ n \in Nat /\ DOMAIN rows = 1 .. n /\ DOMAIN new = 1 .. (n + 1)
      /\ new[n + 1] = entry
  BY OneMore
<1>2. entry.line.tok \in Int /\ \A i \in 1 .. n : rows[i].line.tok \in Int
  <2>1. entry.line \in UsageLines
    BY DEF LedgerRows
  <2>2. \A i \in 1 .. n : rows[i] \in LedgerRows
    BY <1>1, ElementOfSeq
  <2>3. \A i \in 1 .. n : rows[i].line \in UsageLines
    BY <2>2 DEF LedgerRows
  <2> QED
    BY <2>1, <2>3, LineKinds
<1> HIDE DEF new
<1>3. g[n + 1] = entry.line.tok
  <2>1. n + 1 \in 1 .. (n + 1)
    BY <1>1
  <2> QED
    BY <1>1, <2>1 DEF Toks
<1>4. SumOver(f, {}) = 0 /\ SumOver(g, {}) = 0
  BY FS_EmptySet, SumPick
<1>5. SumOver(g, {n + 1}) = entry.line.tok
  <2> DEFINE a == n + 1
  <2>1. g[a] = entry.line.tok /\ g[a] \in Int
    BY <1>2, <1>3
  <2> HIDE DEF a, g
  <2>2. SumOver(g, {a}) = g[a]
    BY <2>1, SumOne
  <2> QED
    BY <2>1, <2>2 DEF a
<1>6. CASE old = {}
  BY <1>2, <1>4, <1>5, <1>6 DEF Less, Replaced, new
<1>7. CASE old # {}
  <2> DEFINE a == Max(old)
  <2>1. a \in 1 .. n
    <3>1. old \in SUBSET (1 .. n)
      BY DEF Older
    <3> QED
      BY <1>1, <1>7, <3>1, MaxOf
  <2>2. Replaced(rows, entry.line) = {a} /\ Less(rows, entry) = rows[a].line.tok
    BY <1>7 DEF Replaced, Less, PriorOf
  <2>3. f[a] = rows[a].line.tok /\ f[a] \in Int
    BY <1>1, <1>2, <2>1 DEF Toks
  <2> HIDE DEF a, f
  <2>4. SumOver(f, {a}) = f[a]
    BY <2>3, SumOne
  <2> QED
    BY <1>2, <1>4, <1>5, <2>2, <2>3, <2>4 DEF new, f
<1> QED
  BY <1>6, <1>7

\* The session's total.
LEMMA TotalGrows ==
    ASSUME NEW rows \in Seq(LedgerRows), NEW entry \in LedgerRows
    PROVE  ClaudeTotal(rows \o <<entry>>) = ClaudeTotal(rows) - Less(rows, entry) + entry.line.tok
<1> DEFINE new == rows \o <<entry>>
           L == LatestReceipts(rows)
           P == Replaced(rows, entry.line)
           A == {Len(rows) + 1}
<1>1. L \in SUBSET (1 .. Len(rows)) /\ P \in SUBSET L /\ AtMostOne(P) /\ LatestReceipts(new) = (L \ P) \cup A
  BY LatestGrows
<1>2. A \in SUBSET {Len(rows) + 1}
  OBVIOUS
<1> HIDE DEF L, P, A
<1>3. SumOver(Toks(rows \o <<entry>>), (L \ P) \cup A)
        = SumOver(Toks(rows), L) - SumOver(Toks(rows), P) + SumOver(Toks(rows \o <<entry>>), A)
  BY <1>1, <1>2, TermsGrow
<1>4. SumOver(Toks(rows), P) = Less(rows, entry) /\ SumOver(Toks(rows \o <<entry>>), A) = entry.line.tok
  BY ToksAre DEF P, A
<1> QED
  BY <1>1, <1>3, <1>4 DEF ClaudeTotal, L

\* Where receipts are billed.
LEMMA KeysAre ==
    ASSUME NEW rows \in Seq(LedgerRows), NEW entry \in LedgerRows
    PROVE  /\ \A i \in 1 .. Len(rows) :
                 /\ Keyed(rows)[i] = KeyOf(rows[i])
                 /\ Keyed(rows \o <<entry>>)[i] = KeyOf(rows[i])
           /\ Keyed(rows \o <<entry>>)[Len(rows) + 1] = KeyOf(entry)
           /\ Older(rows, entry.line) # {} =>
                 /\ Replaced(rows, entry.line) = {Max(Older(rows, entry.line))}
                 /\ Max(Older(rows, entry.line)) \in 1 .. Len(rows)
                 /\ Keyed(rows)[Max(Older(rows, entry.line))] = KeyOf(PriorOf(rows, entry))
           /\ Older(rows, entry.line) = {} => Replaced(rows, entry.line) = {}
<1> DEFINE new == rows \o <<entry>>
           n == Len(rows)
           old == Older(rows, entry.line)
<1>1. /\ n \in Nat /\ DOMAIN rows = 1 .. n /\ DOMAIN new = 1 .. (n + 1)
      /\ new[n + 1] = entry /\ \A i \in 1 .. n : new[i] = rows[i]
  BY OneMore
<1>2. n + 1 \in 1 .. (n + 1) /\ 1 .. n \subseteq 1 .. (n + 1)
  BY <1>1
<1> HIDE DEF new
<1>3. /\ \A i \in 1 .. n : Keyed(rows)[i] = KeyOf(rows[i]) /\ Keyed(new)[i] = KeyOf(rows[i])
      /\ Keyed(new)[n + 1] = KeyOf(entry)
  BY <1>1, <1>2 DEF Keyed, KeyOf
<1>4. old # {} => Max(old) \in 1 .. n
  <2>1. old \in SUBSET (1 .. n)
    BY DEF Older
  <2> QED
    BY <1>1, <2>1, MaxOf
<1> QED
  BY <1>3, <1>4 DEF Replaced, PriorOf, new

\* What a day and a model are billed.
LEMMA WeightGrows ==
    ASSUME NEW rows \in Seq(LedgerRows), NEW entry \in LedgerRows, NEW k
    PROVE  /\ Weight(rows \o <<entry>>, k) = Weight(rows, k) - Taken(rows, entry, k) + Given(entry, k)
           /\ Weight(rows, k) \in Int /\ Taken(rows, entry, k) \in Int /\ Given(entry, k) \in Int
           /\ k \notin KeysOf(rows) => Weight(rows, k) = 0
<1> DEFINE new == rows \o <<entry>>
           n == Len(rows)
           L == LatestReceipts(rows)
           P == Replaced(rows, entry.line)
           S == OfKey(rows, k)
           Q == {i \in P : Keyed(rows)[i] = k}
           A == {i \in {n + 1} : KeyOf(entry) = k}
<1>1. L \in SUBSET (1 .. n) /\ P \in SUBSET L /\ AtMostOne(P) /\ LatestReceipts(new) = (L \ P) \cup {n + 1}
  BY LatestGrows
<1>2. /\ \A i \in 1 .. n : Keyed(rows)[i] = KeyOf(rows[i]) /\ Keyed(new)[i] = KeyOf(rows[i])
      /\ Keyed(new)[n + 1] = KeyOf(entry)
  BY KeysAre
<1>3. OfKey(new, k) = (S \ Q) \cup A
  <2>1. \A i \in L : Keyed(new)[i] = Keyed(rows)[i]
    BY <1>1, <1>2
  <2> HIDE DEF n, new, L, P
  <2> QED
    BY <1>1, <1>2, <2>1 DEF OfKey, Under, L
<1>4. S \in SUBSET (1 .. Len(rows)) /\ Q \in SUBSET S /\ AtMostOne(Q) /\ A \in SUBSET {Len(rows) + 1}
  <2> HIDE DEF P, L
  <2>1. S \in SUBSET L
    BY DEF OfKey, Under, L
  <2>2. Q \in SUBSET S
    BY <1>1 DEF OfKey, Under, L
  <2>3. AtMostOne(Q)
    BY <1>1 DEF AtMostOne
  <2> QED
    BY <1>1, <2>1, <2>2, <2>3
<1>5. SumOver(Toks(rows), Q) = Taken(rows, entry, k)
  <2>1. CASE Older(rows, entry.line) = {}
    <3>1. Q = {}
      BY <2>1, KeysAre
    <3> QED
      BY <2>1, <3>1, ToksAre DEF Taken
  <2>2. CASE Older(rows, entry.line) # {}
    <3>1. P = {Max(Older(rows, entry.line))} /\ Keyed(rows)[Max(Older(rows, entry.line))] = KeyOf(PriorOf(rows, entry))
      BY <2>2, KeysAre
    <3>2. Q = IF k = KeyOf(PriorOf(rows, entry)) THEN P ELSE {}
      BY <3>1
    <3> HIDE DEF Q
    <3> QED
      BY <2>2, <3>2, ToksAre DEF Taken
  <2> QED
    BY <2>1, <2>2
<1>6. SumOver(Toks(new), A) = Given(entry, k)
  <2>1. A = IF k = KeyOf(entry) THEN {n + 1} ELSE {}
    OBVIOUS
  <2> HIDE DEF A
  <2> QED
    BY <2>1, ToksAre DEF Given
<1>7. k \notin KeysOf(rows) => S = {}
  BY DEF KeysOf, OfKey, Under
<1>8. Taken(rows, entry, k) \in Int /\ Given(entry, k) \in Int
  <2>1. Less(rows, entry) \in Int /\ entry.line.tok \in Int
    BY ToksAre
  <2> QED
    BY <2>1 DEF Taken, Given
<1> HIDE DEF S, Q, A
<1>9. /\ SumOver(Toks(rows \o <<entry>>), (S \ Q) \cup A)
           = SumOver(Toks(rows), S) - SumOver(Toks(rows), Q) + SumOver(Toks(rows \o <<entry>>), A)
      /\ SumOver(Toks(rows), S) \in Int
  BY <1>4, TermsGrow
<1>10. SumOver(Toks(rows), {}) = 0
  BY ToksAre
<1> QED
  BY <1>3, <1>5, <1>6, <1>7, <1>8, <1>9, <1>10 DEF Weight, S

\* The keys: the new row's is one; only the one the replaced row had may go.
LEMMA KeysGrow ==
    ASSUME NEW rows \in Seq(LedgerRows), NEW entry \in LedgerRows
    PROVE  /\ KeyOf(entry) \in KeysOf(rows \o <<entry>>)
           /\ KeysOf(rows \o <<entry>>) \subseteq KeysOf(rows) \cup {KeyOf(entry)}
           /\ Older(rows, entry.line) # {} => KeyOf(PriorOf(rows, entry)) \in KeysOf(rows)
           /\ \A k \in KeysOf(rows) : \/ k \in KeysOf(rows \o <<entry>>)
                                      \/ Older(rows, entry.line) # {} /\ k = KeyOf(PriorOf(rows, entry))
<1> DEFINE new == rows \o <<entry>>
           n == Len(rows)
           L == LatestReceipts(rows)
           P == Replaced(rows, entry.line)
           old == Older(rows, entry.line)
<1>1. L \in SUBSET (1 .. n) /\ P \in SUBSET L /\ AtMostOne(P) /\ LatestReceipts(new) = (L \ P) \cup {n + 1}
  BY LatestGrows
<1>2. /\ \A i \in 1 .. n : Keyed(rows)[i] = KeyOf(rows[i]) /\ Keyed(new)[i] = KeyOf(rows[i])
      /\ Keyed(new)[n + 1] = KeyOf(entry)
      /\ old # {} => P = {Max(old)} /\ Keyed(rows)[Max(old)] = KeyOf(PriorOf(rows, entry))
      /\ old = {} => P = {}
  BY KeysAre
<1> HIDE DEF new, n, P, old, L
<1>3. KeyOf(entry) \in KeysOf(new)
  BY <1>1, <1>2 DEF KeysOf
<1>4. KeysOf(new) \subseteq KeysOf(rows) \cup {KeyOf(entry)}
  BY <1>1, <1>2 DEF KeysOf, L
<1>5. old # {} => KeyOf(PriorOf(rows, entry)) \in KeysOf(rows)
  BY <1>1, <1>2 DEF KeysOf, L
<1>6. ASSUME NEW k \in KeysOf(rows) PROVE k \in KeysOf(new) \/ (old # {} /\ k = KeyOf(PriorOf(rows, entry)))
  <2>1. PICK i \in L : k = Keyed(rows)[i]
    BY DEF KeysOf, L
  <2>2. CASE i \in P
    BY <1>2, <2>1, <2>2
  <2>3. CASE i \notin P
    <3>1. i \in LatestReceipts(new) /\ k = Keyed(new)[i]
      BY <1>1, <1>2, <2>1, <2>3
    <3> QED
      BY <3>1 DEF KeysOf
  <2> QED
    BY <2>2, <2>3
<1> QED
  BY <1>3, <1>4, <1>5, <1>6 DEF new, old

\* update_model_daily: the share moves from the old key to the new one.
LEMMA ModelsGrow ==
    ASSUME NEW rows \in Seq(LedgerRows), NEW entry \in LedgerRows
    PROVE  LET m == ClaudeModels(rows)
               sub == IF Older(rows, entry.line) = {} THEN m
                      ELSE [m EXCEPT ![KeyOf(PriorOf(rows, entry))] = @ - Less(rows, entry)]
           IN  AddTo(sub, KeyOf(entry), entry.line.tok)
                 = [k \in KeysOf(rows) \cup {KeyOf(entry)} |-> Weight(rows \o <<entry>>, k)]
<1> DEFINE new == rows \o <<entry>>
           m == ClaudeModels(rows)
           old == Older(rows, entry.line)
           pk == KeyOf(PriorOf(rows, entry))
           rk == KeyOf(entry)
           K == KeysOf(rows)
           less == Less(rows, entry)
           tok == entry.line.tok
           sub == IF old = {} THEN m ELSE [m EXCEPT ![pk] = @ - less]
<1>1. ASSUME NEW k
      PROVE  /\ Weight(new, k) = Weight(rows, k) - Taken(rows, entry, k) + Given(entry, k)
             /\ Weight(rows, k) \in Int /\ Taken(rows, entry, k) \in Int /\ Given(entry, k) \in Int
             /\ k \notin K => Weight(rows, k) = 0
  BY WeightGrows
<1>2. old # {} => pk \in K
  BY KeysGrow
<1>3. less \in Int /\ tok \in Int
  BY ToksAre
<1>4. \A k : Taken(rows, entry, k) = (IF old # {} /\ k = pk THEN less ELSE 0) /\ Given(entry, k) = IF k = rk THEN tok ELSE 0
  BY DEF Taken, Given
<1>5. m = [k \in K |-> Weight(rows, k)]
  BY DEF ClaudeModels
<1> HIDE DEF m, new, old, pk, rk, K, less, tok
<1>6. DOMAIN sub = K /\ \A k \in K : sub[k] = Weight(rows, k) - Taken(rows, entry, k)
  <2>1. \A k \in K : Weight(rows, k) \in Int
    BY <1>1
  <2>2. CASE old = {}
    <3>1. sub = m
      BY <2>2
    <3>2. \A k \in K : Taken(rows, entry, k) = 0
      BY <1>4, <2>2
    <3> QED
      BY <1>5, <2>1, <3>1, <3>2
  <2>3. CASE old # {}
    <3>1. sub = [k \in K |-> IF k = pk THEN Weight(rows, pk) - less ELSE Weight(rows, k)]
      BY <1>2, <1>5, <2>3
    <3>2. \A k \in K : Taken(rows, entry, k) = IF k = pk THEN less ELSE 0
      BY <1>4, <2>3
    <3> HIDE DEF sub
    <3> QED
      BY <2>1, <3>1, <3>2
  <2> QED
    BY <2>2, <2>3
<1> HIDE DEF sub
<1>7. AddTo(sub, rk, tok) = [k \in K \cup {rk} |-> IF k = rk THEN tok + (IF rk \in K THEN sub[rk] ELSE 0) ELSE sub[k]]
  BY <1>6 DEF AddTo, Upsert
<1>8. ASSUME NEW k \in K \cup {rk}
      PROVE  Weight(new, k) = IF k = rk THEN tok + (IF rk \in K THEN sub[rk] ELSE 0) ELSE sub[k]
  <2>1. CASE k # rk
    BY <1>1, <1>4, <1>6, <2>1
  <2>2. CASE k = rk /\ rk \in K
    BY <1>1, <1>3, <1>4, <1>6, <2>2
  <2>3. CASE k = rk /\ rk \notin K
    <3>1. Weight(rows, k) = 0 /\ Taken(rows, entry, k) = 0 /\ Given(entry, k) = tok
      BY <1>1, <1>2, <1>4, <2>3
    <3>2. Weight(new, k) = Weight(rows, k) - Taken(rows, entry, k) + Given(entry, k)
      BY <1>1
    <3> QED
      BY <1>3, <2>3, <3>1, <3>2
  <2> QED
    BY <2>1, <2>2, <2>3
<1>9. AddTo(sub, rk, tok) = [k \in K \cup {rk} |-> Weight(new, k)]
  BY <1>7, <1>8
<1> QED
  BY <1>9 DEF sub, m, new, old, pk, rk, K, less, tok

\* What the models are billed together is the session's total.
LEMMA ModelsBalance ==
    ASSUME NEW rows \in Seq(LedgerRows)
    PROVE  /\ IsFiniteSet(KeysOf(rows))
           /\ \A k \in KeysOf(rows) : ClaudeModels(rows)[k] \in Int
           /\ SumOver(ClaudeModels(rows), KeysOf(rows)) = ClaudeTotal(rows)
<1> DEFINE n == Len(rows)
           L == LatestReceipts(rows)
           f == Toks(rows)
           key == Keyed(rows)
           K == KeysOf(rows)
<1>1. n \in Nat /\ DOMAIN rows = 1 .. n
  BY LenProperties
<1>2. \A i \in 1 .. n : rows[i].line.tok \in Int
  <2>2. \A i \in 1 .. n : rows[i] \in LedgerRows
    BY <1>1, ElementOfSeq
  <2>3. \A i \in 1 .. n : rows[i].line \in UsageLines
    BY <2>2 DEF LedgerRows
  <2> QED
    BY <2>3, LineKinds
<1>3. L \in SUBSET (1 .. n)
  BY <1>1 DEF LatestReceipts
<1>4. IsFiniteSet(L)
  <2>1. IsFiniteSet(1 .. n)
    BY <1>1, FS_Interval
  <2> HIDE DEF L
  <2> QED
    BY <1>3, <2>1, FS_Subset
<1>5. \A i \in L : f[i] \in Int /\ key[i] \in K
  <2>1. \A i \in L : f[i] \in Int
    BY <1>1, <1>2, <1>3 DEF Toks
  <2> QED
    BY <2>1 DEF KeysOf
<1>6. K = {key[i] : i \in L}
  BY DEF KeysOf
<1>7. ClaudeModels(rows) = Grouped(f, L, key, K)
  BY DEF ClaudeModels, Grouped, Weight, OfKey
<1>8. ClaudeTotal(rows) = SumOver(f, L)
  BY DEF ClaudeTotal
<1> HIDE DEF L, f, key, K, n
<1>9. IsFiniteSet(K)
  BY <1>4, <1>6, KeysFinite
<1>10. SumOver(Grouped(f, L, key, K), K) = SumOver(f, L)
  BY <1>4, <1>5, <1>9, SumByKey
<1>11. ASSUME NEW k \in K PROVE Grouped(f, L, key, K)[k] \in Int
  <2> DEFINE S == Under(L, key, k)
  <2>1. S \in SUBSET L
    BY DEF Under
  <2>2. IsFiniteSet(S) /\ \A i \in S : f[i] \in Int
    BY <1>4, <1>5, <2>1, FS_Subset
  <2> HIDE DEF S
  <2>3. SumOver(f, S) \in Int
    BY <2>2, SumType
  <2> QED
    BY <2>3 DEF Grouped, S
<1> QED
  BY <1>7, <1>8, <1>9, <1>10, <1>11 DEF K

\* The days of the keys.
DaysOf(models) == {k[1] : k \in DOMAIN models}
UpTo(models, d) == {k \in DOMAIN models : k[1] <= d}

\* A receipt that stays on its day changes the running total of that day alone,
\* which is the session's, for no row is of a later day.
LEMMA DaysGrow ==
    ASSUME NEW rows \in Seq(LedgerRows), NEW entry \in LedgerRows,
           \A i \in 1 .. Len(rows) : rows[i].day <= entry.day,
           PriorOf(rows, entry).day = entry.day
    PROVE  Upsert(Cumulative(ClaudeModels(rows)), entry.day, ClaudeTotal(rows \o <<entry>>))
             = Cumulative(ClaudeModels(rows \o <<entry>>))
<1> DEFINE new == rows \o <<entry>>
           m == ClaudeModels(rows)
           w == ClaudeModels(new)
           d0 == entry.day
           rk == KeyOf(entry)
           pk == KeyOf(PriorOf(rows, entry))
           old == Older(rows, entry.line)
<1>1. new \in Seq(LedgerRows) /\ Len(rows) \in Nat
  BY OneMore
<1>2. DOMAIN m = KeysOf(rows) /\ DOMAIN w = KeysOf(new)
  BY DEF ClaudeModels
<1>3. /\ rk \in KeysOf(new) /\ KeysOf(new) \subseteq KeysOf(rows) \cup {rk}
      /\ \A k \in KeysOf(rows) : k \in KeysOf(new) \/ (old # {} /\ k = pk)
  BY KeysGrow
<1>4. rk[1] = d0 /\ pk[1] = d0 /\ d0 \in Int
  BY DEF KeyOf, LedgerRows
<1>5. \A k \in KeysOf(rows) : k[1] \in Int /\ k[1] <= d0
  <2> SUFFICES ASSUME NEW k \in KeysOf(rows) PROVE k[1] \in Int /\ k[1] <= d0
    OBVIOUS
  <2>1. PICK i \in 1 .. Len(rows) : k = KeyOf(rows[i])
    <3>1. LatestReceipts(rows) \in SUBSET (1 .. Len(rows))
      BY LatestGrows
    <3>2. \A i \in 1 .. Len(rows) : Keyed(rows)[i] = KeyOf(rows[i])
      BY KeysAre
    <3> QED
      BY <3>1, <3>2 DEF KeysOf
  <2>2. rows[i] \in LedgerRows
    BY <2>1, ElementOfSeq
  <2> QED
    BY <2>1, <2>2 DEF KeyOf, LedgerRows
<1>6. \A k \in KeysOf(new) : k[1] \in Int /\ k[1] <= d0
  BY <1>3, <1>4, <1>5
<1>7. ASSUME NEW k \in KeysOf(rows) \cup KeysOf(new), k[1] # d0
      PROVE  (k \in KeysOf(rows) <=> k \in KeysOf(new)) /\ w[k] = m[k]
  <2>1. k # rk /\ k # pk
    BY <1>4, <1>7
  <2>2. k \in KeysOf(rows) /\ k \in KeysOf(new)
    BY <1>3, <2>1
  <2>3. Weight(new, k) = Weight(rows, k)
    <3>1. Taken(rows, entry, k) = 0 /\ Given(entry, k) = 0
      BY <2>1 DEF Taken, Given
    <3>2. Weight(new, k) = Weight(rows, k) - Taken(rows, entry, k) + Given(entry, k) /\ Weight(rows, k) \in Int
      BY WeightGrows
    <3> QED
      BY <3>1, <3>2
  <2>4. m[k] = Weight(rows, k) /\ w[k] = Weight(new, k)
    <3> HIDE DEF new
    <3> QED
      BY <2>2 DEF ClaudeModels
  <2> QED
    BY <2>2, <2>3, <2>4
<1>8. SumOver(w, KeysOf(new)) = ClaudeTotal(new)
  BY <1>1, ModelsBalance
<1>9. IsFiniteSet(KeysOf(rows)) /\ IsFiniteSet(KeysOf(new))
  BY <1>1, ModelsBalance
<1>10. /\ Cumulative(m) = [d \in DaysOf(m) |-> SumOver(m, UpTo(m, d))]
       /\ Cumulative(w) = [d \in DaysOf(w) |-> SumOver(w, UpTo(w, d))]
  BY DEF Cumulative, DaysOf, UpTo
<1> HIDE DEF new, m, w, d0, rk, pk, old
<1>11. DaysOf(w) = DaysOf(m) \cup {d0}
  <2>1. ASSUME NEW d \in DaysOf(w) PROVE d \in DaysOf(m) \cup {d0}
    <3>1. PICK k \in KeysOf(new) : d = k[1]
      BY <1>2 DEF DaysOf
    <3> QED
      BY <1>2, <1>7, <3>1 DEF DaysOf
  <2>2. ASSUME NEW d \in DaysOf(m) PROVE d \in DaysOf(w) \cup {d0}
    <3>1. PICK k \in KeysOf(rows) : d = k[1]
      BY <1>2 DEF DaysOf
    <3> QED
      BY <1>2, <1>7, <3>1 DEF DaysOf
  <2>3. d0 \in DaysOf(w)
    BY <1>2, <1>3, <1>4 DEF DaysOf
  <2> QED
    BY <2>1, <2>2, <2>3
<1>12. UpTo(w, d0) = KeysOf(new)
  BY <1>2, <1>6 DEF UpTo
<1>13. ASSUME NEW d \in DaysOf(w), d # d0 PROVE SumOver(w, UpTo(w, d)) = SumOver(m, UpTo(m, d))
  <2>0. d \in Int /\ d < d0
    BY <1>2, <1>4, <1>6, <1>13 DEF DaysOf
  <2>1. \A k \in UpTo(w, d) : k[1] # d0
    BY <1>4, <2>0 DEF UpTo
  <2>2. \A k \in UpTo(m, d) : k[1] # d0
    BY <1>4, <2>0 DEF UpTo
  <2>3. UpTo(w, d) = UpTo(m, d)
    BY <1>2, <1>7, <2>1, <2>2 DEF UpTo
  <2> DEFINE S == UpTo(m, d)
  <2>4. IsFiniteSet(S) /\ \A k \in S : w[k] = m[k]
    <3>1. S \in SUBSET KeysOf(rows)
      BY <1>2 DEF UpTo
    <3> HIDE DEF S
    <3>2. IsFiniteSet(S)
      BY <1>9, <3>1, FS_Subset
    <3> QED
      BY <1>7, <2>2, <3>1, <3>2 DEF S
  <2> HIDE DEF S
  <2>5. SumOver(w, S) = SumOver(m, S)
    BY <2>4, SumSame
  <2> QED
    BY <2>3, <2>5 DEF S
<1>14. Upsert(Cumulative(m), d0, ClaudeTotal(new))
         = [d \in DaysOf(m) \cup {d0} |-> IF d = d0 THEN ClaudeTotal(new) ELSE Cumulative(m)[d]]
  BY <1>10 DEF Upsert
<1>15. ASSUME NEW d \in DaysOf(w)
       PROVE  SumOver(w, UpTo(w, d)) = IF d = d0 THEN ClaudeTotal(new) ELSE Cumulative(m)[d]
  <2>1. CASE d = d0
    BY <1>8, <1>12, <2>1
  <2>2. CASE d # d0
    <3>1. d \in DaysOf(m)
      BY <1>11, <2>2
    <3> QED
      BY <1>10, <1>13, <2>2, <3>1
  <2> QED
    BY <2>1, <2>2
<1>16. Upsert(Cumulative(m), d0, ClaudeTotal(new)) = Cumulative(w)
  BY <1>10, <1>11, <1>14, <1>15
<1> QED
  BY <1>16 DEF m, w, d0, new

\* The usage rows of a Claude session hold what its latest receipts say.
FollowsClaude(l, rows) ==
    /\ LedgerRecord(l)
    /\ l.total = ClaudeTotal(rows) /\ l.models = ClaudeModels(rows)
    /\ l.days = Cumulative(ClaudeModels(rows))
    /\ l.claimed = {} /\ (l.modern <=> FALSE)
    /\ l.through \in 0 .. Len(rows)

\* A session without rows has no usage.
LEMMA ClaudeBegins == FollowsClaude(NoLedger, <<>>)
<1>1. LatestReceipts(<<>>) = {} /\ Len(<<>>) = 0
  BY DEF LatestReceipts
<1>2. KeysOf(<<>>) = {}
  BY <1>1 DEF KeysOf
<1>3. ClaudeModels(<<>>) = <<>> /\ DOMAIN <<>> = {}
  BY <1>2 DEF ClaudeModels
<1>4. Cumulative(<<>>) = <<>>
  BY <1>3 DEF Cumulative
<1>5. ClaudeTotal(<<>>) = 0
  <2> DEFINE f == Toks(<<>>)
  <2>1. SumOver(f, {}) = 0
    <3> HIDE DEF f
    <3> QED
      BY FS_EmptySet, SumPick
  <2> QED
    BY <1>1, <2>1 DEF ClaudeTotal
<1>6. /\ LedgerRecord(NoLedger) /\ NoLedger.total = 0 /\ NoLedger.models = <<>> /\ NoLedger.days = <<>>
      /\ NoLedger.claimed = {} /\ NoLedger.modern = FALSE /\ NoLedger.through = 0
  BY DEF NoLedger, LedgerRecord, LedgerFields
<1>7. 0 \in 0 .. 0
  OBVIOUS
<1> QED
  BY <1>1, <1>3, <1>4, <1>5, <1>6, <1>7 DEF FollowsClaude

\* What apply_response writes for the last of the rows.
LEMMA ApplyIs ==
    ASSUME NEW rows \in Seq(LedgerRows), NEW entry \in LedgerRows, NEW l, LedgerRecord(l),
           l.models = ClaudeModels(rows)
    PROVE  LET new == rows \o <<entry>>
               m == ApplyResponse(l, new, Len(rows) + 1)
               total == l.total - Less(rows, entry) + entry.line.tok
           IN  /\ LedgerRecord(m) /\ m.through = Len(rows) + 1 /\ m.total = total
               /\ m.models = ClaudeModels(new)
               /\ m.claimed = l.claimed /\ m.modern = l.modern
               /\ m.days = IF PriorOf(rows, entry).day # entry.day THEN Cumulative(ClaudeModels(new))
                           ELSE Upsert(l.days, entry.day, total)
<1> DEFINE new == rows \o <<entry>>
           n == Len(rows)
           i == n + 1
           line == entry.line
           old == {j \in 1 .. (i - 1) : line.id # NoId /\ new[j].line.id = line.id}
           prior == IF old = {} THEN entry ELSE new[Max(old)]
           less == IF old = {} THEN 0 ELSE prior.line.tok
           moved == prior.day # entry.day \/ prior.line.model # line.model
           sub == IF old = {} THEN l.models
                  ELSE [l.models EXCEPT ![<<prior.day, prior.line.model>>] = @ - less]
           added == AddTo(sub, <<entry.day, line.model>>, line.tok)
           kept == {<<new[j].day, new[j].line.model>> : j \in LatestReceipts(SubSeq(new, 1, i))}
           models == IF moved THEN [k \in DOMAIN added \cap kept |-> added[k]] ELSE added
           total == l.total - less + line.tok
           m == [l EXCEPT !.exists = TRUE, !.through = i, !.last = line.id, !.total = total,
                          !.models = models,
                          !.days = IF prior.day # entry.day THEN Cumulative(models) ELSE Upsert(@, entry.day, total)]
<1>1. /\ new \in Seq(LedgerRows) /\ n \in Nat /\ Len(new) = n + 1 /\ DOMAIN rows = 1 .. n
      /\ new[n + 1] = entry /\ \A j \in 1 .. n : new[j] = rows[j]
      /\ DOMAIN new = 1 .. (n + 1)
  BY OneMore
<1>2. ApplyResponse(l, new, i) = m
  <2>1. new[i] = entry
    BY <1>1
  <2> HIDE DEF new, n, i
  <2> QED
    BY <2>1 DEF ApplyResponse
<1>3. SubSeq(new, 1, i) = new
  <2> HIDE DEF new
  <2> QED
    BY <1>1, SubSeqFull
<1>4. old = Older(rows, line)
  <2>1. i - 1 = n
    BY <1>1
  <2> HIDE DEF new, n, i
  <2> QED
    BY <1>1, <2>1 DEF Older, n
<1>5. Older(rows, line) # {} => Max(Older(rows, line)) \in 1 .. n
  BY KeysAre
<1>6. prior = PriorOf(rows, entry) /\ less = Less(rows, entry)
  <2> HIDE DEF new, n, i, old
  <2> QED
    BY <1>1, <1>4, <1>5 DEF PriorOf, Less
<1>7. kept = KeysOf(new)
  <2>1. kept = {<<new[j].day, new[j].line.model>> : j \in LatestReceipts(new)}
    BY <1>3
  <2>2. LatestReceipts(new) \in SUBSET DOMAIN new
    BY DEF LatestReceipts
  <2> HIDE DEF new, kept
  <2> QED
    BY <2>1, <2>2 DEF KeysOf, Keyed
<1>8. added = [k \in KeysOf(rows) \cup {KeyOf(entry)} |-> Weight(new, k)]
  <2>1. sub = IF Older(rows, entry.line) = {} THEN ClaudeModels(rows)
              ELSE [ClaudeModels(rows) EXCEPT ![KeyOf(PriorOf(rows, entry))] = @ - Less(rows, entry)]
    <3> HIDE DEF old, prior, less
    <3> QED
      BY <1>4, <1>6 DEF KeyOf
  <2>2. LET c == ClaudeModels(rows)
            s == IF Older(rows, entry.line) = {} THEN c
                 ELSE [c EXCEPT ![KeyOf(PriorOf(rows, entry))] = @ - Less(rows, entry)]
        IN  AddTo(s, KeyOf(entry), entry.line.tok) = [k \in KeysOf(rows) \cup {KeyOf(entry)} |-> Weight(rows \o <<entry>>, k)]
    BY ModelsGrow
  <2> HIDE DEF sub
  <2> QED
    BY <2>1, <2>2 DEF KeyOf
<1>9. /\ KeyOf(entry) \in KeysOf(new)
      /\ KeysOf(new) \subseteq KeysOf(rows) \cup {KeyOf(entry)}
      /\ \A k \in KeysOf(rows) : k \in KeysOf(new) \/ k = KeyOf(PriorOf(rows, entry))
  BY KeysGrow
<1>10. ~moved => KeyOf(PriorOf(rows, entry)) = KeyOf(entry)
  <2> HIDE DEF prior
  <2> QED
    BY <1>6 DEF KeyOf
<1> HIDE DEF new, added, kept, moved, prior, less, old, n, i
<1>11. models = ClaudeModels(new)
  <2>1. CASE moved
    <3>1. DOMAIN added \cap kept = KeysOf(new) /\ \A k \in KeysOf(new) : added[k] = Weight(new, k)
      BY <1>7, <1>8, <1>9
    <3> QED
      BY <2>1, <3>1 DEF ClaudeModels
  <2>2. CASE ~moved
    <3>1. KeysOf(rows) \cup {KeyOf(entry)} = KeysOf(new)
      BY <1>9, <1>10, <2>2
    <3> QED
      BY <1>8, <2>2, <3>1 DEF ClaudeModels
  <2> QED
    BY <2>1, <2>2
<1> HIDE DEF models
<1>12. total = l.total - Less(rows, entry) + entry.line.tok
  BY <1>6
<1> HIDE DEF total
<1>13. /\ LedgerRecord(m) /\ m.through = i /\ m.total = total /\ m.models = models
       /\ m.claimed = l.claimed /\ m.modern = l.modern
       /\ m.days = IF prior.day # entry.day THEN Cumulative(models) ELSE Upsert(l.days, entry.day, total)
  BY DEF LedgerRecord, LedgerFields
<1> HIDE DEF m
<1> QED
  BY <1>2, <1>6, <1>11, <1>12, <1>13 DEF new, i, n

\* Counting a receipt keeps up with them.
LEMMA ClaudeFollows ==
    ASSUME NEW rows \in Seq(LedgerRows), NEW entry \in LedgerRows, entry.line.k = "receipt", ~entry.inherited,
           \A i \in 1 .. Len(rows) : rows[i].day <= entry.day, NEW l, FollowsClaude(l, rows)
    PROVE  FollowsClaude(CountLine(l, rows \o <<entry>>, Len(rows) + 1), rows \o <<entry>>)
<1> DEFINE new == rows \o <<entry>>
           n == Len(rows)
           m == ApplyResponse(l, new, n + 1)
           total == l.total - Less(rows, entry) + entry.line.tok
<1>1. n \in Nat /\ Len(new) = n + 1 /\ new[n + 1] = entry
  BY OneMore
<1>2. /\ LedgerRecord(l) /\ l.models = ClaudeModels(rows) /\ l.days = Cumulative(ClaudeModels(rows))
      /\ l.total = ClaudeTotal(rows) /\ l.through \in 0 .. n /\ l.claimed = {} /\ (l.modern <=> FALSE)
  BY DEF FollowsClaude
<1>3. CountLine(l, new, n + 1) = m
  <2>1. ~(n + 1 <= l.through)
    BY <1>1, <1>2
  <2> HIDE DEF new, n
  <2> QED
    BY <1>1, <2>1 DEF CountLine
<1>4. /\ LedgerRecord(m) /\ m.through = n + 1 /\ m.total = total /\ m.models = ClaudeModels(new)
      /\ m.claimed = l.claimed /\ m.modern = l.modern
      /\ m.days = IF PriorOf(rows, entry).day # entry.day THEN Cumulative(ClaudeModels(new))
                  ELSE Upsert(l.days, entry.day, total)
  BY <1>2, ApplyIs
<1>5. total = ClaudeTotal(new)
  BY <1>2, TotalGrows
<1>6. PriorOf(rows, entry).day = entry.day => Upsert(l.days, entry.day, ClaudeTotal(new)) = Cumulative(ClaudeModels(new))
  BY <1>2, DaysGrow
<1> HIDE DEF new, n, m, total
<1>7. m.days = Cumulative(ClaudeModels(new))
  BY <1>4, <1>5, <1>6
<1>8. n + 1 \in 0 .. Len(new)
  BY <1>1
<1>9. FollowsClaude(m, new)
  BY <1>2, <1>4, <1>5, <1>7, <1>8 DEF FollowsClaude
<1> QED
  BY <1>3, <1>9 DEF new, n

-----------------------------------------------------------------------------
(* The ledger of a session: the invariant and its steps.                   *)

\* The committed rows are such as a transcript gives, and say what a repair
\* would; no row is of a day to come.
StoredRows ==
    /\ Shaped(rowsOf) /\ LineageOf(rowsOf) /\ ReplayKnows(rowsOf)
    /\ Len(rowsOf) <= MaxStored
    /\ \A i \in 1 .. Len(rowsOf) : rowsOf[i].day <= today

\* The row of a transaction under way: of a line that can come next, with the
\* context of the rows before it, and of no earlier day than theirs.
OpenRow(line, day) ==
    /\ inserted = <<Enriched(ctx, line, Len(rowsOf), day)>>
    /\ ctx # NoCtx /\ Len(rowsOf) < MaxStored /\ day <= today
    /\ \A i \in 1 .. Len(rowsOf) : rowsOf[i].day <= day
OpenTick ==
    /\ today \in 1 .. LastDay /\ lock \in {"free", "held"}
    /\ ctx = NoCtx \/ ctx = ContextAfter(rowsOf)[Len(rowsOf)]
    /\ inserted = <<>> \/ \E line \in LinesAfter(rowsOf), day \in 1 .. LastDay : OpenRow(line, day)

\* The usage rows hold what a recount of the committed rows would.
UsageOf(l, rows) ==
    /\ rows = <<>> => l = NoLedger
    /\ Codex(rows) => FollowsReplay(l, rows)
    /\ ~Codex(rows) => FollowsClaude(l, rows)

LedgerInv == StoredRows /\ OpenTick /\ UsageOf(ledger, rowsOf)

\* A session without rows.
LEMMA NothingStored == Shaped(<<>>) /\ LineageOf(<<>>) /\ ~Codex(<<>>)
<1>1. <<>> \in Seq(LedgerRows) /\ Len(<<>>) = 0 /\ ~Codex(<<>>)
  BY DEF Codex
<1>2. ContextAfter(<<>>)[0] = NewCtx
  <2>1. ContextAfter(<<>>)[0] = ContextStep(ContextAfter(<<>>), <<>>, 0)
    BY <1>1, ContextIs
  <2> QED
    BY <2>1 DEF ContextStep
<1>3. TurnAt(<<>>, 0) = NoId
  <2>1. OwnTurns(<<>>, 0) = {}
    BY DEF OwnTurns
  <2> QED
    BY <2>1 DEF TurnAt
<1> QED
  BY <1>1, <1>2, <1>3 DEF Shaped, LineageOf, NewCtx

\* The ledger's invariant holds of a session that has just begun.
LEMMA LedgerStarts == LedgerInit => LedgerInv
<1> SUFFICES ASSUME LedgerInit PROVE LedgerInv
  OBVIOUS
<1>1. rowsOf = <<>> /\ ledger = NoLedger /\ ctx = NoCtx /\ inserted = <<>> /\ today = 1 /\ lock = "free"
  BY DEF LedgerInit
<1>2. StoredRows
  <2>1. Len(<<>>) = 0 /\ 0 <= MaxStored
    BY LedgerAssumption
  <2> QED
    BY <1>1, <2>1, NothingStored, ReplayBegins DEF StoredRows
<1>3. OpenTick
  <2>1. 1 \in 1 .. LastDay
    BY LedgerAssumption
  <2> QED
    BY <1>1, <2>1 DEF OpenTick
<1>4. UsageOf(ledger, rowsOf)
  BY <1>1, NothingStored, ClaudeBegins DEF UsageOf
<1> QED
  BY <1>2, <1>3, <1>4 DEF LedgerInv

\* A rebuild writes what the invariant asks of the usage rows.
LEMMA RebuildsUsage ==
    ASSUME NEW rows, Shaped(rows), ReplayKnows(rows)
    PROVE  UsageOf(Rebuilt(rows), rows)
<1>1. rows \in Seq(LedgerRows)
  BY DEF Shaped
<1>2. CASE rows = <<>>
  <2>1. Rebuilt(rows) = NoLedger
    BY <1>2 DEF Rebuilt
  <2> QED
    BY <1>2, <2>1, NothingStored, ClaudeBegins DEF UsageOf
<1>3. CASE rows # <<>> /\ Codex(rows)
  BY <1>1, <1>3, RebuildFollows DEF UsageOf
<1>4. CASE rows # <<>> /\ ~Codex(rows)
  <2> DEFINE b == RebuildClaude(rows)
  <2>1. Rebuilt(rows) = b
    BY <1>4 DEF Rebuilt
  <2>2. /\ LedgerRecord(b) /\ (b.modern <=> FALSE) /\ b.claimed = {} /\ b.through = Len(rows)
        /\ b.total = ClaudeTotal(rows) /\ b.models = ClaudeModels(rows)
        /\ b.days = Cumulative(ClaudeModels(rows))
    BY ClaudeIs
  <2>3. Len(rows) \in 0 .. Len(rows)
    BY <1>1, LenProperties
  <2> HIDE DEF b
  <2>4. FollowsClaude(b, rows)
    BY <2>2, <2>3 DEF FollowsClaude
  <2> QED
    BY <1>4, <2>1, <2>4 DEF UsageOf
<1> QED
  BY <1>2, <1>3, <1>4

\* A row counted as it is committed gives what the invariant asks.
LEMMA CountingGoesOn ==
    ASSUME NEW rows, Shaped(rows), LineageOf(rows), ReplayKnows(rows), NEW l, UsageOf(l, rows),
           NEW line \in LinesAfter(rows), NEW day \in 1 .. LastDay,
           \A i \in 1 .. Len(rows) : rows[i].day <= day
    PROVE  LET entry == Enriched(ContextAfter(rows)[Len(rows)], line, Len(rows), day)
           IN  UsageOf(CountLine(l, rows \o <<entry>>, Len(rows) + 1), rows \o <<entry>>)
<1> DEFINE n == Len(rows)
           c == ContextAfter(rows)[n]
           entry == Enriched(c, line, n, day)
           new == rows \o <<entry>>
           m == CountLine(l, new, n + 1)
<1>1. /\ rows \in Seq(LedgerRows) /\ entry \in LedgerRows /\ entry.line = line /\ entry.day = day
      /\ (entry.inherited <=> IsInherited(c, line, n))
  BY NewRow, EnrichedIs DEF Shaped
<1>2. /\ n \in Nat /\ Len(new) = n + 1 /\ new[n + 1] = entry /\ new # <<>>
      /\ \A i \in 1 .. n : new[i] = rows[i]
  <2>1. /\ new \in Seq(LedgerRows) /\ n \in Nat /\ Len(new) = n + 1 /\ new[n + 1] = entry
        /\ \A i \in 1 .. n : new[i] = rows[i]
    BY <1>1, OneMore
  <2> QED
    BY <2>1, EmptySeq
<1>3. Shaped(new) /\ (rows # <<>> => (Codex(new) <=> Codex(rows)))
  BY <1>1, ShapeKept
<1>4. \A i \in 1 .. n : rows[i].day <= entry.day
  BY <1>1
<1>5. c.start = IF n = 0 THEN 0 ELSE StartOf(rows)
  <2>1. n \in 0 .. n
    BY <1>2
  <2>2. c = [start |-> IF n = 0 THEN 0 ELSE StartOf(rows), turn |-> TurnAt(rows, n)]
    BY <2>1 DEF LineageOf
  <2> HIDE DEF c
  <2> QED
    BY <2>2
<1> HIDE DEF entry, n, c
<1>6. CASE Codex(new)
  <2>1. FollowsReplay(l, rows)
    <3>1. CASE rows = <<>>
      <4>1. l = NoLedger
        BY <3>1 DEF UsageOf
      <4>2. FollowsReplay(NoLedger, <<>>)
        <5>1. /\ LedgerRecord(NoLedger) /\ NoLedger.total = 0 /\ NoLedger.models = <<>> /\ NoLedger.days = <<>>
              /\ NoLedger.claimed = {} /\ NoLedger.modern = FALSE /\ NoLedger.through = 0
          BY DEF NoLedger, LedgerRecord, LedgerFields
        <5>2. /\ NewReplay.total = 0 /\ NewReplay.models = <<>> /\ NewReplay.days = <<>> /\ NewReplay.claimed = {}
          BY DEF NewReplay
        <5>3. Len(<<>>) = 0 /\ 0 \in 0 .. 0
          OBVIOUS
        <5> QED
          BY <5>1, <5>2, <5>3, ReplayBegins DEF FollowsReplay
      <4> QED
        BY <3>1, <4>1, <4>2
    <3>2. CASE rows # <<>>
      BY <1>3, <1>6, <3>2 DEF UsageOf
    <3> QED
      BY <3>1, <3>2
  <2>2. entry.line.k # "receipt"
    <3>1. n + 1 \in 1 .. (n + 1) /\ (n + 1 = 1 \/ n + 1 \in 2 .. (n + 1))
      BY <1>2
    <3>2. new[n + 1].line \in Metas \cup Record
      BY <1>2, <1>3, <1>6, <3>1 DEF Shaped
    <3> QED
      BY <1>2, <3>2, LineKinds
  <2>3. FollowsReplay(m, new)
    BY <1>1, <2>1, <2>2, CodexFollows DEF n
  <2> QED
    BY <1>2, <1>6, <2>3 DEF UsageOf, entry, n, c
<1>7. CASE ~Codex(new)
  <2>1. ~Codex(rows)
    BY <1>3, <1>7, NothingStored
  <2>2. FollowsClaude(l, rows)
    BY <2>1 DEF UsageOf
  <2>3. entry.line.k = "receipt"
    <3>1. n + 1 \in 1 .. (n + 1)
      BY <1>2
    <3>2. new[n + 1].line \in Receipt
      BY <1>2, <1>3, <1>7, <3>1 DEF Shaped
    <3> QED
      BY <1>2, <3>2, LineKinds
  <2>4. ~entry.inherited
    <3>1. c.start = 0
      BY <1>5, <2>1 DEF StartOf
    <3>2. ~IsInherited(c, line, n)
      BY <1>1, <2>3, <3>1 DEF IsInherited
    <3> QED
      BY <1>1, <3>2
  <2>5. FollowsClaude(m, new)
    BY <1>1, <1>4, <2>2, <2>3, <2>4, ClaudeFollows DEF n
  <2> QED
    BY <1>2, <1>7, <2>5 DEF UsageOf, entry, n, c
<1> QED
  BY <1>6, <1>7

\* The transaction of a row commits: the row, the usage and the context.
LEMMA CommitKeeps == ASSUME LedgerInv, CommitRow PROVE LedgerInv'
<1> DEFINE n == Len(rowsOf)
<1>1. /\ Shaped(rowsOf) /\ LineageOf(rowsOf) /\ ReplayKnows(rowsOf) /\ UsageOf(ledger, rowsOf)
      /\ \A i \in 1 .. n : rowsOf[i].day <= today
      /\ today \in 1 .. LastDay /\ lock \in {"free", "held"}
  BY DEF LedgerInv, StoredRows, OpenTick
<1>2. PICK line \in LinesAfter(rowsOf), day \in 1 .. LastDay : OpenRow(line, day)
  BY DEF LedgerInv, OpenTick, CommitRow
<1> DEFINE c == ContextAfter(rowsOf)[n]
           entry == Enriched(c, line, n, day)
           new == rowsOf \o <<entry>>
<1>3. ctx = c /\ inserted = <<entry>> /\ n < MaxStored /\ day <= today /\ \A i \in 1 .. n : rowsOf[i].day <= day
  BY <1>2 DEF OpenRow, LedgerInv, OpenTick
<1>4. entry \in LedgerRows /\ entry.line = line /\ entry.day = day
  BY <1>1, NewRow, EnrichedIs
<1>5. /\ n \in Nat /\ Len(new) = n + 1 /\ new[n + 1] = entry
      /\ \A i \in 1 .. n : new[i] = rowsOf[i]
  BY <1>1, <1>4, OneMore DEF Shaped
<1>6. Shaped(new)
  BY <1>1, <1>4, ShapeKept
<1>7. LineageOf(new) /\ ContextAfter(new)[n + 1] = UpdateContext(c, line, n)
  BY <1>1, LineageGrows
<1>8. ReplayKnows(new)
  BY <1>1, <1>4, ReplayKeepsUp DEF Shaped
<1>9. UsageOf(CountLine(ledger, new, n + 1), new)
  BY <1>1, <1>3, CountingGoesOn
<1> HIDE DEF n, c, entry
<1>10. /\ rowsOf' = new /\ ledger' = CountLine(ledger, new, n + 1)
       /\ ctx' = UpdateContext(c, line, n) /\ inserted' = <<>> /\ today' = today /\ lock' = lock
  <2>1. rowsOf \o inserted = new /\ inserted[1].line = line
    BY <1>3, <1>4
  <2>2. Len(new) = n + 1 /\ Len(new) - 1 = n
    BY <1>5
  <2> HIDE DEF new
  <2> QED
    BY <1>3, <2>1, <2>2 DEF CommitRow
<1> HIDE DEF new
<1>11. StoredRows'
  <2>1. Len(new) <= MaxStored
    BY <1>3, <1>5, LedgerAssumption
  <2>2. \A i \in 1 .. Len(new) : new[i].day <= today
    BY <1>1, <1>3, <1>4, <1>5
  <2> QED
    BY <1>6, <1>7, <1>8, <1>10, <2>1, <2>2 DEF StoredRows
<1>12. OpenTick'
  BY <1>1, <1>5, <1>7, <1>10 DEF OpenTick
<1> QED
  BY <1>9, <1>10, <1>11, <1>12 DEF LedgerInv

\* The steps of a tick before its commit, and of the clock.
LEMMA TickKeeps ==
    ASSUME LedgerInv, BeginTickOf \/ EndTickOf \/ Midnight
    PROVE  LedgerInv'
<1>0. rowsOf' = rowsOf /\ ledger' = ledger /\ lock' = lock
  BY DEF BeginTickOf, EndTickOf, Midnight
<1>1. today \in 1 .. LastDay /\ LastDay \in Nat
  BY LedgerAssumption DEF LedgerInv, OpenTick
<1>2. today' \in 1 .. LastDay /\ today <= today'
  BY <1>1 DEF BeginTickOf, EndTickOf, Midnight
<1>3. StoredRows'
  <2>1. \A i \in 1 .. Len(rowsOf) : rowsOf[i].day <= today'
    <3> SUFFICES ASSUME NEW i \in 1 .. Len(rowsOf) PROVE rowsOf[i].day <= today'
      OBVIOUS
    <3>1. rowsOf[i] \in LedgerRows /\ rowsOf[i].day <= today
      BY ElementOfSeq DEF LedgerInv, StoredRows, Shaped
    <3>2. rowsOf[i].day \in Int
      BY <3>1 DEF LedgerRows
    <3> QED
      BY <1>1, <1>2, <3>1, <3>2
  <2> QED
    BY <1>0, <2>1 DEF LedgerInv, StoredRows
<1>4. OpenTick'
  <2>1. CASE BeginTickOf
    <3>1. ctx' = ContextAfter(rowsOf)[Len(rowsOf)] /\ inserted' = inserted
      BY <2>1, LoadIsRepair DEF BeginTickOf, LedgerInv, StoredRows
    <3>2. inserted = <<>>
      BY <2>1 DEF LedgerInv, OpenTick, OpenRow, BeginTickOf
    <3> QED
      BY <1>0, <1>2, <3>1, <3>2 DEF LedgerInv, OpenTick
  <2>2. CASE EndTickOf
    BY <1>0, <1>2, <2>2 DEF EndTickOf, LedgerInv, OpenTick
  <2>3. CASE Midnight
    <3>1. ctx' = ctx /\ inserted' = inserted
      BY <2>3 DEF Midnight
    <3>2. ASSUME NEW line \in LinesAfter(rowsOf), NEW day \in 1 .. LastDay, OpenRow(line, day)
          PROVE  OpenRow(line, day)'
      BY <1>0, <1>1, <1>2, <3>1, <3>2 DEF OpenRow
    <3> QED
      BY <1>0, <1>2, <3>1, <3>2 DEF LedgerInv, OpenTick
  <2> QED
    BY <2>1, <2>2, <2>3
<1> QED
  BY <1>0, <1>3, <1>4 DEF LedgerInv

\* A row goes in.
LEMMA InsertKeeps ==
    ASSUME LedgerInv, NEW line, InsertRow(line)
    PROVE  LedgerInv'
<1>0. rowsOf' = rowsOf /\ ledger' = ledger /\ ctx' = ctx /\ lock' = lock /\ today' = today
  BY DEF InsertRow
<1>1. line \in LinesAfter(rowsOf)
  BY DEF InsertRow, NextLines, LinesAfter, Metas
<1>2. today \in 1 .. LastDay /\ today <= today
  BY LedgerAssumption DEF LedgerInv, OpenTick
<1>3. OpenRow(line, today)'
  BY <1>0, <1>2 DEF InsertRow, OpenRow, LedgerInv, StoredRows
<1>4. StoredRows'
  BY <1>0 DEF LedgerInv, StoredRows
<1>5. OpenTick'
  BY <1>0, <1>1, <1>2, <1>3 DEF LedgerInv, OpenTick
<1> QED
  BY <1>0, <1>4, <1>5 DEF LedgerInv

\* A rebuild takes the usage tables, and writes them.
LEMMA RebuildSteps ==
    ASSUME LedgerInv, LockUsage \/ CommitRebuild
    PROVE  LedgerInv'
<1>0. rowsOf' = rowsOf /\ ctx' = ctx /\ inserted' = inserted /\ today' = today
  BY DEF LockUsage, CommitRebuild
<1>1. ledger' = ledger \/ ledger' = Rebuilt(rowsOf)
  BY DEF LockUsage, CommitRebuild
<1>2. lock' \in {"free", "held"}
  BY DEF LockUsage, CommitRebuild
<1>3. UsageOf(ledger', rowsOf)
  BY <1>1, RebuildsUsage DEF LedgerInv, StoredRows
<1>4. StoredRows'
  BY <1>0 DEF LedgerInv, StoredRows
<1>5. OpenTick'
  BY <1>0, <1>2 DEF LedgerInv, OpenTick, OpenRow
<1> QED
  BY <1>0, <1>3, <1>4, <1>5 DEF LedgerInv

\* Every step of the ingester, the clock and the rebuild keeps the invariant.
LEMMA LedgerKeeps == LedgerInv /\ [LedgerNext]_ledgerVars => LedgerInv'
<1> SUFFICES ASSUME LedgerInv, [LedgerNext]_ledgerVars PROVE LedgerInv'
  OBVIOUS
<1>1. CASE UNCHANGED ledgerVars
  BY <1>1 DEF ledgerVars, LedgerInv, StoredRows, OpenTick, OpenRow
<1>2. CASE LedgerNext
  <2>1. \/ BeginTickOf \/ EndTickOf \/ Midnight
        \/ \E line \in Receipt \cup Record \cup NextLines : InsertRow(line)
        \/ CommitRow
        \/ LockUsage \/ CommitRebuild
    BY <1>2 DEF LedgerNext
  <2> QED
    BY <2>1, TickKeeps, InsertKeeps, CommitKeeps, RebuildSteps
<1> QED
  BY <1>1, <1>2

\* What the invariant says of the usage, of the fork and of a repair.
LEMMA LedgerPromises ==
    ASSUME LedgerInv
    PROVE  CountedOnce /\ OwnLinesOnly /\ RepairChangesNothing
<1> DEFINE n == Len(rowsOf)
<1>1. /\ Shaped(rowsOf) /\ LineageOf(rowsOf) /\ ReplayKnows(rowsOf) /\ UsageOf(ledger, rowsOf)
  BY DEF LedgerInv, StoredRows
<1>2. rowsOf \in Seq(LedgerRows) /\ n \in Nat /\ DOMAIN rowsOf = 1 .. n /\ rowsOf = [i \in 1 .. n |-> rowsOf[i]]
  BY <1>1, LenProperties DEF Shaped
<1>3. CountedOnce
  <2> DEFINE b == Rebuilt(rowsOf)
  <2>1. UsageOf(b, rowsOf)
    BY <1>1, RebuildsUsage
  <2> HIDE DEF b
  <2>2. ledger.total = b.total /\ ledger.days = b.days /\ ledger.models = b.models /\ ledger.claimed = b.claimed
    <3>1. CASE Codex(rowsOf)
      BY <1>1, <2>1, <3>1 DEF UsageOf, FollowsReplay
    <3>2. CASE ~Codex(rowsOf)
      BY <1>1, <2>1, <3>2 DEF UsageOf, FollowsClaude
    <3> QED
      BY <3>1, <3>2
  <2> QED
    BY <2>2 DEF CountedOnce, b
<1>4. RepairChangesNothing
  <2>1. \A i \in 1 .. n : rowsOf[i] = Enriched(ContextAfter(rowsOf)[i - 1], rowsOf[i].line, i - 1, rowsOf[i].day)
    BY <1>1 DEF LineageOf
  <2> QED
    BY <1>2, <2>1 DEF RepairChangesNothing, Rederived
<1>5. OwnLinesOnly
  <2> SUFFICES ASSUME Codex(rowsOf), NEW i \in 1 .. n, i - 1 \in 1 .. (rowsOf[1].line.tok - 1)
               PROVE  rowsOf[i].inherited
    BY <1>2 DEF OwnLinesOnly
  <2> DEFINE c == ContextAfter(rowsOf)[i - 1]
  <2>0. rowsOf[1].line.tok \in Nat
    BY <1>1, LineKinds DEF Shaped
  <2>1. c.start = rowsOf[1].line.tok
    <3>1. i - 1 \in 0 .. n /\ i - 1 # 0
      BY <1>2
    <3>2. c = [start |-> IF i - 1 = 0 THEN 0 ELSE StartOf(rowsOf), turn |-> TurnAt(rowsOf, i - 1)]
      BY <1>1, <3>1 DEF LineageOf
    <3> HIDE DEF c
    <3> QED
      BY <3>1, <3>2 DEF StartOf
  <2>2. rowsOf[i].inherited <=> IsInherited(c, rowsOf[i].line, i - 1)
    <3>1. rowsOf[i] = Enriched(c, rowsOf[i].line, i - 1, rowsOf[i].day)
      BY <1>1 DEF LineageOf
    <3> HIDE DEF c
    <3> QED
      BY <3>1, EnrichedIs
  <2> HIDE DEF c
  <2>3. IsInherited(c, rowsOf[i].line, i - 1)
    BY <2>0, <2>1 DEF IsInherited
  <2> QED
    BY <2>2, <2>3
<1> QED
  BY <1>3, <1>4, <1>5

\* The ledger moves in its focus only.
LEMMA LedgerFocus ==
    ASSUME [Next]_pipelineVars
    PROVE  [LedgerNext]_ledgerVars
BY DEF Next, OthersRest, pipelineVars

\* The usage counted line by line is what a recount of all stored lines gives,
\* a fork pays for none of its parent's lines, and a repair of the lineage
\* changes no row: for transcripts, forks and calendars of any length, any tick
\* boundaries, and rebuilds at any moment (ingest/usage.rs, usage/records.rs,
\* usage/claude.rs, usage/rebuild.rs, ingester/codex_lineage.rs).
THEOREM LedgerIsExact == Spec => []LedgerExact
<1>1. Init => LedgerInv
  BY LedgerStarts DEF Init
<1>2. LedgerInv /\ [Next]_pipelineVars => LedgerInv'
  BY LedgerKeeps, LedgerFocus
<1>3. LedgerInv => LedgerExact
  BY LedgerPromises DEF LedgerExact
<1> QED
  BY <1>1, <1>2, <1>3, PTL DEF Spec
=============================================================================
