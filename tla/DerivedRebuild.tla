--------------------------- MODULE DerivedRebuild ---------------------------
(***************************************************************************)
(* Rebuilding the derived tables of one session: the startup maintenance   *)
(* behind its version gates (ingest/maintenance.rs, canonical_backfill.rs, *)
(* jobs.rs), the administrator's reindex (ingest/reset.rs), the live       *)
(* projection worker and the archive's purge, each in transactions of its  *)
(* own.  An event row is "old" (an earlier parser wrote its fields),       *)
(* "blank" (the reindex cleared them) or "done".  A turn row remembers     *)
(* which of these it was reduced from.                                     *)
(***************************************************************************)
EXTENDS Integers, FiniteSets

CONSTANTS
    NEvents,     \* events of the session
    MaxReindex,  \* bound: reindex requests
    MaxStop      \* bound: failed repairs and restarts of the process

ASSUME RebuildAssumption == NEvents \in Nat

VARIABLES
    canon,      \* event -> "old", "blank", "done", or "gone" once purged
    timeline,   \* [current: projection_version = REDUCER_VERSION, rows: event -> quality reduced from]
    gate,       \* ingest_projection_versions: the names whose version is current
    jobs,       \* job name -> status of its latest row
    purged,     \* claude_sessions.purged_at is set
    worker,     \* the projection worker: "idle" or past its purged check
    archiver,   \* the archive loop: "idle" or past its gate check
    maint,      \* startup maintenance: its position
    reindex,    \* the reindex request: its position
    reindexes, stops

rebuildVars == <<canon, timeline, gate, jobs, purged, worker, archiver, maint, reindex, reindexes, stops>>

Gates == {"canonical_blocks", "usage_projection", "timeline_projection"}
Jobs == {"canonical_backfill", "usage_backfill", "timeline_backfill", "reindex"}

\* An upgraded binary starts over a database an earlier one wrote.
RebuildInit ==
    /\ canon = [i \in 1..NEvents |-> "old"]
    /\ timeline = [current |-> TRUE, rows |-> <<>>]
    /\ gate = {}
    /\ jobs = [j \in Jobs |-> "none"]
    /\ purged = FALSE
    /\ worker = "idle" /\ archiver = "idle"
    /\ maint = "canonical" /\ reindex = "idle"
    /\ reindexes = 0 /\ stops = 0

\* jobs::start interrupts a row still running under the name, then inserts one.
StartJob(name) == [jobs EXCEPT ![name] = "running"]
FinishJob(name, status) == [jobs EXCEPT ![name] = status]

-----------------------------------------------------------------------------
(* The projection of the session. *)

Through == Cardinality(DOMAIN timeline.rows)
\* Mutant: the events are counted as they were before a purge.
RetainedSeen == NEvents

Retained == IF purged THEN 0 ELSE NEvents

\* project_batch: a version behind clears the turn rows first; then the events
\* after the cursor are reduced from what their rows hold now.
Projected ==
    LET from == IF timeline.current THEN timeline.rows ELSE <<>>
        n    == Cardinality(DOMAIN from)
    IN  [current |-> TRUE,
         rows |-> [i \in 1..(IF n > Retained THEN n ELSE Retained) |->
                      IF i \in DOMAIN from THEN from[i] ELSE canon[i]]]

\* The worker looks at purged_at before the batch's transaction.
WorkerChecks ==
    /\ worker = "idle" /\ ~purged
    /\ worker' = "checked"
    /\ UNCHANGED <<canon, timeline, gate, jobs, purged, archiver, maint, reindex, reindexes, stops>>

WorkerProjects ==
    /\ worker = "checked"
    /\ timeline' = Projected
    /\ worker' = "idle"
    /\ UNCHANGED <<canon, gate, jobs, purged, archiver, maint, reindex, reindexes, stops>>

-----------------------------------------------------------------------------
(* Startup maintenance: canonical blocks, then usage, then the timeline.    *)

\* One event row is rewritten in its transaction.
Rewritten(c, from) == \E i \in 1..NEvents :
    /\ canon[i] \in from
    /\ \A j \in 1..(i - 1) : canon[j] \notin from
    /\ c = [canon EXCEPT ![i] = "done"]

RepairCanonical ==
    /\ maint = "canonical"
    /\ \/ /\ Rewritten(canon', {"old", "blank"})
          /\ jobs' = StartJob("canonical_backfill")
          /\ UNCHANGED <<gate, maint>>
       \/ /\ \A i \in 1..NEvents : canon[i] \notin {"old", "blank"}
          /\ gate' = gate \cup {"canonical_blocks"}
          /\ jobs' = FinishJob("canonical_backfill", "completed")
          /\ maint' = "usage"
          /\ UNCHANGED canon
    /\ UNCHANGED <<timeline, purged, worker, archiver, reindex, reindexes, stops>>

\* A row that cannot be rewritten holds the gate, and the repairs that depend
\* on it, until the next start.
RepairFails ==
    /\ maint \in {"canonical", "usage", "mark", "project"}
    /\ stops < MaxStop
    /\ jobs' = FinishJob(CASE maint = "canonical" -> "canonical_backfill"
                           [] maint = "usage" -> "usage_backfill"
                           [] OTHER -> "timeline_backfill", "failed")
    /\ maint' = "failed"
    /\ stops' = stops + 1
    /\ UNCHANGED <<canon, timeline, gate, purged, worker, archiver, reindex, reindexes>>

RepairUsage ==
    /\ maint = "usage"
    /\ gate' = gate \cup {"usage_projection"}
    /\ jobs' = FinishJob("usage_backfill", "completed")
    /\ maint' = "mark"
    /\ UNCHANGED <<canon, timeline, purged, worker, archiver, reindex, reindexes, stops>>

\* Mutant: the sessions are caught up and not marked.
MarkForRebuildNot ==
    /\ maint = "mark"
    /\ jobs' = StartJob("timeline_backfill")
    /\ maint' = "project"
    /\ UNCHANGED <<canon, timeline, gate, purged, worker, archiver, reindex, reindexes, stops>>

\* Every retained session is marked up front, so the live worker rebuilds it
\* if it reaches it first.
MarkForRebuild ==
    /\ maint = "mark"
    /\ timeline' = IF purged THEN timeline ELSE [timeline EXCEPT !.current = FALSE]
    /\ jobs' = StartJob("timeline_backfill")
    /\ maint' = "project"
    /\ UNCHANGED <<canon, gate, purged, worker, archiver, reindex, reindexes, stops>>

RepairTimeline ==
    /\ maint = "project"
    /\ timeline' = IF purged THEN timeline ELSE Projected
    /\ gate' = gate \cup {"timeline_projection"}
    /\ jobs' = FinishJob("timeline_backfill", "completed")
    /\ maint' = "done"
    /\ UNCHANGED <<canon, purged, worker, archiver, reindex, reindexes, stops>>

\* Where a start resumes: the first gate that is behind, in the order of
\* run_required_startup_maintenance.
FirstBehind ==
    IF "canonical_blocks" \notin gate THEN "canonical"
    ELSE IF "usage_projection" \notin gate THEN "usage"
    ELSE IF "timeline_projection" \notin gate THEN "mark"
    ELSE "done"

\* The process stops and starts again: every position is lost, a running job
\* row stays until a job of its name starts again.
RestartProcess ==
    /\ maint = "failed" \/ stops < MaxStop
    /\ stops' = IF maint = "failed" THEN stops ELSE stops + 1
    /\ maint' = FirstBehind
    /\ worker' = "idle" /\ archiver' = "idle" /\ reindex' = "idle"
    /\ UNCHANGED <<canon, timeline, gate, jobs, purged, reindexes>>

-----------------------------------------------------------------------------
(* The reindex request (api/admin_routes.rs). *)

\* The first transaction clears turns, blocks and canonical fields.
ReindexClears ==
    /\ reindex = "idle" /\ reindexes < MaxReindex
    /\ ~purged      \* the session is listed because it has events
    /\ timeline' = [current |-> FALSE, rows |-> <<>>]
    /\ canon' = [i \in 1..NEvents |-> "blank"]
    /\ reindex' = "canonical"
    /\ reindexes' = reindexes + 1
    /\ jobs' = StartJob("reindex")
    /\ UNCHANGED <<gate, purged, worker, archiver, maint, stops>>

ReindexCanonical ==
    /\ reindex = "canonical"
    /\ \/ Rewritten(canon', {"old", "blank"}) /\ UNCHANGED reindex
       \/ /\ \A i \in 1..NEvents : canon[i] \notin {"old", "blank"}
          /\ reindex' = "check"
          /\ UNCHANGED canon
    /\ UNCHANGED <<timeline, gate, jobs, purged, worker, archiver, maint, reindexes, stops>>

\* rebuild_session_projection: the purged check, request_rebuild, then the batch.
ReindexChecks ==
    /\ reindex = "check"
    /\ reindex' = IF purged THEN "gates" ELSE "request"
    /\ UNCHANGED <<canon, timeline, gate, jobs, purged, worker, archiver, maint, reindexes, stops>>

ReindexRequests ==
    /\ reindex = "request"
    /\ timeline' = [timeline EXCEPT !.current = FALSE]
    /\ reindex' = "project"
    /\ UNCHANGED <<canon, gate, jobs, purged, worker, archiver, maint, reindexes, stops>>

ReindexProjects ==
    /\ reindex = "project"
    /\ timeline' = IF purged THEN timeline ELSE Projected
    /\ reindex' = "gates"
    /\ UNCHANGED <<canon, gate, jobs, purged, worker, archiver, maint, reindexes, stops>>

\* Usage is rebuilt, then the three versions are set one by one.
ReindexMarks ==
    /\ reindex = "gates"
    /\ gate' = Gates
    /\ jobs' = FinishJob("reindex", "completed")
    /\ reindex' = "idle"
    /\ UNCHANGED <<canon, timeline, purged, worker, archiver, maint, reindexes, stops>>

\* A rewrite or a query fails: the request reports it, nothing is undone.
ReindexFails ==
    /\ reindex \notin {"idle", "check"} /\ stops < MaxStop
    /\ jobs' = FinishJob("reindex", "failed")
    /\ reindex' = "idle"
    /\ stops' = stops + 1
    /\ UNCHANGED <<canon, timeline, gate, purged, worker, archiver, maint, reindexes>>

-----------------------------------------------------------------------------
(* The purge (archive/purge.rs). *)

\* projections_behind is read before the purge's transaction.
PurgeChecksGates ==
    /\ archiver = "idle" /\ ~purged
    /\ gate = Gates
    /\ archiver' = "gated"
    /\ UNCHANGED <<canon, timeline, gate, jobs, purged, worker, maint, reindex, reindexes, stops>>

\* session_projection_current, then the digest is frozen and the events go.
PurgeFreezes ==
    /\ archiver = "gated"
    /\ archiver' = "idle"
    /\ IF timeline.current /\ Through >= NEvents
       THEN purged' = TRUE /\ canon' = [i \in 1..NEvents |-> "gone"]
       ELSE UNCHANGED <<purged, canon>>
    /\ UNCHANGED <<timeline, gate, jobs, worker, maint, reindex, reindexes, stops>>

-----------------------------------------------------------------------------
Maintain == RepairCanonical \/ RepairUsage \/ MarkForRebuild \/ RepairTimeline

ReindexStep ==
    ReindexClears \/ ReindexCanonical \/ ReindexChecks \/ ReindexRequests \/ ReindexProjects
      \/ ReindexMarks \/ ReindexFails

RebuildNext ==
    \/ WorkerChecks \/ WorkerProjects
    \/ Maintain \/ RepairFails \/ RestartProcess
    \/ ReindexStep
    \/ PurgeChecksGates \/ PurgeFreezes

RebuildFairness ==
    /\ WF_rebuildVars(Maintain)
    /\ WF_rebuildVars(maint = "failed" /\ RestartProcess)

-----------------------------------------------------------------------------
RebuildTypeOK ==
    /\ canon \in [1..NEvents -> {"old", "blank", "done", "gone"}]
    /\ timeline.current \in BOOLEAN
    /\ DOMAIN timeline.rows \subseteq 1..NEvents
    /\ \A i \in DOMAIN timeline.rows : timeline.rows[i] \in {"old", "blank", "done"}
    /\ gate \subseteq Gates
    /\ jobs \in [Jobs -> {"none", "running", "completed", "failed"}]
    /\ purged \in BOOLEAN
    /\ worker \in {"idle", "checked"} /\ archiver \in {"idle", "gated"}
    /\ maint \in {"canonical", "usage", "mark", "project", "done", "failed"}
    /\ reindex \in {"idle", "canonical", "check", "request", "project", "gates"}

Repaired == \A i \in DOMAIN timeline.rows : timeline.rows[i] = "done"

\* A timeline version gate that the startup repair opened means that no turn
\* row was reduced from unrepaired events, whatever the live worker committed
\* meanwhile and wherever an earlier start stopped (maintenance.rs).
GateMeansRepaired == ("timeline_projection" \in gate /\ reindexes = 0) => Repaired

\* Without a reindex, the rows a purge froze stay, complete and reduced from
\* repaired events: it waits for the gates (purge_session, projections_behind).
DigestFrozenRepaired ==
    (purged /\ reindexes = 0) => Repaired /\ DOMAIN timeline.rows = 1..NEvents

\* The same with reindexes: the digest, the only record a purged session has
\* left, is never deleted ("Every write entry point checks this first, because
\* projecting from zero events would delete the digest", write.rs).
DigestKept == purged => DOMAIN timeline.rows = 1..NEvents

\* However often a repair fails or the process stops, the gates open in the end.
GatesOpen == <>(gate = Gates)
=============================================================================
