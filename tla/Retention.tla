------------------------------ MODULE Retention ------------------------------
(***************************************************************************)
(* Transcript retention as a whole: agents append to transcripts, the      *)
(* ingester and its projection worker follow them, the archive loop        *)
(* exports, purges and restores, operators ask for restores, and either    *)
(* process may die at any point.                                           *)
(***************************************************************************)
EXTENDS IngestWorker, ArchiveLoop

CONSTANTS
    MaxCrashes,     \* bound: process deaths, of either process
    MaxCycles,      \* bound: archive cycles
    MaxAsks         \* bound: restore requests made by operators

ASSUME RetentionAssumption == {MaxCrashes, MaxCycles, MaxAsks} \subseteq Nat

VARIABLES crashes, cycles, asks

boundVars == <<crashes, cycles, asks>>
workerVars == <<nodeVars, missed>>
vars == <<dbVars, requestVars, faults, workerVars, loop, boundVars>>

Init ==
    /\ InitStore
    /\ InitWorker
    /\ InitLoop
    /\ crashes = 0 /\ cycles = 0 /\ asks = 0

\* The agent completes a line of its transcript.
AppendLine(s) ==
    /\ file[s] < MaxLines
    /\ file' = [file EXCEPT ![s] = @ + 1]
    /\ UNCHANGED <<offset, events, purged, archiveVars, usageVars, timelineVars,
                   requestVars, faults, exposed, workerVars, loop, boundVars>>

\* SULION_ARCHIVE_PURGE_AFTER_DAYS (90 by default) go by.  No statement that
\* was in flight when the export was recorded is still in flight by then.
GracePasses(s) ==
    /\ archived[s] # {}
    /\ ~aged[s]
    /\ s \notin {ing.s, prj.s, loop.s}
    /\ aged' = [aged EXCEPT ![s] = TRUE]
    /\ UNCHANGED <<file, offset, events, purged, archived, object, usageVars, timelineVars,
                   requestVars, faults, exposed, workerVars, loop, boundVars>>

\* enqueue_restore from the CLI or the admin API.
AskRestore(r) ==
    /\ asks < MaxAsks
    /\ asks' = asks + 1
    /\ pending' = Append(pending, r)
    /\ UNCHANGED <<file, offset, events, purged, archiveVars, usageVars, timelineVars,
                   running, faults, exposed, workerVars, loop, crashes, cycles>>

BeginCycle ==
    /\ cycles < MaxCycles
    /\ cycles' = cycles + 1
    /\ StartCycle
    /\ UNCHANGED <<workerVars, crashes, asks>>

Worker(step) == step /\ UNCHANGED <<loop, boundVars>>

Control(step) == step /\ UNCHANGED <<workerVars, boundVars>>

Die(crash, others) ==
    /\ crashes < MaxCrashes
    /\ crashes' = crashes + 1
    /\ crash
    /\ UNCHANGED <<others, cycles, asks>>

Next ==
    \/ \E s \in Session : AppendLine(s) \/ GracePasses(s)
    \/ \E r \in Request : AskRestore(r)
    \/ BeginCycle
    \/ Worker(IngestStep) \/ Worker(IngestFault)
    \/ Worker(ProjectionStep) \/ Worker(ProjectionFault)
    \/ Control(RequestStep) \/ Control(RestoreStep) \/ Control(CycleStep) \/ Control(LoopFault)
    \/ Die(NodeCrash, <<loop>>)
    \/ Die(ControlCrash, workerVars)

\* Both loops of the ingester and the archive loop run forever: a tick visits
\* every dirty file, a queued projection is served, and a request or a cycle
\* in progress is carried on.
Fairness ==
    /\ WF_vars(Worker(IngestStep))
    /\ \A s \in Session : SF_vars(Worker(ScanFile(s)))
    /\ WF_vars(Worker(ProjectionStep))
    /\ WF_vars(Control(RequestStep \/ RestoreStep \/ CycleStep))

Spec == Init /\ [][Next]_vars /\ Fairness

-----------------------------------------------------------------------------
(* Properties                                                              *)

\* Every variable stays in its set and every worker names a session exactly while it serves one.
TypeOK ==
    /\ StoreType
    /\ WorkerType
    /\ LoopType
    /\ crashes \in 0 .. MaxCrashes
    /\ cycles \in 0 .. MaxCycles
    /\ asks \in 0 .. MaxAsks

\* The archive loop has cleared the session and not yet replayed all of it.
Replaying(s) == loop.pc = "replay" /\ loop.s = s

\* The lines the ingester has passed in this session, but those whose insert
\* was refused.
Passed(s) == (1 .. offset[s]) \ missed[s]

\* Neither the purge nor a cut restore caught the session unguarded.
Guarded(s) == exposed[s] \subseteq {"unbuilt"}

\* Nothing the ingester has passed is ever out of reach: it is in `events`,
\* or, for a session that is purged or being replayed, in the verified
\* object, from which the session can be restored.  The exceptions are the
\* sessions caught in one of two unguarded windows; no other step of
\* either process, refused statement or crash makes one.
NothingLost ==
    \A s \in Session : Guarded(s) =>
        /\ Passed(s) \subseteq events[s] \cup (IF purged[s] \/ Replaying(s) THEN object[s] ELSE {})
        /\ purged[s] => Restorable(s)

\* The lines the ingester is known to have walked, committed or not.
Walked(s) == IF ing.pc = "insert" /\ ing.s = s THEN ing.next ELSE offset[s]
Had(s) == (1 .. Walked(s)) \ missed[s]

\* Where a tick and the archive loop stand against the store.
IngestPlace ==
    /\ ing.pc = "check" => ing.next = offset[ing.s]
    /\ ing.pc = "insert" => offset[ing.s] <= ing.next

LoopPlace ==
    LET s == loop.s
    IN /\ loop.pc \in {"dump", "export", "put", "mark"} => \A t \in loop.todo : ~purged[t]
       /\ loop.pc = "withdraw" => /\ purged[s]
                                  /\ loop.lines = object[s] /\ object[s] = archived[s]
       /\ loop.pc = "replay" => ~purged[s]
       /\ loop.pc \in {"put", "mark"} =>
             /\ ~purged[s]
             /\ Guarded(s) => archived[s] \subseteq loop.lines /\ loop.lines \subseteq events[s]
       /\ loop.pc = "mark" => object[s] = loop.lines

\* The three states of a session: its rows are gone and the object has them
\* all; a replay is bringing them back; or every row is there, and what was
\* exported is a part of what was uploaded, which is a part of the rows.
KeptInObject(s) ==
    /\ events[s] = {}
    /\ archived[s] # {}
    /\ object[s] = archived[s]
    /\ Had(s) \subseteq archived[s]

KeptByReplay(s) ==
    /\ object[s] = archived[s]
    /\ loop.lines \subseteq archived[s]
    /\ archived[s] \subseteq events[s] \cup loop.lines
    /\ Had(s) \subseteq events[s] \cup loop.lines

KeptInRows(s) ==
    /\ archived[s] \subseteq object[s]
    /\ object[s] \subseteq events[s]
    /\ Had(s) \subseteq events[s]

Kept(s) ==
    /\ purged[s] => KeptInObject(s)
    /\ Replaying(s) => KeptByReplay(s)
    /\ ~purged[s] /\ ~Replaying(s) => KeptInRows(s)

\* The inductive form of NothingLost.  A purge compares only counts
\* (archive_events against COUNT(*)); they agree exactly when the object has
\* every row because, between the two processes, the exported lines always
\* stay a part of the rows.
Accounted ==
    /\ IngestPlace
    /\ LoopPlace
    /\ \A s \in Session : Guarded(s) => Kept(s)

\* A purged session's digest was reduced from exactly the lines its object
\* holds: purge_session's "timeline cursor lags" check is enough, although
\* rows can be inserted behind the cursor while a restore replays them.
\* (A tick or a restore that ended before it asked for its rebuild is excluded.)
DigestComplete ==
    \A s \in Session : purged[s] /\ exposed[s] = {} => turns[s] = archived[s]

\* A line's usage is in the rollup or in the live rows, never in both: the
\* contributions on record are those of a purged session and cover exactly
\* its archived lines, however often it was restored and purged again.
UsageCountedOnce ==
    \A s \in Session : Guarded(s) => contrib[s] = IF purged[s] THEN archived[s] ELSE {}

\* usage_rollup_contributions: the rows of every session.
Contributions == UNION {{s} \X contrib[s] : s \in Session}

\* usage_daily_rollup holds exactly what the contributions on record add up
\* to, so the GREATEST(.., 0) of a restore never has to bite, however often a
\* session is purged and restored (docs/adrs/0003, "subtracts exactly what was
\* added").
RollupExact == rollup = Cardinality(Contributions)

\* "Transcript rows are deleted only after a verified export ... in the bucket
\* with a matching hash" (docs/architecture.md, invariant 8): a step that
\* removes rows finds them in the object, and the object under its hash.
DeletesOnlyExported ==
    [][\A s \in Session : Guarded(s) /\ ~(events[s] \subseteq events'[s]) =>
          events[s] \subseteq object[s] /\ object[s] = archived[s]]_vars

\* Every line of a transcript is passed in the end, also one appended to a
\* purged session: the restore is requested, runs, and lets the ingester on.
EveryLineIngested ==
    \A s \in Session : \A n \in Line : file[s] >= n ~> offset[s] >= n

\* While no process dies, a row, once inserted, reaches the timeline or leaves
\* with a purge, unless it was inserted into a session already purged.
ProjectedUnlessCrashed ==
    \A s \in Session : \A n \in Line :
        n \in events[s] ~> \/ n \in turns[s] \/ n \notin events[s]
                           \/ "raced" \in exposed[s] \/ crashes > 0

\* After the last restart the rows past the cursor of every session that
\* recover_projections can see reach the timeline, whatever the ingester and
\* the archive loop do to the session meanwhile.
OwedIsProjected ==
    \A s \in Session : \A n \in Line :
        crashes = MaxCrashes /\ prj.pc = "recover" /\ s \in Owed /\ n \in events[s] /\ n > through[s]
            ~> n \in turns[s] \/ n \notin events[s] \/ exposed[s] # {}

\* An inserted row reaches the timeline or leaves with a purge: while no process
\* dies (ProjectedUnlessCrashed), and after the last restart for the sessions
\* recovery finds (OwedIsProjected).
RowsReachTheTimeline == ProjectedUnlessCrashed /\ OwedIsProjected

-----------------------------------------------------------------------------
(* What the documentation says without the exceptions above.               *)

\* "Purged sessions are permanently smaller in the database and complete in
\* S3" (docs/adrs/0003-tiered-transcript-retention.md:111), for sessions the
\* ingester did not race.
PurgedCompleteInStore ==
    \A s \in Session : purged[s] /\ "raced" \notin exposed[s] => Passed(s) \subseteq object[s]

\* recover_projections queues the sessions "a previous process inserted events
\* for but did not project" (ingester.rs:360): every row inserted reaches the
\* timeline or leaves with a purge, crash or not.
InsertedIsProjected ==
    \A s \in Session : \A n \in Line :
        n \in events[s] ~> n \in turns[s] \/ n \notin events[s] \/ "raced" \in exposed[s]
=============================================================================
