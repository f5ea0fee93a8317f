---------------------------- MODULE SessionStore ----------------------------
(***************************************************************************)
(* The database and the object store that the transcript ingester, the     *)
(* projection worker and the archive loop share, and the transactions they *)
(* run on it.  The three run in two processes (the ingester on the node,   *)
(* the archive loop in control) and meet only here.                        *)
(*                                                                         *)
(* A transcript is a number of complete lines; the row of line n in        *)
(* `events` is n.  TranscriptTail shows that the byte-level reader behaves *)
(* like this for an append-only file.  The lines a session's archive       *)
(* object, its recorded hash, its timeline and its rollup contribution     *)
(* stand for are sets of line numbers.                                     *)
(***************************************************************************)
EXTENDS Naturals, Sequences, FiniteSets

CONSTANTS
    Session,        \* agent sessions
    MaxLines,       \* bound: lines per transcript
    BatchEvents,    \* BATCH_EVENTS: events one projection batch applies
    MaxFaults,      \* bound: statements and uploads that are refused
    NoSession       \* no session: an idle worker's

ASSUME StoreAssumption ==
    /\ IsFiniteSet(Session)
    /\ MaxLines \in Nat
    /\ BatchEvents \in Nat \ {0}
    /\ MaxFaults \in Nat
    /\ NoSession \notin Session
    /\ "all" \notin Session

Line == 1 .. MaxLines

VARIABLES
    file,       \* [Session -> Nat] complete lines in the transcript file
    offset,     \* ingester_state.last_committed_byte_offset, in lines
    events,     \* rows of `events`, with their blocks and usage rows
    purged,     \* claude_sessions.purged_at IS NOT NULL
    archived,   \* the lines archive_sha256 and archive_events were taken from
    aged,       \* archived_at is older than the purge grace
    object,     \* the lines in the object under archive_key
    contrib,    \* usage_rollup_contributions of the session
    rollup,     \* usage_daily_rollup: one token for each line counted
    turns,      \* the lines timeline_turns was reduced from (a purged session's digest)
    through,    \* timeline_session_state.projected_through
    version,    \* timeline_session_state.projection_version against REDUCER_VERSION
    pending,    \* archive_requests waiting, oldest first
    running,    \* archive_requests marked running, the loop's own last
    faults,     \* refused statements and uploads so far
    exposed     \* history: the unguarded windows the session was caught in

archiveVars == <<archived, aged, object>>
usageVars == <<contrib, rollup>>
timelineVars == <<turns, through, version>>
requestVars == <<pending, running>>

\* The rows and objects; with the history of the windows.
rowVars == <<file, offset, events, purged, archiveVars, usageVars, timelineVars>>
dbVars == <<rowVars, exposed>>

Versions == {"absent", "stale", "current"}

\* "raced": a row was inserted after the purge the ingester had not seen yet;
\* "cut": a restore ended between clearing the session and its last line;
\* "unbuilt": rows went in, and the rebuild of the timeline they may call for
\* was never asked for.
Windows == {"raced", "cut", "unbuilt"}

Expose(s, window) == exposed' = [exposed EXCEPT ![s] = @ \cup {window}]

InitStore ==
    /\ file = [s \in Session |-> 0]
    /\ offset = [s \in Session |-> 0]
    /\ events = [s \in Session |-> {}]
    /\ purged = [s \in Session |-> FALSE]
    /\ archived = [s \in Session |-> {}]
    /\ aged = [s \in Session |-> FALSE]
    /\ object = [s \in Session |-> {}]
    /\ contrib = [s \in Session |-> {}]
    /\ rollup = 0
    /\ turns = [s \in Session |-> {}]
    /\ through = [s \in Session |-> 0]
    /\ version = [s \in Session |-> "absent"]
    /\ pending = <<>>
    /\ running = <<>>
    /\ faults = 0
    /\ exposed = [s \in Session |-> {}]

\* A restore scope is one session, or all purged ones; `again` asks for a
\* purge after the replay.
Request == [scope : Session \cup {"all"}, again : BOOLEAN]

\* The database, or the object store, refuses an operation.
Fault == faults < MaxFaults /\ faults' = faults + 1

-----------------------------------------------------------------------------
(* Transactions of the ingester.                                           *)

\* insert_event: one transaction per line, ON CONFLICT DO NOTHING.  The row
\* lock it takes on the session only waits for a purge, it does not look at
\* purged_at.
InsertEvent(s, n) ==
    /\ events' = [events EXCEPT ![s] = @ \cup {n}]
    /\ exposed' = [exposed EXCEPT ![s] =
                      IF purged[s] /\ n \notin events[s] THEN @ \cup {"raced"} ELSE @]

\* request_rebuild: an UPDATE, so a session without a state row has none to mark.
Marked(s) == IF version[s] = "absent" THEN "absent" ELSE "stale"

RequestRebuild(s) == version' = [version EXCEPT ![s] = Marked(s)]

-----------------------------------------------------------------------------
(* The projection batch, shared by the worker and by restores.             *)

\* The first `budget` events after the cursor.
NextEvents(s, cursor) ==
    LET later == {n \in events[s] : n > cursor}
    IN {n \in later : Cardinality({m \in later : m < n}) < BatchEvents}

Last(S) == CHOOSE n \in S : \A m \in S : m <= n

\* A session below the reducer version is emptied and starts over.
BatchCursor(s) == IF version[s] = "current" THEN through[s] ELSE 0
BatchBase(s) == IF version[s] = "current" THEN turns[s] ELSE {}
BatchLoaded(s) == NextEvents(s, BatchCursor(s))

\* More events were waiting when the batch closed.
BatchMore(s) == Cardinality(BatchLoaded(s)) >= BatchEvents

ProjectBatch(s) ==
    /\ turns' = [turns EXCEPT ![s] = BatchBase(s) \cup BatchLoaded(s)]
    /\ through' = [through EXCEPT ![s] =
                      IF BatchLoaded(s) = {} THEN BatchCursor(s) ELSE Last(BatchLoaded(s))]
    /\ version' = [version EXCEPT ![s] = "current"]

-----------------------------------------------------------------------------
(* Transactions of the archive loop.                                       *)

\* archive_events against COUNT(*): the only test of "unchanged since export".
CountMatches(s) == Cardinality(archived[s]) = Cardinality(events[s])

\* eligible_sessions: with rows, and never exported or grown since.
NeedsExport(s) ==
    /\ ~purged[s]
    /\ events[s] # {}
    /\ archived[s] = {} \/ ~CountMatches(s)

\* purge_candidates, and lock_and_check under the session row's lock.
PurgeCandidate(s) == ~purged[s] /\ archived[s] # {} /\ CountMatches(s)

\* session_projection_current
ProjectionCurrent(s) ==
    \/ events[s] = {}
    \/ version[s] = "current" /\ \A n \in events[s] : n <= through[s]

\* Mutant of PurgeAllowed: the timeline is not asked whether it caught up.
PurgeAllowedBehind(s) == PurgeCandidate(s)

PurgeAllowed(s) == PurgeCandidate(s) /\ ProjectionCurrent(s)

\* purge_session: the usage rows become contributions, all the session's
\* contributions are added to the rollup, the turns become the digest, the rows go, purged_at is set.
PurgeSession(s) ==
    /\ contrib' = [contrib EXCEPT ![s] = @ \cup events[s]]
    /\ rollup' = rollup + Cardinality(contrib[s] \cup events[s])
    /\ events' = [events EXCEPT ![s] = {}]
    /\ purged' = [purged EXCEPT ![s] = TRUE]
    /\ UNCHANGED <<file, offset, archiveVars, timelineVars, exposed>>

\* Mutant of WithdrawAndClear: what was taken out of the rollup stays on record.
WithdrawKeepingRecord(s) ==
    LET counted == Cardinality(contrib[s])
    IN /\ rollup' = IF rollup >= counted THEN rollup - counted ELSE 0
       /\ turns' = [turns EXCEPT ![s] = {}]
       /\ events' = [events EXCEPT ![s] = {}]
       /\ version' = [version EXCEPT ![s] = Marked(s)]
       /\ purged' = [purged EXCEPT ![s] = FALSE]
       /\ UNCHANGED <<file, offset, archiveVars, contrib, through, exposed>>

\* Mutant of WithdrawAndClear: the rollup gives nothing back.
ClearOnly(s) ==
    /\ contrib' = [contrib EXCEPT ![s] = {}]
    /\ turns' = [turns EXCEPT ![s] = {}]
    /\ events' = [events EXCEPT ![s] = {}]
    /\ version' = [version EXCEPT ![s] = Marked(s)]
    /\ purged' = [purged EXCEPT ![s] = FALSE]
    /\ UNCHANGED <<file, offset, archiveVars, rollup, through, exposed>>

\* withdraw_and_clear: the contribution is taken back out of the rollup
\* (GREATEST(.., 0)), every leftover row is deleted, purged_at is cleared.
WithdrawAndClear(s) ==
    LET counted == Cardinality(contrib[s])
    IN /\ rollup' = IF rollup >= counted THEN rollup - counted ELSE 0
       /\ contrib' = [contrib EXCEPT ![s] = {}]
       /\ turns' = [turns EXCEPT ![s] = {}]
       /\ events' = [events EXCEPT ![s] = {}]
       /\ version' = [version EXCEPT ![s] = Marked(s)]
       /\ purged' = [purged EXCEPT ![s] = FALSE]
       /\ UNCHANGED <<file, offset, archiveVars, through, exposed>>

StoreType ==
    /\ file \in [Session -> 0 .. MaxLines]
    /\ offset \in [Session -> 0 .. MaxLines]
    /\ events \in [Session -> SUBSET Line]
    /\ purged \in [Session -> BOOLEAN]
    /\ archived \in [Session -> SUBSET Line]
    /\ aged \in [Session -> BOOLEAN]
    /\ object \in [Session -> SUBSET Line]
    /\ contrib \in [Session -> SUBSET Line]
    /\ rollup \in Nat
    /\ turns \in [Session -> SUBSET Line]
    /\ through \in [Session -> 0 .. MaxLines]
    /\ version \in [Session -> Versions]
    /\ pending \in Seq(Request)
    /\ running \in Seq(Request)
    /\ faults \in 0 .. MaxFaults
    /\ exposed \in [Session -> SUBSET Windows]
=============================================================================
