----------------------------- MODULE ArchiveLoop -----------------------------
(***************************************************************************)
(* The archive loop of the control process (backend/src/archive/): one     *)
(* task that drains restore requests and otherwise runs the cycle of dump, *)
(* export and purge.  It is sequential, but every step is a statement or   *)
(* an upload of its own: the ingester runs between them, each may fail,    *)
(* and the process may be restarted after any.                             *)
(*                                                                         *)
(* Idleness, a live PTY and an unfinished startup repair only ever keep a  *)
(* session out of an export or a purge, so they are left to choice: a set  *)
(* is selected from the sessions the other conditions admit.               *)
(***************************************************************************)
EXTENDS SessionStore

VARIABLE loop       \* the task's position and locals

LoopPc == {"start", "poll", "restore", "withdraw", "replay", "project", "repurge",
           "dump", "export", "put", "mark", "purge"}

LoopAt(pc) == [pc |-> pc, todo |-> {}, s |-> NoSession, lines |-> {}, again |-> FALSE]

InitLoop == loop = LoopAt("start")

\* Done with the session: on to the next of the list.
NextOf(pc) == [loop EXCEPT !.pc = pc, !.todo = @ \ {loop.s}, !.s = NoSession, !.lines = {}]

Smallest(S) == CHOOSE n \in S : \A m \in S : n <= m

\* The replay stops half-way: rows are missing from a session that is not
\* marked purged any more, or all are there and their rebuild is not asked for.
CutReplay ==
    IF loop.pc = "replay"
    THEN Expose(loop.s, IF loop.lines # {} THEN "cut" ELSE "unbuilt")
    ELSE UNCHANGED exposed

-----------------------------------------------------------------------------
(* Requests                                                                *)

\* run_loop starts: requests a previous process left running are failed.
StartLoop ==
    /\ loop.pc = "start"
    /\ running' = <<>>
    /\ loop' = LoopAt("poll")
    /\ UNCHANGED <<dbVars, pending, faults>>

\* fail_stale_running is refused: the loop goes on all the same.
StartRefused ==
    /\ loop.pc = "start"
    /\ Fault
    /\ loop' = LoopAt("poll")
    /\ UNCHANGED <<dbVars, requestVars>>

\* next_pending, then sessions_in_scope.
TakeRequest ==
    /\ loop.pc = "poll"
    /\ pending # <<>>
    /\ LET r == Head(pending)
       IN /\ running' = Append(running, r)
          /\ loop' = [LoopAt("restore") EXCEPT
                         !.todo = IF r.scope = "all"
                                  THEN {s \in Session : purged[s] /\ archived[s] # {}}
                                  ELSE {r.scope},
                         !.again = r.again]
    /\ pending' = Tail(pending)
    /\ UNCHANGED <<dbVars, faults>>

\* The sessions of the scope cannot be listed: the request fails as a whole.
TakeRefused ==
    /\ loop.pc = "poll"
    /\ pending # <<>>
    /\ Fault
    /\ running' = Append(running, Head(pending))
    /\ pending' = Tail(pending)
    /\ loop' = LoopAt("restore")
    /\ UNCHANGED dbVars

\* requests::finish: per-session failures do not fail the request.
FinishRequest ==
    /\ loop.pc = "restore"
    /\ loop.todo = {}
    /\ running' = SubSeq(running, 1, Len(running) - 1)
    /\ loop' = LoopAt("poll")
    /\ UNCHANGED <<dbVars, pending, faults>>

\* The result cannot be recorded: the row stays running until a restart.
FinishRefused ==
    /\ loop.pc = "restore"
    /\ loop.todo = {}
    /\ Fault
    /\ loop' = LoopAt("poll")
    /\ UNCHANGED <<dbVars, requestVars>>

-----------------------------------------------------------------------------
(* restore_session                                                         *)

\* The row is purged and its object matches the recorded hash.
Restorable(s) == purged[s] /\ archived[s] # {} /\ object[s] = archived[s]

OpenArchive(s) ==
    /\ loop.pc = "restore"
    /\ s \in loop.todo
    /\ Restorable(s)
    /\ loop' = [loop EXCEPT !.pc = "withdraw", !.s = s, !.lines = object[s]]
    /\ UNCHANGED <<dbVars, requestVars, faults>>

\* Not purged, or the hash differs: counted as a failure.
CannotRestore(s) ==
    /\ loop.pc = "restore"
    /\ s \in loop.todo
    /\ ~Restorable(s)
    /\ loop' = [loop EXCEPT !.todo = @ \ {s}]
    /\ UNCHANGED <<dbVars, requestVars, faults>>

Withdraw ==
    /\ loop.pc = "withdraw"
    /\ WithdrawAndClear(loop.s)
    /\ loop' = [loop EXCEPT !.pc = "replay"]
    /\ UNCHANGED <<requestVars, faults>>

\* replay_session_lines, in the order of the archive.
ReplayLine ==
    /\ loop.pc = "replay"
    /\ loop.lines # {}
    /\ InsertEvent(loop.s, Smallest(loop.lines))
    /\ loop' = [loop EXCEPT !.lines = @ \ {Smallest(loop.lines)}]
    /\ UNCHANGED <<file, offset, purged, archiveVars, usageVars, timelineVars,
                   requestVars, faults>>

\* rebuild_session_projection asks for a rebuild, then projects.
RebuildReplayed ==
    /\ loop.pc = "replay"
    /\ loop.lines = {}
    /\ RequestRebuild(loop.s)
    /\ loop' = [loop EXCEPT !.pc = "project"]
    /\ UNCHANGED <<file, offset, events, purged, archiveVars, usageVars, turns, through,
                   exposed, requestVars, faults>>

\* project_until_caught_up, one batch at a time.
ProjectReplayed ==
    /\ loop.pc = "project"
    /\ ProjectBatch(loop.s)
    /\ loop' = IF BatchMore(loop.s) THEN loop
               ELSE IF loop.again THEN [loop EXCEPT !.pc = "repurge"]
               ELSE NextOf("restore")
    /\ UNCHANGED <<file, offset, events, purged, archiveVars, usageVars, exposed,
                   requestVars, faults>>

PurgeAgain ==
    /\ loop.pc = "repurge"
    /\ PurgeAllowed(loop.s)
    /\ PurgeSession(loop.s)
    /\ loop' = NextOf("restore")
    /\ UNCHANGED <<requestVars, faults>>

\* It grew meanwhile, is live, or its timeline lags: it stays restored.
PurgeAgainSkipped ==
    /\ loop.pc = "repurge"
    /\ loop' = NextOf("restore")
    /\ UNCHANGED <<dbVars, requestVars, faults>>

\* Any statement of restore_session is refused: the session is abandoned
\* where it is.  Each of its statements commits on its own.
RestoreRefused ==
    /\ loop.pc \in {"withdraw", "replay", "project"}
    /\ Fault
    /\ CutReplay
    /\ loop' = NextOf("restore")
    /\ UNCHANGED <<rowVars, requestVars>>

-----------------------------------------------------------------------------
(* run_cycle                                                               *)

\* A cycle is due, or an older `run` request asks for one; restores may wait
\* behind it.  The export set is listed first.
StartCycle ==
    /\ loop.pc = "poll"
    /\ \E todo \in SUBSET {s \in Session : NeedsExport(s)} :
          loop' = [LoopAt("dump") EXCEPT !.todo = todo]
    /\ UNCHANGED <<dbVars, requestVars, faults>>

DumpDurableTables ==
    /\ loop.pc = "dump"
    /\ loop' = [loop EXCEPT !.pc = "export"]
    /\ UNCHANGED <<dbVars, requestVars, faults>>

\* Without a dump the cycle ends before anything is exported or purged.
DumpRefused ==
    /\ loop.pc = "dump"
    /\ Fault
    /\ loop' = LoopAt("poll")
    /\ UNCHANGED <<dbVars, requestVars>>

\* write_session_lines
ReadEvents(s) ==
    /\ loop.pc = "export"
    /\ s \in loop.todo
    /\ loop' = [loop EXCEPT !.pc = "put", !.s = s, !.lines = events[s]]
    /\ UNCHANGED <<dbVars, requestVars, faults>>

\* put_file replaces whatever the key held.
PutObject ==
    /\ loop.pc = "put"
    /\ object' = [object EXCEPT ![loop.s] = loop.lines]
    /\ loop' = [loop EXCEPT !.pc = "mark"]
    /\ UNCHANGED <<file, offset, events, purged, archived, aged, usageVars, timelineVars,
                   exposed, requestVars, faults>>

\* Mutant of MarkArchived: the rows are counted again when the columns are written.
MarkRecounted ==
    /\ loop.pc = "mark"
    /\ archived' = [archived EXCEPT ![loop.s] = events[loop.s]]
    /\ aged' = [aged EXCEPT ![loop.s] = FALSE]
    /\ loop' = NextOf("export")
    /\ UNCHANGED <<file, offset, events, purged, object, usageVars, timelineVars, exposed,
                   requestVars, faults>>

\* HEAD matches: archived_at, archive_sha256 and archive_events are recorded.
MarkArchived ==
    /\ loop.pc = "mark"
    /\ archived' = [archived EXCEPT ![loop.s] = loop.lines]
    /\ aged' = [aged EXCEPT ![loop.s] = FALSE]
    /\ loop' = NextOf("export")
    /\ UNCHANGED <<file, offset, events, purged, object, usageVars, timelineVars, exposed,
                   requestVars, faults>>

\* The upload, the HEAD check or the column update fails: counted, and on.
ExportRefused ==
    /\ loop.pc \in {"put", "mark"}
    /\ Fault
    /\ loop' = NextOf("export")
    /\ UNCHANGED <<dbVars, requestVars>>

\* purge_candidates, selected after the exports.
SelectPurge ==
    /\ loop.pc = "export"
    /\ loop.todo = {}
    /\ \E todo \in SUBSET {s \in Session : PurgeCandidate(s) /\ aged[s]} :
          loop' = [LoopAt("purge") EXCEPT !.todo = todo]
    /\ UNCHANGED <<dbVars, requestVars, faults>>

\* Mutant of PurgeOne: the candidate query is not repeated under the row lock.
PurgeListed(s) ==
    /\ loop.pc = "purge"
    /\ s \in loop.todo
    /\ ProjectionCurrent(s)
    /\ PurgeSession(s)
    /\ loop' = [loop EXCEPT !.todo = @ \ {s}]
    /\ UNCHANGED <<requestVars, faults>>

PurgeOne(s) ==
    /\ loop.pc = "purge"
    /\ s \in loop.todo
    /\ PurgeAllowed(s)
    /\ PurgeSession(s)
    /\ loop' = [loop EXCEPT !.todo = @ \ {s}]
    /\ UNCHANGED <<requestVars, faults>>

\* purge_session bails out: grown since, live, or its timeline lags.
PurgeSkipped(s) ==
    /\ loop.pc = "purge"
    /\ s \in loop.todo
    /\ loop' = [loop EXCEPT !.todo = @ \ {s}]
    /\ UNCHANGED <<dbVars, requestVars, faults>>

EndCycle ==
    /\ loop.pc = "purge"
    /\ loop.todo = {}
    /\ loop' = LoopAt("poll")
    /\ UNCHANGED <<dbVars, requestVars, faults>>

-----------------------------------------------------------------------------
\* The control process dies; run_loop will start over.
ControlCrash ==
    /\ loop.pc # "start"
    /\ CutReplay
    /\ loop' = LoopAt("start")
    /\ UNCHANGED <<rowVars, requestVars, faults>>

RequestStep == StartLoop \/ TakeRequest \/ FinishRequest

RestoreStep ==
    \/ \E s \in Session : OpenArchive(s) \/ CannotRestore(s)
    \/ Withdraw \/ ReplayLine \/ RebuildReplayed \/ ProjectReplayed
    \/ PurgeAgain \/ PurgeAgainSkipped

\* A cycle in progress; starting one is the composition's.
CycleStep ==
    \/ DumpDurableTables
    \/ \E s \in Session : ReadEvents(s) \/ PurgeOne(s) \/ PurgeSkipped(s)
    \/ PutObject \/ MarkArchived \/ SelectPurge \/ EndCycle

LoopFault ==
    \/ StartRefused \/ TakeRefused \/ FinishRefused
    \/ RestoreRefused \/ DumpRefused \/ ExportRefused

LoopType ==
    /\ loop \in [pc : LoopPc, todo : SUBSET Session, s : Session \cup {NoSession},
                 lines : SUBSET Line, again : BOOLEAN]
    /\ loop.s # NoSession <=>
          loop.pc \in {"withdraw", "replay", "project", "repurge", "put", "mark"}
=============================================================================
