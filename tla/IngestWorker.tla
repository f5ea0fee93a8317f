---------------------------- MODULE IngestWorker ----------------------------
(***************************************************************************)
(* The ingester process: ingest_loop reading transcripts into `events` and *)
(* projection_loop applying them to the timeline, side by side, joined by  *)
(* an in-memory queue (backend/src/ingest/ingester.rs, ingester/replay.rs, *)
(* projection/write.rs).  Every await between two statements is a place    *)
(* where the other loop, the archive loop or a crash may come in.          *)
(***************************************************************************)
EXTENDS SessionStore

VARIABLES
    ing,        \* process_file's local state
    prj,        \* projection_loop's local state
    queue,      \* ProjectionQueue: distinct sessions, in arrival order
    missed      \* history: lines a refused insert was passed over at

nodeVars == <<ing, prj, queue>>

IngestPc == {"idle", "check", "defer", "insert", "behind"}

\* process_file between two ticks.
IngIdle == [pc |-> "idle", s |-> NoSession, next |-> 0, len |-> 0, first |-> 0]

\* projection_loop starts by looking for what a previous process left.
PrjStart == [pc |-> "recover", s |-> NoSession]
PrjIdle == [pc |-> "idle", s |-> NoSession]

InitWorker ==
    /\ ing = IngIdle
    /\ prj = PrjStart
    /\ queue = <<>>
    /\ missed = [s \in Session |-> {}]

\* ProjectionQueue::push
Push(q, s) == IF \E i \in DOMAIN q : q[i] = s THEN q ELSE Append(q, s)

-----------------------------------------------------------------------------
(* ingest_loop                                                             *)

\* The tick found the file longer than its committed offset.
ScanFile(s) ==
    /\ ing.pc = "idle"
    /\ file[s] # offset[s]
    /\ ing' = [pc |-> "check", s |-> s, next |-> offset[s], len |-> file[s], first |-> 0]
    /\ UNCHANGED <<dbVars, prj, queue, requestVars, faults, missed>>

\* defer_if_purged reads purged_at; nothing holds the answer afterwards.
CheckPurged ==
    /\ ing.pc = "check"
    /\ ing' = [ing EXCEPT !.pc = IF purged[ing.s] THEN "defer" ELSE "insert"]
    /\ UNCHANGED <<dbVars, prj, queue, requestVars, faults, missed>>

\* enqueue_restore_if_absent: a restore for this very session is enough.
RestoreAsked(s) ==
    \/ \E i \in DOMAIN pending : pending[i].scope = s
    \/ \E i \in DOMAIN running : running[i].scope = s

\* Mutant of DeferPurged: the purged session is left alone for good.
DeferSilently ==
    /\ ing.pc = "defer"
    /\ ing' = IngIdle
    /\ UNCHANGED <<dbVars, prj, queue, requestVars, faults, missed>>

\* The file is left, offset untouched, until a restore has run.
DeferPurged ==
    /\ ing.pc = "defer"
    /\ pending' = IF RestoreAsked(ing.s) THEN pending
                  ELSE Append(pending, [scope |-> ing.s, again |-> FALSE])
    /\ ing' = IngIdle
    /\ UNCHANGED <<dbVars, prj, queue, running, faults, missed>>

\* One line goes in; `first` is the first offset that was not there yet.
InsertLine ==
    LET s == ing.s
        n == ing.next + 1
    IN /\ ing.pc = "insert"
       /\ ing.next < ing.len
       /\ InsertEvent(s, n)
       /\ ing' = [ing EXCEPT !.next = n,
                             !.first = IF @ = 0 /\ n \notin events[s] THEN n ELSE @]
       /\ missed' = [missed EXCEPT ![s] = @ \ {n}]
       /\ UNCHANGED <<file, offset, purged, archiveVars, usageVars, timelineVars,
                      prj, queue, requestVars, faults>>

\* InsertError::Db is logged and the walk goes on past the line.
InsertRefused ==
    LET s == ing.s
        n == ing.next + 1
    IN /\ ing.pc = "insert"
       /\ ing.next < ing.len
       /\ Fault
       /\ ing' = [ing EXCEPT !.next = n]
       /\ missed' = [missed EXCEPT ![s] = IF n \in events[s] THEN @ ELSE @ \cup {n}]
       /\ UNCHANGED <<dbVars, prj, queue, requestVars>>

\* Mutant of CommitOffset: the offset lands one line past the last one walked.
CommitOnePast ==
    /\ ing.pc = "insert"
    /\ ing.next > offset[ing.s]
    /\ offset' = [offset EXCEPT ![ing.s] = ing.next + 1]
    /\ ing' = [ing EXCEPT !.pc = "behind"]
    /\ UNCHANGED <<file, events, purged, archiveVars, usageVars, timelineVars, exposed,
                   prj, queue, requestVars, faults, missed>>

\* The admission slice ends after at least one line: set_offset.
CommitOffset ==
    /\ ing.pc = "insert"
    /\ ing.next > offset[ing.s]
    /\ offset' = [offset EXCEPT ![ing.s] = ing.next]
    /\ ing' = [ing EXCEPT !.pc = "behind"]
    /\ UNCHANGED <<file, events, purged, archiveVars, usageVars, timelineVars, exposed,
                   prj, queue, requestVars, faults, missed>>

\* rebuild_if_inserted_behind: the timeline has passed the first new row.
InsertedBehind(s) ==
    /\ ing.first # 0
    /\ version[s] # "absent"
    /\ ing.first <= through[s]

\* The rebuild check, then queue_projection if the tick inserted anything.
FinishFile ==
    /\ ing.pc = "behind"
    /\ IF InsertedBehind(ing.s) THEN RequestRebuild(ing.s) ELSE UNCHANGED version
    /\ queue' = IF ing.first # 0 THEN Push(queue, ing.s) ELSE queue
    /\ ing' = IngIdle
    /\ UNCHANGED <<file, offset, events, purged, archiveVars, usageVars, turns, through,
                   exposed, prj, requestVars, faults, missed>>

\* The tick is abandoned: what it inserted stays, its rebuild check and its
\* place in the queue do not happen.
Abandon == IF ing.first # 0 THEN Expose(ing.s, "unbuilt") ELSE UNCHANGED exposed

\* A statement other than an insert is refused: process_file returns the error.
FileRefused ==
    /\ ing.pc # "idle"
    /\ Fault
    /\ Abandon
    /\ ing' = IngIdle
    /\ UNCHANGED <<rowVars, prj, queue, requestVars, missed>>

-----------------------------------------------------------------------------
(* projection_loop                                                         *)

\* recover_projections: tracked, retained, not awaiting a version rebuild,
\* and with an event past the cursor.  ingester_state has a row for a session
\* once an offset was committed.
Owed ==
    {s \in Session : /\ offset[s] > 0
                     /\ ~purged[s]
                     /\ version[s] \in {"absent", "current"}
                     /\ \E n \in events[s] : n > through[s]}

\* Queues in which the owed sessions follow what is there, in any order.
WithOwed(q) ==
    LET new == {s \in Owed : ~\E i \in DOMAIN q : q[i] = s}
    IN {q \o p : p \in {f \in [1 .. Cardinality(new) -> new] :
                            \A i, j \in DOMAIN f : f[i] = f[j] => i = j}}

Recover ==
    /\ prj.pc = "recover"
    /\ queue' \in WithOwed(queue)
    /\ prj' = PrjIdle
    /\ UNCHANGED <<dbVars, ing, requestVars, faults, missed>>

\* The scan fails: the loop goes on, and calls it no second time.
RecoverRefused ==
    /\ prj.pc = "recover"
    /\ Fault
    /\ prj' = PrjIdle
    /\ UNCHANGED <<dbVars, ing, queue, requestVars, missed>>

\* next_projection, then project_batch's purged check outside its transaction.
TakeProjection ==
    /\ prj.pc = "idle"
    /\ queue # <<>>
    /\ queue' = Tail(queue)
    /\ prj' = IF purged[Head(queue)] THEN PrjIdle
              ELSE [pc |-> "batch", s |-> Head(queue)]
    /\ UNCHANGED <<dbVars, ing, requestVars, faults, missed>>

\* Mutant of RunBatch: a full batch does not go back to the queue.
RunBatchOnce ==
    /\ prj.pc = "batch"
    /\ ProjectBatch(prj.s)
    /\ prj' = PrjIdle
    /\ UNCHANGED <<file, offset, events, purged, archiveVars, usageVars, exposed,
                   ing, queue, requestVars, faults, missed>>

\* The batch commits; its session goes to the back of the queue if more waits.
RunBatch ==
    /\ prj.pc = "batch"
    /\ ProjectBatch(prj.s)
    /\ queue' = IF BatchMore(prj.s) THEN Push(queue, prj.s) ELSE queue
    /\ prj' = PrjIdle
    /\ UNCHANGED <<file, offset, events, purged, archiveVars, usageVars, exposed,
                   ing, requestVars, faults, missed>>

\* The batch fails and is left unqueued.
BatchRefused ==
    /\ prj.pc = "batch"
    /\ Fault
    /\ prj' = PrjIdle
    /\ UNCHANGED <<dbVars, ing, queue, requestVars, missed>>

\* The ingester process dies and is started again.
NodeCrash ==
    /\ ing' = IngIdle
    /\ prj' = PrjStart
    /\ queue' = <<>>
    /\ Abandon
    /\ UNCHANGED <<rowVars, requestVars, faults, missed>>

IngestStep ==
    \/ \E s \in Session : ScanFile(s)
    \/ CheckPurged \/ DeferPurged
    \/ InsertLine \/ CommitOffset \/ FinishFile

IngestFault == InsertRefused \/ FileRefused

ProjectionStep == Recover \/ TakeProjection \/ RunBatch

ProjectionFault == RecoverRefused \/ BatchRefused

WorkerType ==
    /\ ing \in [pc : IngestPc, s : Session \cup {NoSession},
                next : 0 .. MaxLines, len : 0 .. MaxLines, first : 0 .. MaxLines]
    /\ prj \in [pc : {"recover", "idle", "batch"}, s : Session \cup {NoSession}]
    /\ ing.pc = "idle" => ing = IngIdle
    /\ ing.pc # "idle" => ing.s \in Session
    /\ prj.pc = "batch" <=> prj.s # NoSession
    /\ queue \in Seq(Session)
    /\ missed \in [Session -> SUBSET Line]
=============================================================================
