------------------------------ MODULE CodeIndex ------------------------------
(***************************************************************************)
(* The code index of one root (code_intel/indexer.rs and its storage.rs):  *)
(* passes that mark files pending, passes that parse pending files, and    *)
(* the queries that read what they wrote.                                  *)
(*                                                                         *)
(* The passes of a process exclude each other by index_lock, but not the   *)
(* edits of the files, and nothing they write is in a transaction: a file  *)
(* is read, its metadata is read, its row is written, its facts (symbols   *)
(* and references) are deleted and inserted one by one.  A version of a    *)
(* file stands for its contents and for its mtime and size.                *)
(***************************************************************************)
EXTENDS Integers, FiniteSets

CONSTANTS File,       \* paths of the root
          MaxEdit,    \* bound on the edits of files
          MaxTrouble  \* bound on restarts and on files that fail to parse

VARIABLES disk,       \* version of each file, 0 when there is none
          large,      \* files that are no candidates at present
          row,        \* code_files: parse_status and mtime
          facts,      \* version the facts of a file are from; 0 none, -1 some
          job,        \* the pass that holds index_lock
          jobRow,     \* status of its code_index_jobs row
          booted,     \* FALSE from a restart to the startup pass
          raced,      \* files edited or cut off in the middle of a parse
          edits, troubles

indexVars == <<disk, large, row, facts, job, jobRow, booted, raced, edits, troubles>>

Status == {"none", "pending", "parsed", "failed", "deleted", "unsupported"}
NoFile == "nofile"

ASSUME IndexAssumption == NoFile \notin File /\ MaxEdit \in Nat

NoJob == [at |-> "free", kind |-> "none", todo |-> {}, seen |-> {}, file |-> NoFile,
          read |-> 0, mtime |-> 0, then |-> "none", back |-> "none"]

IndexInit ==
  /\ disk = [f \in File |-> 0] /\ large = {} /\ row = [f \in File |-> [st |-> "none", mtime |-> 0]]
  /\ facts = [f \in File |-> 0] /\ job = NoJob /\ jobRow = "none" /\ booted = TRUE
  /\ raced = {} /\ edits = 0 /\ troubles = 0

\* A file is written, or removed (external).
Edit(f, there, big) ==
  /\ edits < MaxEdit /\ edits' = edits + 1
  /\ disk' = [disk EXCEPT ![f] = IF there THEN edits + 1 ELSE 0]
  /\ large' = IF big THEN large \cup {f} ELSE large \ {f}
  /\ raced' = IF job.file = f THEN raced \cup {f} ELSE raced
  /\ UNCHANGED <<row, facts, job, jobRow, booted, troubles>>

Candidates == {f \in File : disk[f] # 0 /\ f \notin large}
Listed == {f \in File : row[f].st \notin {"none", "deleted"}}
Ends == job' = NoJob

-----------------------------------------------------------------------------
\* refresh_target: under the lock, a whole root or a path is discovered.
\* The startup pass does so as well, looking for changes only.
Discover(kind, scope) ==
  /\ job = NoJob
  /\ kind = "startup" => ~booted
  /\ job' = [NoJob EXCEPT !.kind = kind, !.at = "mark", !.seen = scope,
                          !.todo = Candidates \cap scope]
  /\ booted' = (booted \/ kind = "startup")
  /\ UNCHANGED <<disk, large, row, facts, jobRow, raced, edits, troubles>>

\* mark_candidate_pending, in its two modes.
Changed(f) == row[f].st \in {"none", "deleted", "unsupported"} \/ row[f].mtime # disk[f]

Mark(f) ==
  /\ job.at = "mark" /\ f \in job.todo
  /\ IF disk[f] = 0 THEN Ends /\ UNCHANGED <<row, raced>>
     ELSE /\ job' = [job EXCEPT !.todo = @ \ {f}, !.seen = @ \ {f}]
          /\ LET hit == job.kind = "refresh" \/ Changed(f) IN
             /\ row' = IF hit THEN [row EXCEPT ![f] = [st |-> "pending", mtime |-> disk[f]]] ELSE row
             /\ raced' = IF hit THEN raced \ {f} ELSE raced
  /\ UNCHANGED <<disk, large, facts, jobRow, booted, edits, troubles>>

\* mark_deleted_files: the rows of the scope that were not seen.
Deletes ==
  /\ job.at = "mark" /\ job.todo = {}
  /\ job' = [job EXCEPT !.at = "delete", !.todo = job.seen \cap Listed]
  /\ UNCHANGED <<disk, large, row, facts, jobRow, booted, raced, edits, troubles>>

DeleteNext(f) ==
  /\ job.at = "delete" /\ f \in job.todo
  /\ job' = [job EXCEPT !.at = "clear", !.then = "deleted", !.back = "delete",
                       !.file = f, !.todo = @ \ {f}]
  /\ UNCHANGED <<disk, large, row, facts, jobRow, booted, raced, edits, troubles>>

Marked ==
  /\ job.at = "delete" /\ job.todo = {}
  /\ job' = IF job.kind = "startup" THEN [job EXCEPT !.at = "load"] ELSE NoJob
  /\ UNCHANGED <<disk, large, row, facts, jobRow, booted, raced, edits, troubles>>

-----------------------------------------------------------------------------
\* index_pending_root, every few minutes or a second after work was found.
Background ==
  /\ job = NoJob /\ booted /\ \E f \in File : row[f].st = "pending"
  /\ job' = [NoJob EXCEPT !.kind = "background", !.at = "load"]
  /\ UNCHANGED <<disk, large, row, facts, jobRow, booted, raced, edits, troubles>>

LoadPending ==
  /\ job.at = "load"
  /\ LET pending == {f \in File : row[f].st = "pending"} IN
     IF pending = {} THEN Ends /\ UNCHANGED jobRow
     ELSE job' = [job EXCEPT !.at = "next", !.todo = pending] /\ jobRow' = "running"
  /\ UNCHANGED <<disk, large, row, facts, booted, raced, edits, troubles>>

\* index_pending_file: gone, no candidate any more, or read.
ReadFile(f) ==
  /\ job.at = "next" /\ f \in job.todo
  /\ job' = [job EXCEPT !.file = f, !.todo = @ \ {f}, !.read = disk[f], !.back = "next",
               !.at = IF f \in Candidates THEN "stat" ELSE "clear",
               !.then = IF disk[f] = 0 THEN "deleted" ELSE "unsupported"]
  /\ UNCHANGED <<disk, large, row, facts, jobRow, booted, raced, edits, troubles>>

StatFile ==
  /\ job.at = "stat"
  /\ job' = IF disk[job.file] = 0 THEN [job EXCEPT !.at = "clear", !.then = "failed"]
            ELSE [job EXCEPT !.at = "row", !.mtime = disk[job.file]]
  /\ UNCHANGED <<disk, large, row, facts, jobRow, booted, raced, edits, troubles>>

\* A file that cannot be read, parsed or stored.
FileFails ==
  /\ job.at \in {"stat", "row", "insert"} /\ troubles < MaxTrouble /\ troubles' = troubles + 1
  /\ job' = [job EXCEPT !.at = "clear", !.then = "failed"]
  /\ UNCHANGED <<disk, large, row, facts, jobRow, booted, raced, edits>>

\* upsert_file, then replace_symbols.
StoreRow ==
  /\ job.at = "row"
  /\ row' = [row EXCEPT ![job.file] = [st |-> "parsed", mtime |-> job.mtime]]
  /\ job' = [job EXCEPT !.at = "clear", !.then = "insert"]
  /\ UNCHANGED <<disk, large, facts, jobRow, booted, raced, edits, troubles>>

\* Mutant: a file that failed keeps its facts.
KeepFacts ==
  /\ job.at = "clear"
  /\ facts' = IF job.then = "failed" THEN facts ELSE [facts EXCEPT ![job.file] = 0]
  /\ job' = [job EXCEPT !.at = job.then]
  /\ UNCHANGED <<disk, large, row, jobRow, booted, raced, edits, troubles>>

ClearFacts ==
  /\ job.at = "clear"
  /\ facts' = [facts EXCEPT ![job.file] = 0] /\ job' = [job EXCEPT !.at = job.then]
  /\ UNCHANGED <<disk, large, row, jobRow, booted, raced, edits, troubles>>

FileDone == [job EXCEPT !.file = NoFile, !.at = job.back]

InsertFacts ==
  /\ job.at = "insert"
  /\ IF facts[job.file] = 0
     THEN facts' = [facts EXCEPT ![job.file] = -1] /\ job' = job
     ELSE facts' = [facts EXCEPT ![job.file] = job.read] /\ job' = FileDone
  /\ UNCHANGED <<disk, large, row, jobRow, booted, raced, edits, troubles>>

\* mark_file_deleted, mark_file_unsupported and mark_file_failed end with
\* the row; the first and last leave the mtime as it was.
MarkRow ==
  /\ job.at \in {"deleted", "unsupported", "failed"}
  /\ row' = [row EXCEPT ![job.file].st = job.at] /\ job' = FileDone
  /\ UNCHANGED <<disk, large, facts, jobRow, booted, raced, edits, troubles>>

\* finish_job.
FinishIndexJob ==
  /\ job.at = "next" /\ job.todo = {}
  /\ Ends /\ jobRow' = "complete"
  /\ UNCHANGED <<disk, large, row, facts, booted, raced, edits, troubles>>

\* The process ends; the next one cancels the job row before anything else.
Cancelled == IF jobRow = "running" THEN "cancelled" ELSE jobRow

Restart ==
  /\ troubles < MaxTrouble /\ troubles' = troubles + 1
  /\ raced' = IF job.file # NoFile THEN raced \cup {job.file} ELSE raced
  /\ Ends /\ booted' = FALSE /\ jobRow' = Cancelled
  /\ UNCHANGED <<disk, large, row, facts, edits>>

IndexStep ==
  \/ \E f \in File : Mark(f) \/ DeleteNext(f) \/ ReadFile(f)
  \/ Deletes \/ Marked \/ LoadPending \/ StatFile \/ FileFails \/ StoreRow
  \/ ClearFacts \/ InsertFacts \/ MarkRow \/ FinishIndexJob

IndexNext ==
  \/ \E f \in File : Edit(f, FALSE, FALSE) \/ \E big \in BOOLEAN : Edit(f, TRUE, big)
  \/ Discover("startup", File)
  \/ \E scope \in {File} \cup {{f} : f \in File} : Discover("refresh", scope)
  \/ Background \/ IndexStep \/ Restart

\* A pass goes on by itself, the startup pass runs, and the background
\* loop gets the lock in its turn.
IndexFairness ==
  /\ WF_indexVars(IndexStep) /\ SF_indexVars(Discover("startup", File))
  /\ SF_indexVars(Background)
-----------------------------------------------------------------------------
IndexTypeOK ==
  /\ \A f \in File : /\ row[f].st \in Status /\ row[f].mtime \in 0..MaxEdit
                     /\ disk[f] \in 0..MaxEdit /\ facts[f] \in -1..MaxEdit
  /\ job.todo \subseteq File /\ job.file \in File \cup {NoFile}

\* A row that says it is parsed at the file's mtime has the facts of the
\* file as it is; only an edit or a restart in the middle of that file's
\* parse can break this, and a refresh repairs it.
ParsedIsCurrent ==
  \A f \in File :
    row[f].st = "parsed" /\ row[f].mtime = disk[f] /\ f \notin raced /\ job.file # f
      => facts[f] = disk[f]

\* Queries find no symbol of a file that is deleted, too large or failed,
\* even when a pass is cut off: facts go before the row says so.
NoFactsWithoutFile ==
  \A f \in File : row[f].st \in {"deleted", "unsupported", "failed"} => facts[f] = 0

\* A job row that says running belongs to the pass under way, after any
\* number of restarts.
RunningJobIsRunning == jobRow = "running" => job.back = "next" \/ job.at = "next"

\* What is marked is parsed, or found gone, in the end.
PendingIsIndexed == \A f \in File : row[f].st = "pending" ~> row[f].st # "pending"
=============================================================================
