----------------------------- MODULE Embeddings -----------------------------
(***************************************************************************)
(* The semantic index (retrieval/embeddings.rs, embeddings/backfill.rs):   *)
(* which sources have been embedded, and with which text.                  *)
(*                                                                         *)
(* The writers of texts (ingest, the turn reducer, the archive) mark       *)
(* sources in their own transactions.  The retrieval service is another    *)
(* process: its passes exclude each other by index_lock but not the        *)
(* writers, and between reading a source and writing its row lie queries   *)
(* and HTTP calls.  Texts are numbered; a source's key is its place in the *)
(* backfill order.                                                         *)
(***************************************************************************)
EXTENDS Integers, Sequences, FiniteSets

CONSTANTS LastSource,  \* sources are numbered from 1
          Block,       \* sources that are blocks of events
          Digest,      \* the source that is a turn digest, the others being
                       \* operations
          MaxText,     \* bound on the changes of texts
          MaxRun,      \* bound on backfill runs
          MaxUpset     \* bound on crashes and failing embedding calls

ASSUME EmbedAssumption ==
  /\ LastSource \in Nat /\ Digest \in 1..LastSource
  /\ MaxText \in Nat /\ MaxRun \in Nat \ {0}

VARIABLES text,        \* the current text of each source, 0 when it has none
          rowOf,       \* retrieval_embedding_sources
          vectors,     \* retrieval_embeddings: text of each chunk of a source
          runs,        \* retrieval_embedding_backfills, in the order started
          pass,        \* what the holder of index_lock does
          up,          \* FALSE from a crash to the next start
          overtaken,   \* sources whose text changed under a pass's hands
          texts, upsets

embedVars == <<text, rowOf, vectors, runs, pass, up, overtaken, texts, upsets>>

Sources == 1..LastSource
NoRow == [st |-> "none", hash |-> 0, gen |-> 0]
NoPass == [at |-> "free", todo |-> {}, run |-> 0, key |-> 0, seen |-> 0, mark |-> FALSE,
           got |-> [k \in Sources |-> 0], gone |-> {}]
RunRow(scope) == [st |-> "running", scope |-> scope, cursor |-> 0, touched |-> {}]

\* chunk_text: every other text is too long for one chunk.
Chunks(t) == IF t = 0 THEN 0 ELSE 1 + (t % 2)
Embedded(t) == [i \in 1..2 |-> IF i <= Chunks(t) THEN t ELSE 0]
NoVectors == Embedded(0)

EmbedInit ==
  /\ text = [k \in Sources |-> 0] /\ rowOf = [k \in Sources |-> NoRow]
  /\ vectors = [k \in Sources |-> NoVectors] /\ runs = <<>> /\ pass = NoPass /\ up = TRUE
  /\ overtaken = {} /\ texts = 0 /\ upsets = 0

\* Every write of a row sets its updated_at, which runs compare with their
\* own started_at.
Touch(rs, ks) == [r \in DOMAIN rs |-> [rs[r] EXCEPT !.touched = @ \cup ks]]

\* Sources a pass has read and not yet written.
InHand == {k \in Sources : pass.got[k] # 0} \cup pass.gone
          \cup (IF pass.at = "seen" THEN {pass.key} ELSE {})

-----------------------------------------------------------------------------
\* upsert_operation_source and enqueue_event_embedding_source.
MarkedPending(k, t) == [st |-> "pending", hash |-> t, gen |-> rowOf[k].gen]

\* A block is inserted or an operation changes: the source is pending, and
\* the vectors of an operation's old text go at once.
WriteSource(k) ==
  /\ texts < MaxText /\ texts' = texts + 1 /\ k # Digest
  /\ text' = [text EXCEPT ![k] = texts + 1]
  /\ rowOf' = [rowOf EXCEPT ![k] = MarkedPending(k, texts + 1)]
  /\ vectors' = [vectors EXCEPT ![k] = IF k \in Block THEN @ ELSE NoVectors] /\ runs' = Touch(runs, {k})
  /\ overtaken' = IF k \in InHand THEN overtaken \cup {k} ELSE overtaken \ {k}
  /\ UNCHANGED <<pass, up, upsets>>

\* An operation does not come back after a rebuild, a block has no text.
RemoveSource(k) ==
  /\ texts < MaxText /\ texts' = texts + 1
  /\ text[k] # 0 /\ k # Digest /\ text' = [text EXCEPT ![k] = 0]
  /\ rowOf' = [rowOf EXCEPT ![k].st = "deleted"]
  /\ vectors' = [vectors EXCEPT ![k] = NoVectors] /\ runs' = Touch(runs, {k})
  /\ overtaken' = IF k \in InHand THEN overtaken \cup {k} ELSE overtaken \ {k}
  /\ UNCHANGED <<pass, up, upsets>>

\* The archive replaces the sources of a session by its digest.
PurgeSources ==
  /\ texts < MaxText /\ texts' = texts + 1 /\ text[Digest] = 0
  /\ text' = [k \in Sources |-> IF k = Digest THEN texts + 1 ELSE 0]
  /\ rowOf' = [k \in Sources |-> IF k = Digest
                 THEN [NoRow EXCEPT !.st = "pending", !.hash = texts + 1] ELSE NoRow]
  /\ vectors' = [k \in Sources |-> NoVectors]
  /\ runs' = Touch(runs, Sources) /\ overtaken' = InHand
  /\ UNCHANGED <<pass, up, upsets>>

-----------------------------------------------------------------------------
\* reindex_inner: a run, under the lock.
ReindexSources(scope) ==
  /\ up /\ pass = NoPass /\ Len(runs) < MaxRun
  /\ runs' = Append(runs, RunRow(scope))
  /\ UNCHANGED <<text, rowOf, vectors, pass, up, overtaken, texts, upsets>>

\* reset_inner: the tables are emptied, then the run is scheduled.
ResetIndex ==
  /\ up /\ pass = NoPass /\ Len(runs) < MaxRun
  /\ rowOf' = [k \in Sources |-> NoRow] /\ vectors' = [k \in Sources |-> NoVectors]
  /\ runs' = [r \in DOMAIN runs |-> [runs[r] EXCEPT !.st = "dropped", !.touched = {}]]
  /\ pass' = [NoPass EXCEPT !.at = "schedule"] /\ overtaken' = {}
  /\ UNCHANGED <<text, up, texts, upsets>>

Schedule ==
  /\ pass.at = "schedule" /\ pass' = NoPass /\ runs' = Append(runs, RunRow(Sources))
  /\ UNCHANGED <<text, rowOf, vectors, up, overtaken, texts, upsets>>

\* The service ends; the next one schedules a run when there is neither a
\* source nor a run.
CrashIndexer ==
  /\ up /\ upsets < MaxUpset /\ upsets' = upsets + 1
  /\ pass' = NoPass /\ up' = FALSE
  /\ UNCHANGED <<text, rowOf, vectors, runs, overtaken, texts>>

Bootstrap ==
  /\ ~up /\ up' = TRUE
  /\ runs' = IF /\ \A k \in Sources : rowOf[k] = NoRow
                /\ \A r \in DOMAIN runs : runs[r].st = "dropped"
             THEN Append(runs, RunRow(Sources)) ELSE runs
  /\ UNCHANGED <<text, rowOf, vectors, pass, overtaken, texts, upsets>>

-----------------------------------------------------------------------------
\* run_retrieval_indexer_once: first a page of every running backfill.
StartPass ==
  /\ up /\ pass = NoPass
  /\ pass' = [NoPass EXCEPT !.at = "runs", !.todo = {r \in DOMAIN runs : runs[r].st = "running"}]
  /\ UNCHANGED <<text, rowOf, vectors, runs, up, overtaken, texts, upsets>>

\* load_backfill_sources, with pages of one source: the first one of the
\* run's scope with a text that follows the cursor.
InScope(r) == {k \in runs[r].scope : text[k] # 0}
After(r) == {k \in InScope(r) : k > runs[r].cursor}

\* delete_stale_sources_for_completed_run: not seen by this run and not
\* written since it started.
Stale(r) ==
  {k \in runs[r].scope : /\ rowOf[k].st \notin {"none", "deleted"}
                         /\ rowOf[k].gen < r /\ k \notin runs[r].touched}

LoadPage(r) ==
  /\ pass.at = "runs" /\ r \in pass.todo /\ After(r) # {}
  /\ LET k == CHOOSE x \in After(r) : \A y \in After(r) : x <= y IN
     pass' = [pass EXCEPT !.at = "look", !.run = r, !.key = k, !.seen = text[k]]
  /\ UNCHANGED <<text, rowOf, vectors, runs, up, overtaken, texts, upsets>>

CompleteRun(r) ==
  /\ pass.at = "runs" /\ r \in pass.todo /\ After(r) = {}
  /\ rowOf' = [k \in Sources |-> IF k \in Stale(r) THEN [rowOf[k] EXCEPT !.st = "deleted"] ELSE rowOf[k]]
  /\ vectors' = [k \in Sources |-> IF k \in Stale(r) THEN NoVectors ELSE vectors[k]]
  /\ runs' = [Touch(runs, Stale(r)) EXCEPT ![r].st = "complete"]
  /\ pass' = [pass EXCEPT !.todo = @ \ {r}]
  /\ UNCHANGED <<text, up, overtaken, texts, upsets>>

\* Mutant: the text is not compared, only the status.
NeedsEmbeddingByStatus(k, t) == rowOf[k].st # "indexed"

\* upsert_source_seen: what is there is read, then the row is written.
NeedsEmbedding(k, t) ==
  \/ rowOf[k].st # "indexed" \/ rowOf[k].hash # t
  \/ \A i \in 1..2 : vectors[k][i] # rowOf[k].hash

LookAtRow ==
  /\ pass.at = "look"
  /\ pass' = [pass EXCEPT !.at = "seen", !.mark = NeedsEmbedding(pass.key, pass.seen)]
  /\ overtaken' = IF text[pass.key] # pass.seen THEN overtaken \cup {pass.key} ELSE overtaken
  /\ UNCHANGED <<text, rowOf, vectors, runs, up, texts, upsets>>

UpsertSeen ==
  /\ pass.at = "seen"
  /\ LET k == pass.key IN
     /\ rowOf' = [rowOf EXCEPT ![k] = [st |-> IF pass.mark THEN "pending" ELSE "indexed",
                                       hash |-> pass.seen, gen |-> pass.run]]
     /\ runs' = [Touch(runs, {k}) EXCEPT ![pass.run].cursor = k]
     /\ overtaken' = IF pass.mark THEN overtaken \ {k} ELSE overtaken
  /\ pass' = [pass EXCEPT !.at = "runs", !.todo = @ \ {pass.run}, !.run = 0, !.key = 0,
                         !.seen = 0, !.mark = FALSE]
  /\ UNCHANGED <<text, vectors, up, texts, upsets>>

\* mark_backfill_failed: the run is over, and the pass with it.
BackfillFails ==
  /\ pass.at \in {"look", "seen"} /\ upsets < MaxUpset /\ upsets' = upsets + 1
  /\ runs' = [runs EXCEPT ![pass.run].st = "failed"] /\ pass' = NoPass
  /\ UNCHANGED <<text, rowOf, vectors, up, overtaken, texts>>

\* index_pending_embeddings: the pending rows, then the current text of
\* each; those without one are marked deleted together.
Pending == {k \in Sources : rowOf[k].st = "pending"}

LoadPendingRows ==
  /\ pass.at = "runs" /\ pass.todo = {}
  /\ pass' = [pass EXCEPT !.at = "load", !.todo = Pending]
  /\ UNCHANGED <<text, rowOf, vectors, runs, up, overtaken, texts, upsets>>

LoadCurrentSource(k) ==
  /\ pass.at = "load" /\ k \in pass.todo
  /\ pass' = [pass EXCEPT !.todo = @ \ {k}, !.got[k] = text[k],
                         !.gone = IF text[k] = 0 THEN @ \cup {k} ELSE @]
  /\ UNCHANGED <<text, rowOf, vectors, runs, up, overtaken, texts, upsets>>

MarkSourcesDeleted ==
  /\ pass.at = "load" /\ pass.todo = {}
  /\ rowOf' = [k \in Sources |-> IF k \in pass.gone /\ rowOf[k] # NoRow
                 THEN [rowOf[k] EXCEPT !.st = "deleted"] ELSE rowOf[k]]
  /\ vectors' = [k \in Sources |-> IF k \in pass.gone THEN NoVectors ELSE vectors[k]]
  /\ runs' = Touch(runs, pass.gone) /\ pass' = [pass EXCEPT !.at = "embed", !.gone = {}]
  /\ UNCHANGED <<text, up, overtaken, texts, upsets>>

\* The embedding service answers, or the pass ends with an error.
EmbedFails ==
  /\ pass.at = "embed" /\ upsets < MaxUpset /\ upsets' = upsets + 1 /\ pass' = NoPass
  /\ UNCHANGED <<text, rowOf, vectors, runs, up, overtaken, texts>>

\* Mutant: chunks beyond the last are left.
UpsertChunksOnly(old, t) == [i \in 1..2 |-> IF i <= Chunks(t) THEN t ELSE old[i]]

\* One transaction for all of them: the chunks are written over the old
\* ones, those beyond the last are deleted, and the row is marked, if
\* there still is one.
UpsertChunks(old, t) == Embedded(t)

StoreVectors ==
  /\ pass.at = "embed"
  /\ LET ks == {k \in Sources : pass.got[k] # 0} IN
     /\ vectors' = [k \in Sources |-> IF k \in ks THEN UpsertChunks(vectors[k], pass.got[k]) ELSE vectors[k]]
     /\ rowOf' = [k \in Sources |-> IF k \in ks /\ rowOf[k] # NoRow
                    THEN [rowOf[k] EXCEPT !.st = "indexed", !.hash = pass.got[k]] ELSE rowOf[k]]
     /\ runs' = Touch(runs, ks)
  /\ pass' = NoPass
  /\ UNCHANGED <<text, up, overtaken, texts, upsets>>

\* mark_source_failed: vectors of the wrong length.
FailSources ==
  /\ pass.at = "embed" /\ upsets < MaxUpset /\ upsets' = upsets + 1
  /\ LET ks == {k \in Sources : pass.got[k] # 0 /\ rowOf[k] # NoRow} IN
     /\ rowOf' = [k \in Sources |-> IF k \in ks THEN [rowOf[k] EXCEPT !.st = "failed"] ELSE rowOf[k]]
     /\ runs' = Touch(runs, ks)
  /\ pass' = NoPass
  /\ UNCHANGED <<text, vectors, up, overtaken, texts>>

PassStep ==
  \/ \E r \in DOMAIN runs : LoadPage(r) \/ CompleteRun(r)
  \/ LookAtRow \/ UpsertSeen \/ LoadPendingRows \/ MarkSourcesDeleted \/ StoreVectors \/ Schedule
  \/ \E k \in Sources : LoadCurrentSource(k)

EmbedNext ==
  \/ \E k \in Sources : WriteSource(k) \/ RemoveSource(k)
  \/ PurgeSources \/ ResetIndex \/ CrashIndexer \/ Bootstrap \/ StartPass \/ PassStep
  \/ EmbedFails \/ BackfillFails \/ FailSources
  \/ \E scope \in {Sources} \cup {{k} : k \in Sources} : ReindexSources(scope)

\* The service is started again and its loop runs on.
EmbedFairness == WF_embedVars(PassStep) /\ WF_embedVars(StartPass) /\ WF_embedVars(Bootstrap)
-----------------------------------------------------------------------------
EmbedTypeOK ==
  /\ \A k \in Sources : /\ text[k] \in 0..MaxText /\ rowOf[k].hash \in 0..MaxText
                        /\ rowOf[k].gen \in 0..MaxRun
                        /\ rowOf[k].st \in {"none", "pending", "indexed", "failed", "deleted"}
  /\ pass.todo \subseteq 1..(LastSource + MaxRun) /\ overtaken \subseteq Sources

\* A source that says it is indexed has the vectors of its current text
\* and no chunk of an older, longer one.  Only a source whose text changed
\* while a pass had it in hand may be behind.
IndexedIsCurrent ==
  \A k \in Sources : rowOf[k].st = "indexed" /\ k \notin overtaken =>
    rowOf[k].hash = text[k] /\ vectors[k] = Embedded(text[k])

\* No run deletes a source that has a text, however runs, writers and
\* other runs interleave: what a run has not seen was written since.
LiveSourceKept ==
  \A k \in Sources : text[k] # 0 /\ rowOf[k].st = "deleted" => k \in overtaken

\* A full reindex asked for after the last change, and not alongside
\* another one, puts everything right, also what passes left behind: each
\* text is embedded as it is, and no row claims a source without one.
IndexExact == \A k \in Sources :
  /\ rowOf[k].st # "pending"
  /\ IF text[k] = 0 THEN rowOf[k].st \in {"none", "deleted"}
     ELSE rowOf[k].st = "indexed" /\ rowOf[k].hash = text[k] /\ vectors[k] = Embedded(text[k])

Reindexed == \E r \in DOMAIN runs :
  /\ runs[r] = RunRow(Sources)
  /\ \A q \in DOMAIN runs \ {r} : runs[q].st # "running"

ReindexRepairs ==
  (pass = NoPass /\ Reindexed /\ texts = MaxText /\ upsets = MaxUpset) ~> IndexExact
=============================================================================
