------------------------------- MODULE Pipeline -------------------------------
(***************************************************************************)
(* What is derived from transcripts and from source code: turns and their  *)
(* stream to the browser, the repairs of derived tables, token usage, the  *)
(* code index, the language servers and the semantic index.  They share no *)
(* state: each is checked in full while the others rest.                   *)
(***************************************************************************)
EXTENDS TurnReducer, TurnStream, DerivedRebuild, UsageLedger, CodeIndex,
        Embeddings, LspPool

CONSTANT Parts  \* the parts a run is about

VARIABLE focus  \* the part that takes the steps of this behaviour

\* Values for a run.  Transcript lines of the reducer: a prompt, one on the
\* side chain of a call, two calls of which the second waits for a cell of
\* the first, their results, evidence of an error, and an answer with tokens.
Note == [k |-> "note", id |-> "none", side |-> FALSE, tool |-> "none",
         cell |-> "none", err |-> FALSE, start |-> 0, tok |-> 0,
         link |-> "none"]
Shapes == {[Note EXCEPT !.k = "prompt", !.id = "u"],
           [Note EXCEPT !.k = "prompt", !.side = TRUE, !.link = "p"],
           [Note EXCEPT !.k = "call", !.id = "p", !.tool = "exec"],
           [Note EXCEPT !.k = "call", !.id = "w", !.tool = "wait",
                        !.cell = "c"],
           [Note EXCEPT !.k = "result", !.id = "p", !.cell = "c"],
           [Note EXCEPT !.k = "result", !.id = "w"],
           [Note EXCEPT !.k = "evidence", !.id = "x", !.err = TRUE],
           [Note EXCEPT !.k = "reply", !.id = "m", !.tok = 1]}

\* Claude's usage lines: receipts of two responses that grow and change
\* model, and one without an id.
Receipts == {[k |-> "receipt", id |-> "a", model |-> m, tok |-> n] :
                 m \in {"m1", "m2"}, n \in {1, 2}} \cup
            {[k |-> "receipt", id |-> i, model |-> "m1", tok |-> 1] :
                 i \in {"b", NoId}}

\* Codex's: running totals that may shrink, responses, a turn that names its
\* model, and a line of another session.
Records == {[k |-> "total", id |-> NoId, model |-> UnknownModel, tok |-> n] :
                n \in {1, 3}} \cup
           {[k |-> "response", id |-> "a", model |-> UnknownModel, tok |-> 1],
            [k |-> "turn", id |-> NoId, model |-> "m1", tok |-> 0],
            [k |-> "foreign", id |-> NoId, model |-> UnknownModel, tok |-> 0]}

pipelineVars == <<focus, reducerVars, streamVars, rebuildVars, ledgerVars,
                  indexVars, embedVars, lspVars>>

\* The parts of this module.
AllParts == {"reducer", "stream", "rebuild", "ledger", "index", "embed",
             "lsp"}

ASSUME PartsAssumption == Parts \subseteq AllParts

Init ==
    /\ focus \in Parts
    /\ ReducerInit /\ StreamInit /\ RebuildInit /\ LedgerInit /\ IndexInit
    /\ EmbedInit /\ LspInit

\* Every part but the one in focus keeps its state.
OthersRest ==
    /\ UNCHANGED focus
    /\ focus # "reducer" => UNCHANGED reducerVars
    /\ focus # "stream" => UNCHANGED streamVars
    /\ focus # "rebuild" => UNCHANGED rebuildVars
    /\ focus # "ledger" => UNCHANGED ledgerVars
    /\ focus # "index" => UNCHANGED indexVars
    /\ focus # "embed" => UNCHANGED embedVars
    /\ focus # "lsp" => UNCHANGED lspVars

Next ==
    \/ focus = "reducer" /\ ReducerNext /\ OthersRest
    \/ focus = "stream" /\ StreamNext /\ OthersRest
    \/ focus = "rebuild" /\ RebuildNext /\ OthersRest
    \/ focus = "ledger" /\ LedgerNext /\ OthersRest
    \/ focus = "index" /\ IndexNext /\ OthersRest
    \/ focus = "embed" /\ EmbedNext /\ OthersRest
    \/ focus = "lsp" /\ LspNext /\ OthersRest

Spec == Init /\ [][Next]_pipelineVars

PipelineTypeOK ==
    /\ focus = "reducer" => ReducerTypeOK
    /\ focus = "stream" => StreamTypeOK
    /\ focus = "rebuild" => RebuildTypeOK
    /\ focus = "ledger" => LedgerTypeOK
    /\ focus = "index" => IndexTypeOK
    /\ focus = "embed" => EmbedTypeOK
    /\ focus = "lsp" => LspTypeOK

-----------------------------------------------------------------------------
(* What each part promises at every step.  A part at rest stays as it      *)
(* began, so its promise is looked at while it is in focus.                *)

\* The turns do not depend on where the batches were cut (BatchesAgree), and
\* they are right: results land on their calls (AnsweredCalls) with the
\* evidence on both (EvidenceOnBoth), the usage adds up (TotalsAdd), and the
\* embedding sources are those of the operations (SourcesFollowOperations).
TurnsExact ==
    focus = "reducer" =>
        /\ BatchesAgree /\ AnsweredCalls /\ EvidenceOnBoth
        /\ TotalsAdd /\ SourcesFollowOperations

\* A tab that has read a turn to its end has all of it (NothingSkipped) and
\* nothing of an earlier generation (NothingLeftOver).
StreamExact == focus = "stream" => NothingSkipped /\ NothingLeftOver

\* An open gate means repaired rows (GateMeansRepaired), and a purge freezes
\* only such (DigestFrozenRepaired).
RepairsHold ==
    focus = "rebuild" => GateMeansRepaired /\ DigestFrozenRepaired

\* Every line's usage is counted once (CountedOnce), only the session's own
\* lines are (OwnLinesOnly), and a recount changes nothing
\* (RepairChangesNothing).
LedgerExact ==
    focus = "ledger" => CountedOnce /\ OwnLinesOnly /\ RepairChangesNothing

\* Code queries tell the truth of the files: facts of the version parsed
\* (ParsedIsCurrent), none of files that are gone (NoFactsWithoutFile), no
\* phantom job (RunningJobIsRunning), and language servers answer for the text
\* that was asked about (AnswersMatchSource).
CodeIntelSound ==
    /\ focus = "index" => ParsedIsCurrent /\ NoFactsWithoutFile /\ RunningJobIsRunning
    /\ focus = "lsp" => AnswersMatchSource

\* What is marked indexed is embedded with its current text (IndexedIsCurrent),
\* and no live source is taken for stale (LiveSourceKept).
SemanticIndexSound == focus = "embed" => IndexedIsCurrent /\ LiveSourceKept

-----------------------------------------------------------------------------
(* What each part promises under the fairness of its own tasks.            *)

\* Every gate opens: the repairs of a session's derived rows are all made in
\* the end (GatesOpen).
AllGatesOpen == (focus = "rebuild" /\ RebuildFairness) => GatesOpen

\* A file that is marked pending is parsed or found gone in the end
\* (PendingIsIndexed).
PendingFilesIndexed == (focus = "index" /\ IndexFairness) => PendingIsIndexed

\* A full reindex repairs the semantic index (ReindexRepairs).
ReindexesRepair == (focus = "embed" /\ EmbedFairness) => ReindexRepairs

\* Navigation requests return (RequestsReturn).
NavigationReturns == (focus = "lsp" /\ LspFairness) => RequestsReturn

\* What is derived catches up with its sources, and requests return: the gates
\* open, pending files are indexed, a reindex repairs, navigation ends.
DerivedCatchesUp ==
    AllGatesOpen /\ PendingFilesIndexed /\ ReindexesRepair /\ NavigationReturns

=============================================================================
