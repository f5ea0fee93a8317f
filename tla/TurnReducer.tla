----------------------------- MODULE TurnReducer -----------------------------
(***************************************************************************)
(* The timeline of one transcript: the reducer that folds canonical events *)
(* into turns, operations and items, and the writer that applies them in   *)
(* batches (ingest/timeline/reduce.rs, reduce/operations.rs, runtime.rs,   *)
(* ingest/projection/write.rs, projection/store.rs).                       *)
(*                                                                         *)
(* A batch works on what it loaded and caches: an operation is read from   *)
(* the stored rows at most once, an update of one is kept beside the       *)
(* stored row until the batch commits.  The stored rows must not depend on *)
(* where the batches were cut.  Offsets stand for time as well; texts,     *)
(* previews and durations are left out.                                    *)
(***************************************************************************)
EXTENDS Integers, Sequences, FiniteSets, FiniteSetsExt

CONSTANTS
    Line,       \* the event shapes a transcript may hold
    MaxLine,    \* bound: byte offsets 1..MaxLine
    MaxBehind   \* bound: lines inserted behind the cursor

\* What a line says, as far as the fold looks at it.
ASSUME ReducerAssumption ==
    /\ MaxLine \in Nat /\ MaxBehind \in Nat
    /\ \A e \in Line : /\ DOMAIN e = {"k", "id", "side", "tool", "cell", "err", "start", "tok", "link"}
                      /\ {e.side, e.err} \subseteq BOOLEAN /\ e.tok \in Int

None == "none"

VARIABLES
    log,        \* byte offset -> the canonical event stored there
    stored,     \* the session's timeline rows and its timeline_session_state
    version,    \* projection_version: "current", or "old" until it is rebuilt
    reconcile,  \* reconcile_sources: set by a clear, until the batch that catches up
    sources,    \* operations with a live retrieval source
    owed,       \* lines went in behind the cursor and request_rebuild has not run yet
    behind      \* how many did, for the bound

reducerVars == <<log, stored, version, reconcile, sources, owed, behind>>

-----------------------------------------------------------------------------
(* The session state and the rows.  Offset 0 stands for an absent turn or time. *)

\* Tables by key: without a row, with a row put in, and with the rows of one
\* table over those of another.
NoEntry == [k \in {} |-> None]
PutAt(f, k, row) == [j \in DOMAIN f \cup {k} |-> IF j = k THEN row ELSE f[j]]
Onto(f, g) == [k \in DOMAIN f \cup DOMAIN g |-> IF k \in DOMAIN f THEN f[k] ELSE g[k]]

NewState == [through |-> 0, ord |-> 0, main |-> 0, side |-> 0, total |-> 0, events |-> 0, turns |-> 0]

NoRows == [st |-> NewState, turns |-> NoEntry, ops |-> NoEntry, items |-> {}, usage |-> NoEntry,
           links |-> {}, touches |-> NoEntry]

\* A reducer over the stored rows d: nothing loaded, nothing changed.
NewReducer(d) ==
    [d |-> d, st |-> d.st, start |-> d.st.through, turns |-> NoEntry, dirty |-> {}, items |-> {},
     ops |-> NoEntry, newOps |-> {}, updated |-> {}, inputs |-> {}, queried |-> {}, prompts |-> {},
     usage |-> NoEntry, links |-> {}]

\* Rows already loaded win: they may carry this batch's changes.
RememberOps(r, keys) == [r EXCEPT !.ops = Onto(@, [k \in keys |-> r.d.ops[k]])]

PutOp(r, k, row, inputChanged) ==
    [r EXCEPT !.ops = PutAt(@, k, row),
              !.updated = IF k \in r.newOps THEN @ ELSE @ \cup {k},
              !.inputs = IF k \in r.newOps \/ ~inputChanged THEN @ ELSE @ \cup {k}]

LoadTurn(r, t) ==
    IF t \in DOMAIN r.turns \/ t \notin DOMAIN r.d.turns THEN r
    ELSE [r EXCEPT !.turns = PutAt(@, t, r.d.turns[t])]

PutTurn(r, t, row) == [r EXCEPT !.turns = PutAt(@, t, row), !.dirty = @ \cup {t}]

Failed(row) == row.callErr \/ row.resErr

\* The owner of a changed operation takes its error.
MarkTurn(r, t, err) ==
    LET l == LoadTurn(r, t)
    IN  IF t \in DOMAIN l.turns
        THEN PutTurn(l, t, [l.turns[t] EXCEPT !.errors = @ \/ err]) ELSE l

-----------------------------------------------------------------------------
(* Finding the operation an event belongs to. *)

CalledBefore(ops, p, before) == {k \in DOMAIN ops : ops[k].pair = p /\ ops[k].call < before}

OpsForPair(r, p, before) ==
    IF p \in r.queried THEN r
    ELSE [RememberOps(r, CalledBefore(r.d.ops, p, before)) EXCEPT !.queried = @ \cup {p}]

LatestOf(r, keys) == CHOOSE k \in keys : \A j \in keys : r.ops[j].call <= r.ops[k].call

\* Mutant: trusts whatever the batch has loaded so far.
LoadLatestLocal(r, p, before) ==
    IF CalledBefore(r.ops, p, before) # {} THEN r ELSE r

\* A call made in this batch is newer than anything stored; otherwise the
\* stored calls of the pair are loaded first.
LoadLatest(r, p, before) ==
    LET local == CalledBefore(r.ops, p, before)
    IN  IF local # {} /\ r.ops[LatestOf(r, local)].call > r.start THEN r
        ELSE OpsForPair(r, p, before)

\* The runtime-evidence window of an exec call.
Encloses(row, start) ==
    /\ row.tool = "exec"
    /\ IF start = 0 THEN row.finished = 0
       ELSE start >= row.call /\ (row.finished = 0 \/ start <= row.finished)

ExecCandidates(ops, before, start) ==
    {k \in DOMAIN ops : ops[k].call < before /\ Encloses(ops[k], start)}

-----------------------------------------------------------------------------
(* Calls, results and runtime evidence (reduce/operations.rs). *)

NewOp(e) ==
    [pair |-> e.id, tool |-> e.tool, target |-> e.cell, call |-> e.at, changed |-> e.at,
     callErr |-> e.err, resErr |-> FALSE, pending |-> TRUE, running |-> None, finished |-> 0,
     input |-> <<>>, payload |-> <<>>]

ApplyCall(r, t, e) ==
    LET turn == r.turns[t]
        k    == <<t, turn.ops>>
        put  == PutTurn(r, t, [turn EXCEPT !.ops = @ + 1, !.errors = @ \/ e.err])
    IN  PutOp([put EXCEPT !.newOps = @ \cup {k}], k, NewOp(e), TRUE)

\* The last result wins; evidence already folded into the call goes on it too.
SetResult(row, e) ==
    [row EXCEPT !.payload = row.input, !.resErr = e.err \/ row.callErr, !.pending = FALSE,
                !.changed = e.at, !.running = e.cell,
                !.finished = IF e.cell = None THEN e.at ELSE 0]

\* A completed wait ends the calls still running in the cell it waited on.
Ended(row, e) == [row EXCEPT !.running = None, !.finished = e.at, !.changed = e.at]

CloseWaitedCells(r, wait, row, e) ==
    IF row.tool # "wait" \/ e.cell # None \/ row.target = None THEN r
    ELSE LET l == RememberOps(r, {k \in DOMAIN r.d.ops : r.d.ops[k].running = row.target})
             ended == {k \in DOMAIN l.ops : l.ops[k].running = row.target /\ k # wait}
         IN  [l EXCEPT
                !.ops = [k \in DOMAIN @ |-> IF k \in ended THEN Ended(@[k], e) ELSE @[k]],
                !.updated = @ \cup (ended \ l.newOps)]

ApplyResult(r, t, e) ==
    LET m == IF e.err THEN MarkTurn(r, t, TRUE) ELSE r
        l == LoadLatest(m, e.id, e.at)
        found == CalledBefore(l.ops, e.id, e.at)
    IN  IF found = {} THEN l
        ELSE LET k   == LatestOf(l, found)
                 row == SetResult(l.ops[k], e)
                 put == PutOp(CloseWaitedCells(l, k, row, e), k, row, FALSE)
             IN  MarkTurn(put, k[1], Failed(row))

\* fails_call: content creation is judged by its file changes alone.
FailsCall(row, e) == e.err /\ (row.tool # "edit" \/ e.tool = "FileChange")

WithEvidence(row, e) ==
    [row EXCEPT !.callErr = @ \/ FailsCall(row, e), !.input = Append(@, e.at),
                !.payload = IF row.pending THEN @ ELSE Append(@, e.at),
                !.resErr = @ \/ (~row.pending /\ FailsCall(row, e)), !.changed = e.at]

AttachEvidence(r, k, e) ==
    LET new == WithEvidence(r.ops[k], e)
    IN  MarkTurn(PutOp(r, k, new, TRUE), k[1], Failed(new))

\* The call with the item's id, else the single exec whose window encloses it;
\* evidence with no single owner stays bookkeeping on its own event.
CorrelateRuntime(r, e) ==
    LET l     == OpsForPair(r, e.id, e.at)
        exact == CalledBefore(l.ops, e.id, e.at)
        m     == IF exact # {} THEN l ELSE RememberOps(l, ExecCandidates(l.d.ops, e.at, e.start))
        owners == IF exact # {} THEN exact
                  ELSE {k \in ExecCandidates(m.ops, e.at, e.start) : m.ops[k].pair # e.id}
    IN  IF Cardinality(owners) # 1 THEN m
        ELSE AttachEvidence(m, CHOOSE k \in owners : TRUE, e)

-----------------------------------------------------------------------------
(* Turns and usage (reduce.rs). *)

Bookkeeping(e) == e.k \in {"note", "evidence", "total"}

NewTurn(st, e, prompt) ==
    [ord |-> st.ord, side |-> e.side, prompt |-> IF prompt THEN e.id ELSE None,
     events |-> IF prompt THEN 1 ELSE 0, ops |-> 0, errors |-> FALSE, tokens |-> 0,
     base |-> st.total]

\* The session state once the turn is open.
Opened(st, e, prompt) ==
    [st EXCEPT !.side = IF e.side THEN e.at ELSE @, !.main = IF e.side THEN @ ELSE e.at,
               !.ord = @ + 1, !.turns = @ + 1, !.events = @ + (IF prompt THEN 1 ELSE 0)]

CreateTurn(r, e, prompt) ==
    [PutTurn(r, e.at, NewTurn(r.st, e, prompt)) EXCEPT
        !.st = Opened(@, e, prompt),
        !.links = IF e.side /\ e.link # None THEN @ \cup {<<e.link, e.at>>} ELSE @]

PriorUsage(r, m) ==
    IF m \in DOMAIN r.usage THEN r.usage[m]
    ELSE IF m \in DOMAIN r.d.usage THEN r.d.usage[m] ELSE [turn |-> 0, tokens |-> 0]

\* Claude bills a response once, at the turn of its first receipt, with its
\* latest receipt; Codex reports totals, so a turn's share is the rise since
\* it began.
ApplyUsage(r, t, e) ==
    CASE e.k = "total" ->
           [PutTurn(r, t, [r.turns[t] EXCEPT !.tokens = IF e.tok > r.turns[t].base
                                                        THEN e.tok - r.turns[t].base ELSE 0])
              EXCEPT !.st.total = e.tok]
      [] e.k = "reply" ->
           LET prior == PriorUsage(r, e.id)
               l     == LoadTurn(r, prior.turn)
               owner == IF prior.turn \in DOMAIN l.turns THEN prior.turn ELSE t
               less  == IF prior.turn = owner THEN prior.tokens ELSE 0
               put   == PutTurn(l, owner, [l.turns[owner] EXCEPT !.tokens = @ - less + e.tok])
           IN  [put EXCEPT !.usage = PutAt(@, e.id, [turn |-> owner, tokens |-> e.tok])]
      [] OTHER -> r

\* A call or a result acts on the operations; everything but a result is an
\* item of the turn.
Acted(r, t, e) ==
    CASE e.k = "call"   -> ApplyCall(r, t, e)
      [] e.k = "result" -> ApplyResult(r, t, e)
      [] OTHER          -> r

WithItem(r, t, e) == IF e.k = "result" THEN r ELSE [r EXCEPT !.items = @ \cup {<<t, e.at>>}]

AppendEvent(r, t, e) ==
    LET l == LoadTurn(r, t)
        c == [PutTurn(l, t, [l.turns[t] EXCEPT !.events = @ + 1]) EXCEPT !.st.events = @ + 1]
    IN  ApplyUsage(WithItem(Acted(c, t, e), t, e), t, e)

\* The turn an event lands in is the current one of its line of work; a prompt
\* opens one, and so does anything but bookkeeping while there is none.
Land(r, e) ==
    LET prompt == e.k = "prompt"
        current == IF e.side THEN r.st.side ELSE r.st.main
    IN  IF prompt THEN CreateTurn(r, e, TRUE)
        ELSE IF current # 0 THEN AppendEvent(r, current, e)
        ELSE IF Bookkeeping(e) THEN r
        ELSE AppendEvent(CreateTurn(r, e, FALSE), e.at, e)

PromptSeen(r, u) ==
    u \in r.prompts \/ \E t \in DOMAIN r.d.turns : r.d.turns[t].prompt = u

ApplyEvent(r, e) ==
    LET a == [r EXCEPT !.st.through = e.at]
        c == IF e.k = "evidence" THEN CorrelateRuntime(a, e) ELSE a
    IN  CASE e.k = "inherited" -> a
          [] e.k = "prompt" /\ e.id # None /\ PromptSeen(c, e.id) -> c
          [] e.k = "prompt" /\ e.id # None /\ ~PromptSeen(c, e.id) -> Land([c EXCEPT !.prompts = @ \cup {e.id}], e)
          [] OTHER -> Land(c, e)

-----------------------------------------------------------------------------
(* The batch and the tables (projection/write.rs). *)

\* persist: changed rows replace the stored ones, an operation's input only
\* when evidence changed it; the touches of new or changed inputs are redone.
Persist(r) ==
    LET changed == r.newOps \cup r.updated
        Op(k) == IF k \in r.newOps \cup r.inputs THEN r.ops[k]
                 ELSE [r.ops[k] EXCEPT !.input = r.d.ops[k].input]
    IN  [st |-> r.st,
         turns |-> Onto([t \in r.dirty |-> r.turns[t]], r.d.turns),
         ops |-> Onto([k \in changed |-> Op(k)], r.d.ops),
         items |-> r.d.items \cup r.items,
         usage |-> Onto(r.usage, r.d.usage),
         links |-> r.d.links \cup r.links,
         touches |-> Onto([k \in r.newOps \cup r.inputs |-> r.ops[k].input], r.d.touches)]

Waiting(through) == {i \in DOMAIN log : i > through}

\* load_session_events: the offsets of the next `budget` events after the cursor.
NextEvents(through, budget) ==
    {i \in Waiting(through) : Cardinality({j \in Waiting(through) : j <= i}) <= budget}

EventAt(i) == PutAt(log[i], "at", i)

\* The events at some offsets applied one after another: what there is after
\* each offset.
Folded(Step(_, _), base, offsets) ==
    LET after[i \in 0..MaxLine] ==
          IF i = 0 THEN base
          ELSE IF i \in offsets THEN Step(after[i - 1], EventAt(i)) ELSE after[i - 1]
    IN  after

\* The reducer after the events of a batch.
Reduce(d, batch) == Folded(ApplyEvent, NewReducer(d), batch)[MaxLine]

\* The rows a clear leaves: child links are kept.
Cleared == [NoRows EXCEPT !.links = stored.links]

Reconciled(s, d) == {k \in s : k \in DOMAIN d.ops}

\* project_batch, one transaction on the locked state row.
ProjectBatch(budget) ==
    LET d       == IF version = "old" THEN Cleared ELSE stored
        batch   == NextEvents(d.st.through, budget)
        r       == Reduce(d, batch)
        new     == IF batch = {} THEN d ELSE Persist(r)
        touched == IF batch = {} THEN {} ELSE r.newOps \cup r.updated
        caughtUp == Cardinality(batch) < budget
        redo    == reconcile \/ version = "old"
    IN  /\ stored' = new
        /\ version' = "current"
        /\ sources' = IF caughtUp /\ redo THEN Reconciled(sources \cup touched, new)
                      ELSE sources \cup touched
        /\ reconcile' = (redo /\ ~caughtUp)
        /\ UNCHANGED <<log, owed, behind>>

\* A session belongs to one agent: Claude receipts or Codex totals, never both.
OneAgent(e) ==
    LET kinds == {e.k} \cup {log[i].k : i \in DOMAIN log}
    IN  ~({"reply", "total"} \subseteq kinds)

\* The ingester stores the next line of the transcript, maybe past a refused one.
StoreLine(e) ==
    /\ OneAgent(e)
    /\ \E i \in 1..MaxLine :
          /\ \A j \in DOMAIN log : j < i
          /\ Cardinality({j \in 1..i : j \notin DOMAIN log}) <= 1 + MaxBehind
          /\ log' = PutAt(log, i, e)
    /\ UNCHANGED <<stored, version, reconcile, sources, owed, behind>>

\* A line refused earlier is stored behind the cursor.
StoreBehind(e) ==
    /\ behind < MaxBehind
    /\ OneAgent(e)
    /\ \E i \in 1..stored.st.through : i \notin DOMAIN log /\ log' = PutAt(log, i, e)
    /\ owed' = TRUE
    /\ behind' = behind + 1
    /\ UNCHANGED <<stored, version, reconcile, sources>>

RequestTimelineRebuild ==
    /\ owed
    /\ owed' = FALSE
    /\ version' = "old"
    /\ UNCHANGED <<log, stored, reconcile, sources, behind>>

ReducerInit ==
    /\ log = NoEntry
    /\ stored = NoRows
    /\ version = "current"
    /\ reconcile = FALSE
    /\ sources = {}
    /\ owed = FALSE
    /\ behind = 0

ReducerNext ==
    \/ \E e \in Line : StoreLine(e) \/ StoreBehind(e)
    \/ RequestTimelineRebuild
    \/ \E n \in 1..MaxLine : ProjectBatch(n)

-----------------------------------------------------------------------------
ReducerTypeOK ==
    /\ DOMAIN log \subseteq 1..MaxLine
    /\ stored.st.through \in 0..MaxLine
    /\ version \in {"current", "old"}
    /\ {reconcile, owed} \subseteq BOOLEAN
    /\ sources \subseteq (1..MaxLine) \X (0..MaxLine)
    /\ behind \in 0..MaxBehind

\* The rows when every event up to the cursor is committed in a batch of its own.
OneByOne ==
    Folded(LAMBDA d, e : Persist(ApplyEvent(NewReducer(d), e)), NoRows, DOMAIN log)[stored.st.through]

Settled == version = "current" /\ ~owed

\* The stored timeline does not depend on where the batches were cut, nor on
\* whether it was built in one go or rebuilt after lines went in behind the
\* cursor (project_batch, "a rebuild is the same loop from an emptied
\* projection"); only links of a replaced reading may be left over.
BatchesAgree ==
    Settled => /\ [stored EXCEPT !.links = {}] = [OneByOne EXCEPT !.links = {}]
               /\ OneByOne.links \subseteq stored.links

\* An operation is pending exactly while no result names it as the latest call
\* of its pair (apply_results, latest_op_for_pair).
AnsweredCalls ==
    LET calls(p) == {i \in DOMAIN log : log[i].k = "call" /\ log[i].id = p}
        answers(k) == {j \in DOMAIN log :
            /\ j <= stored.st.through /\ log[j].k = "result" /\ log[j].id = stored.ops[k].pair
            /\ stored.ops[k].call < j
            /\ ~\E i \in calls(log[j].id) : stored.ops[k].call < i /\ i < j}
    IN  Settled => \A k \in DOMAIN stored.ops : stored.ops[k].pending <=> answers(k) = {}

\* Evidence folded into an answered call is on its result too, whichever of the
\* two came first, and its file touches follow its input (set_result,
\* attach_to_output, into_changes).
EvidenceOnBoth ==
    \A k \in DOMAIN stored.ops :
        /\ ~stored.ops[k].pending => stored.ops[k].payload = stored.ops[k].input
        /\ stored.touches[k] = stored.ops[k].input

SumOf(f) == MapThenSumSet(LAMBDA x : f[x], DOMAIN f)

\* The session totals are the sums over its turns, and a Claude response is
\* billed once however many receipts it had and whichever turns they fell in.
TotalsAdd ==
    LET turns == stored.turns
        read == {i \in DOMAIN log : i <= stored.st.through}
        \* the last receipt of each response
        latest == {i \in read : /\ log[i].k = "reply"
                                /\ ~\E j \in read : log[j].k = "reply" /\ log[j].id = log[i].id /\ i < j}
    IN  Settled =>
          /\ SumOf([t \in DOMAIN turns |-> turns[t].events]) = stored.st.events
          /\ Cardinality(DOMAIN turns) = stored.st.turns
          /\ ~(\E i \in DOMAIN log : log[i].k = "total") =>
               SumOf([t \in DOMAIN turns |-> turns[t].tokens]) = SumOf([i \in latest |-> log[i].tok])

\* Once a rebuild has caught up, retrieval knows the operations of the timeline
\* and no others (refresh_operation_sources, reconcile_operation_sources).
SourcesFollowOperations ==
    (Settled /\ ~reconcile) => sources = DOMAIN stored.ops
=============================================================================
