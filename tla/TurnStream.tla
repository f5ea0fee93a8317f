----------------------------- MODULE TurnStream -----------------------------
(***************************************************************************)
(* Reading one turn while it is being written (projection/stream.rs,       *)
(* api/turn_stream_routes.rs, projection/view.rs and the row loads of      *)
(* projection.rs).  No transaction spans a read: the stream reads a        *)
(* position (generation and cursor), then a page of items, then the        *)
(* operations they name, and checks the position again before it sends the *)
(* page; a later request resumes after the checkpoint.  The projection     *)
(* meanwhile appends, rewrites operations, is rebuilt, or is purged.       *)
(***************************************************************************)
EXTENDS Integers, Sequences, FiniteSets, FiniteSetsExt, Functions

CONSTANTS
    MaxOffset,      \* bound: events of the transcript
    MaxGeneration,  \* bound: rebuilds
    PageSize        \* BATCH_SIZE

ASSUME StreamAssumption ==
    PageSize \in Nat \ {0} /\ MaxOffset \in Nat /\ MaxGeneration \in Nat \ {0}

VARIABLES
    written,    \* the turn's rows: its items' offsets, when each operation changed, or no row
    through,    \* projected_through
    generation, \* timeline_session_state.generation
    stale,      \* the rows were deleted and the generation not changed yet (reset.rs)
    gone,       \* purged_at is set: items and operations are deleted
    made,       \* what the event at each offset does to the turn
    req,        \* the request being served
    client      \* what the tab holds: its cursor, the items and the operation versions

streamVars == <<written, through, generation, stale, gone, made, req, client>>

NoTurn == [exists |-> FALSE, item |-> {}, op |-> <<>>]
NoCursor == [gen |-> <<0, FALSE>>, since |-> -1, through |-> -1, item |-> 0, op |-> 0, itemsDone |-> FALSE]
Idle == [pc |-> "idle", cur |-> NoCursor, items |-> {}, ops |-> <<>>, whole |-> FALSE]
Empty == [has |-> FALSE, cur |-> NoCursor, items |-> {}, ops |-> <<>>]

\* position(): purging changes the available data without advancing offsets.
Position == <<generation, gone>>

StreamInit ==
    /\ written = NoTurn
    /\ through = 0
    /\ generation = 1
    /\ stale = FALSE
    /\ gone = FALSE
    /\ made = <<>>
    /\ req = Idle
    /\ client = Empty

-----------------------------------------------------------------------------
(* The writer: one event of the turn per batch. *)

\* An event adds an item with a call, or changes the operation of an earlier call.
EventKind == {"call", "result"}

Apply(w, i, kind) ==
    CASE kind = "call" ->
           [exists |-> TRUE, item |-> w.item \cup {i}, op |-> Append(w.op, i)]
      [] kind = "result" ->
           [exists |-> TRUE, item |-> w.item,
            op |-> IF w.op = <<>> THEN w.op ELSE [w.op EXCEPT ![1] = i]]

\* The next event; the first batch after a deletion starts from the beginning
\* under a new generation.
WriteBatch(kind) ==
    /\ ~gone
    /\ IF stale
       THEN /\ 1 \in DOMAIN made /\ kind = made[1]
            /\ generation' = generation + 1
            /\ through' = 1
            /\ written' = Apply(NoTurn, 1, kind)
            /\ stale' = FALSE
            /\ UNCHANGED made
       ELSE /\ through < MaxOffset
            /\ through + 1 \in DOMAIN made => kind = made[through + 1]
            /\ made' = IF through + 1 \in DOMAIN made THEN made ELSE Append(made, kind)
            /\ through' = through + 1
            /\ written' = Apply(written, through + 1, kind)
            /\ UNCHANGED <<generation, stale>>
    /\ UNCHANGED <<gone, req, client>>

\* rebuild_ingest_derivatives: the turns go first, the generation changes with
\* the batch that starts over.
Reindex ==
    /\ ~gone /\ ~stale /\ through > 0
    /\ generation < MaxGeneration
    /\ written' = NoTurn
    /\ stale' = TRUE
    /\ UNCHANGED <<through, generation, gone, made, req, client>>

\* The archive purge keeps the turn row and deletes its items and operations.
PurgeTurns ==
    /\ ~gone /\ ~stale /\ written.exists
    /\ through = Len(made)
    /\ gone' = TRUE
    /\ written' = [written EXCEPT !.item = {}, !.op = <<>>]
    /\ UNCHANGED <<through, generation, stale, made, req, client>>

-----------------------------------------------------------------------------
(* The stream. *)

\* begin: resume the client's cursor unless the generation moved on or its
\* checkpoint lies beyond the projection.
BeginStream ==
    /\ req.pc = "idle"
    /\ LET reset == ~client.has \/ client.cur.gen # Position \/ client.cur.since > through
           base  == IF reset THEN [NoCursor EXCEPT !.gen = Position] ELSE client.cur
           cur   == IF base.through = -1 THEN [base EXCEPT !.through = through] ELSE base
       IN  req' = [Idle EXCEPT !.pc = "header", !.cur = cur, !.whole = reset]
    /\ UNCHANGED <<written, through, generation, stale, gone, made, client>>

\* The header is sent once the row is loaded and the generation still holds; a
\* reset header makes the client drop what it has.
SendHeader ==
    /\ req.pc = "header"
    /\ IF ~written.exists \/ Position # req.cur.gen
       THEN req' = Idle /\ UNCHANGED client
       ELSE /\ req' = [req EXCEPT !.pc = "page"]
            /\ client' = IF req.whole THEN [Empty EXCEPT !.has = TRUE, !.cur = req.cur]
                         ELSE [client EXCEPT !.cur = req.cur]
    /\ UNCHANGED <<written, through, generation, stale, gone, made>>

\* The first rows of a page: the `n` smallest of a set.
FirstRows(rows, n) == {i \in rows : Cardinality({j \in rows : j < i}) < n}

\* next: a moved generation is a reset; otherwise a page of items up to the
\* checkpoint, or of operations changed after the last one.
PageItems(cur) == FirstRows({i \in written.item : i > cur.item /\ i <= cur.through}, PageSize)

\* Mutant: a page of items that came back full ends the items as well.
ReadPageShort ==
    /\ req.pc = "page"
    /\ LET cur == req.cur
           items == PageItems(cur)
           ords == FirstRows({o \in DOMAIN written.op : o > cur.op /\ written.op[o] > cur.since}, PageSize)
       IN  CASE Position # cur.gen -> req' = [req EXCEPT !.pc = "reset"]
             [] Position = cur.gen /\ ~cur.itemsDone ->
                  req' = [req EXCEPT !.pc = "refs", !.items = items,
                            !.cur.itemsDone = Cardinality(items) <= PageSize,
                            !.cur.item = IF items = {} THEN @ ELSE Max(items)]
             [] Position = cur.gen /\ cur.itemsDone ->
                  req' = [req EXCEPT !.pc = IF ords = {} THEN "complete" ELSE "send",
                            !.ops = [o \in ords |-> written.op[o]],
                            !.cur.op = IF ords = {} THEN @ ELSE Max(ords)]
    /\ UNCHANGED <<written, through, generation, stale, gone, made, client>>

ReadPage ==
    /\ req.pc = "page"
    /\ LET cur == req.cur
           items == PageItems(cur)
           ords == FirstRows({o \in DOMAIN written.op : o > cur.op /\ written.op[o] > cur.since}, PageSize)
       IN  CASE Position # cur.gen -> req' = [req EXCEPT !.pc = "reset"]
             [] Position = cur.gen /\ ~cur.itemsDone ->
                  req' = [req EXCEPT !.pc = "refs", !.items = items,
                            !.cur.itemsDone = Cardinality(items) < PageSize,
                            !.cur.item = IF items = {} THEN @ ELSE Max(items)]
             [] Position = cur.gen /\ cur.itemsDone ->
                  req' = [req EXCEPT !.pc = IF ords = {} THEN "complete" ELSE "send",
                            !.ops = [o \in ords |-> written.op[o]],
                            !.cur.op = IF ords = {} THEN @ ELSE Max(ords)]
    /\ UNCHANGED <<written, through, generation, stale, gone, made, client>>

\* The operations the page's items name, read after the items.  The call of an
\* item is the operation created at its offset, in the order of the calls.
ReadReferences ==
    /\ req.pc = "refs"
    /\ LET calls == {i \in DOMAIN made : made[i] = "call"}
           ords  == {Cardinality({j \in calls : j <= i}) : i \in req.items}
       IN  req' = [req EXCEPT !.pc = "send", !.ops = Restrict(written.op, ords \cap DOMAIN written.op)]
    /\ UNCHANGED <<written, through, generation, stale, gone, made, client>>

\* The rows of a page replace what the tab has of them.
Over(page, held) ==
    [o \in DOMAIN page \cup DOMAIN held |-> IF o \in DOMAIN page THEN page[o] ELSE held[o]]

\* A page is sent only if the generation held while it was read.
SendPage ==
    /\ req.pc = "send"
    /\ IF Position # req.cur.gen
       THEN req' = [req EXCEPT !.pc = "reset"] /\ UNCHANGED client
       ELSE /\ req' = [req EXCEPT !.pc = "page", !.items = {}, !.ops = <<>>]
            /\ client' = [client EXCEPT !.items = @ \cup req.items, !.ops = Over(req.ops, @), !.cur = req.cur]
    /\ UNCHANGED <<written, through, generation, stale, gone, made>>

\* Nothing left: the checkpoint becomes the next `since`.
SendComplete ==
    /\ req.pc = "complete"
    /\ IF Position # req.cur.gen
       THEN req' = [req EXCEPT !.pc = "reset"] /\ UNCHANGED client
       ELSE /\ req' = Idle
            /\ client' = [client EXCEPT !.cur = [gen |-> req.cur.gen, since |-> req.cur.through,
                            through |-> -1, item |-> req.cur.through, op |-> 0, itemsDone |-> FALSE]]
    /\ UNCHANGED <<written, through, generation, stale, gone, made>>

\* A reset record: the client forgets the turn and asks again from nothing.
SendReset ==
    /\ req.pc = "reset"
    /\ req' = Idle
    /\ client' = Empty
    /\ UNCHANGED <<written, through, generation, stale, gone, made>>

\* The connection drops, or a query fails: the client keeps its last cursor.
DropStream ==
    /\ req.pc # "idle"
    /\ req' = Idle
    /\ UNCHANGED <<written, through, generation, stale, gone, made, client>>

Serve == SendHeader \/ ReadPage \/ ReadReferences \/ SendPage \/ SendComplete \/ SendReset

StreamNext ==
    \/ \E kind \in EventKind : WriteBatch(kind)
    \/ Reindex \/ PurgeTurns
    \/ BeginStream \/ Serve \/ DropStream

-----------------------------------------------------------------------------
StreamTypeOK ==
    /\ written.item \subseteq 1..MaxOffset
    /\ through \in 0..MaxOffset
    /\ generation \in 1..MaxGeneration
    /\ {stale, gone} \subseteq BOOLEAN
    /\ req.pc \in {"idle", "header", "page", "refs", "send", "complete", "reset"}
    /\ client.items \subseteq 1..MaxOffset

Fresh == client.has /\ client.cur.gen = Position /\ ~stale

\* A tab holds every item up to its checkpoint and every operation at least as
\* new as the checkpoint, however the pages and the writer's commits interleaved
\* and wherever the stream was dropped and resumed (begin, next).
NothingSkipped ==
    Fresh =>
        /\ \A i \in written.item : i <= client.cur.since => i \in client.items
        /\ \A o \in DOMAIN written.op :
              written.op[o] <= client.cur.since => o \in DOMAIN client.ops /\ client.ops[o] = written.op[o]

\* What a tab shows under the current generation was written under it: nothing
\* survives of a reading that was replaced or purged.
NothingLeftOver ==
    (Fresh /\ through = Len(made)) =>
        client.items \subseteq written.item /\ DOMAIN client.ops \subseteq DOMAIN written.op

=============================================================================
