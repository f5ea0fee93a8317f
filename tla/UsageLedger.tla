----------------------------- MODULE UsageLedger -----------------------------
(***************************************************************************)
(* The token ledger of one session (ingest/usage.rs, usage/records.rs,     *)
(* usage/claude.rs, usage/rebuild.rs) and the lineage that keeps a forked  *)
(* Codex session from being billed for its parent's history                *)
(* (ingester/codex_lineage.rs).  Lines are counted as they are inserted, a *)
(* tick at a time; a rebuild counts all stored lines again while the       *)
(* ingester goes on.  The five token categories are one.                   *)
(***************************************************************************)
EXTENDS Integers, Sequences, FiniteSets, FiniteSetsExt

CONSTANTS
    Receipt,    \* Claude lines: records [k, id, model, tok]
    Record,     \* Codex lines: totals, responses, turn contexts, foreign metas
    MaxStored,  \* bound: lines
    LastDay,    \* bound: days
    Fork        \* subagent_history_start_ordinal of a forked session

ASSUME LedgerAssumption ==
    /\ MaxStored \in Nat /\ LastDay \in Nat \ {0} /\ Fork \in Nat
    /\ \A l \in Receipt : l.k = "receipt" /\ l.tok \in Int
    /\ \A l \in Record : l.k \in {"total", "response", "turn", "foreign"} /\ l.tok \in Int

NoId == "no id"
UnknownModel == "(unknown model)"

VARIABLES
    rowsOf,     \* committed event rows: sequence of [line, day, inherited, parent]
    ledger,     \* the usage rows of the session
    ctx,        \* CodexSessionContext of the running tick, or NoCtx
    inserted,   \* the row the ingester's open transaction inserted, or <<>>
    today,
    lock        \* "free", or "held" while a rebuild has the usage tables

ledgerVars == <<rowsOf, ledger, ctx, inserted, today, lock>>

NoLedger == [exists |-> FALSE, total |-> 0, last |-> NoId, through |-> 0, modern |-> FALSE,
             claimed |-> {}, days |-> <<>>, models |-> <<>>]
NewCtx == [start |-> 0, turn |-> NoId]
NoCtx == <<>>

LedgerInit ==
    /\ rowsOf = <<>> /\ ledger = NoLedger
    /\ ctx = NoCtx /\ inserted = <<>>
    /\ today = 1 /\ lock = "free"

-----------------------------------------------------------------------------
(* Lineage.  A line's ordinal is its place in the file; ordinal 0 is the   *)
(* session's own session_meta.                                             *)

IsInherited(c, line, ordinal) ==
    line.k = "foreign" \/ (c.start > 0 /\ ordinal > 0 /\ ordinal < c.start)

UpdateContext(c, line, ordinal) ==
    IF IsInherited(c, line, ordinal) THEN c
    ELSE CASE line.k = "meta" -> [c EXCEPT !.start = line.tok]
           [] line.k = "turn" -> [c EXCEPT !.turn = line.model]
           [] OTHER -> c

\* enrich_codex_lineage: what the row says of its origin.
Enriched(c, line, ordinal, day) ==
    LET inherited == IsInherited(c, line, ordinal)
    IN  [line |-> line, day |-> day, inherited |-> inherited,
         parent |-> IF inherited \/ line.k = "meta" THEN NoId ELSE c.turn]

\* load_codex_context: the first session_meta of the session's own, then the
\* last turn that is not inherited.
LoadContext(rows) ==
    LET metas == {i \in DOMAIN rows : rows[i].line.k = "meta"}
        turns == {i \in DOMAIN rows : rows[i].line.k = "turn" /\ ~rows[i].inherited}
        one   == IF metas = {} THEN NewCtx ELSE UpdateContext(NewCtx, rows[Min(metas)].line, Min(metas) - 1)
    IN  IF turns = {} THEN one ELSE UpdateContext(one, rows[Max(turns)].line, Max(turns) - 1)

\* repair_codex_session: every row again, the context carried in offset order.
ContextAfter(rows) ==
    LET c[i \in 0 .. Len(rows)] ==
            IF i = 0 THEN NewCtx ELSE UpdateContext(c[i - 1], rows[i].line, i - 1)
    IN  c

Rederived(rows) ==
    [i \in DOMAIN rows |->
        Enriched(ContextAfter(rows)[i - 1], rows[i].line, i - 1, rows[i].day)]

-----------------------------------------------------------------------------
(* Counting a line (upsert_from_event). *)

\* INSERT .. ON CONFLICT DO UPDATE of one row, to a value or by an amount.
Upsert(f, key, n) == [k \in DOMAIN f \cup {key} |-> IF k = key THEN n ELSE f[k]]
AddTo(f, key, n) == Upsert(f, key, n + (IF key \in DOMAIN f THEN f[key] ELSE 0))

\* SUM(..) of the rows S.
SumOver(f, S) == MapThenSumSet(LAMBDA x : f[x], S)

Floor(n) == IF n > 0 THEN n ELSE 0

\* Mutant: the shrunken total is subtracted.
DailyDeltaSigned(l, line) ==
    IF line.k = "total" THEN line.tok - l.total ELSE line.tok

\* The share of a day: what a response adds, or the rise of a total; a total
\* that shrank adds nothing and becomes the new baseline.
DailyDelta(l, line) ==
    IF line.k = "total" THEN Floor(line.tok - l.total) ELSE line.tok

\* The model in force: the last turn context stored before the line.
ModelAt(rows, i) ==
    LET turns == {j \in 1..i : rows[j].line.k = "turn" /\ ~rows[j].inherited}
    IN  IF turns = {} THEN UnknownModel ELSE rows[Max(turns)].line.model

CountCodex(l, rows, i) ==
    LET row  == rows[i]
        line == row.line
        add  == [l EXCEPT !.exists = TRUE, !.through = i,
                   !.total = IF line.k = "total" THEN line.tok ELSE @ + line.tok,
                   !.modern = @ \/ line.k = "response",
                   !.claimed = IF line.k = "response" THEN @ \cup {line.id} ELSE @,
                   !.models = AddTo(@, <<row.day, ModelAt(rows, i)>>, DailyDelta(l, line))]
        seen == [l EXCEPT !.through = i]    \* update_context
        Snap(m) == [m EXCEPT !.days = Upsert(@, row.day, m.total)]
    IN  CASE line.k \notin {"total", "response"} -> l
          [] line.k = "response" /\ line.id \in l.claimed -> l
          [] line.k = "total" /\ l.modern -> Snap(seen)
          [] OTHER -> Snap(add)

\* A revised Claude receipt replaces the one before it, which may have been
\* billed to another day or model.
Cumulative(models) ==
    LET days == {k[1] : k \in DOMAIN models}
        Upto(d) == {k \in DOMAIN models : k[1] <= d}
    IN  [d \in days |-> SumOver(models, Upto(d))]

LatestReceipts(rows) ==
    {i \in DOMAIN rows : rows[i].line.id = NoId
                          \/ \A j \in DOMAIN rows : rows[j].line.id = rows[i].line.id => j <= i}

ApplyResponse(l, rows, i) ==
    LET row   == rows[i]
        line  == row.line
        old   == {j \in 1..(i - 1) : line.id # NoId /\ rows[j].line.id = line.id}
        prior == IF old = {} THEN row ELSE rows[Max(old)]
        less  == IF old = {} THEN 0 ELSE prior.line.tok
        moved == prior.day # row.day \/ prior.line.model # line.model
        sub   == IF old = {} THEN l.models
                 ELSE [l.models EXCEPT ![<<prior.day, prior.line.model>>] = @ - less]
        added == AddTo(sub, <<row.day, line.model>>, line.tok)
        kept  == {<<rows[j].day, rows[j].line.model>> : j \in LatestReceipts(SubSeq(rows, 1, i))}
        models == IF moved THEN [k \in DOMAIN added \cap kept |-> added[k]] ELSE added
        total == l.total - less + line.tok
    IN  [l EXCEPT !.exists = TRUE, !.through = i, !.last = line.id, !.total = total,
                  !.models = models,
                  !.days = IF prior.day # row.day THEN Cumulative(models) ELSE Upsert(@, row.day, total)]

\* Inherited lines have no derivatives; a line at or behind the ledger's last
\* offset is not counted.
CountLine(l, rows, i) ==
    IF rows[i].inherited \/ (l.exists /\ i <= l.through) THEN l
    ELSE IF rows[i].line.k = "receipt" THEN ApplyResponse(l, rows, i) ELSE CountCodex(l, rows, i)

-----------------------------------------------------------------------------
(* The ingester. *)

Codex(rows) == rows # <<>> /\ rows[1].line.k = "meta"

BeginTickOf ==
    /\ ctx = NoCtx
    /\ ctx' = LoadContext(rowsOf)
    /\ UNCHANGED <<rowsOf, ledger, inserted, today, lock>>

\* Lines a transcript can hold next: a Codex file begins with its session_meta.
NextLines ==
    IF rowsOf = <<>> THEN Receipt \cup {[k |-> "meta", id |-> NoId, model |-> UnknownModel, tok |-> n] : n \in {0, Fork}}
    ELSE IF Codex(rowsOf) THEN Record ELSE Receipt

\* The row goes in; usage is counted later in the same transaction.
InsertRow(line) ==
    /\ ctx # NoCtx /\ inserted = <<>>
    /\ Len(rowsOf) < MaxStored
    /\ line \in NextLines
    /\ inserted' = <<Enriched(ctx, line, Len(rowsOf), today)>>
    /\ UNCHANGED <<rowsOf, ledger, ctx, today, lock>>

\* The usage tables are written and the transaction commits; a rebuild's lock
\* makes it wait.  The tick's context follows.
CommitRow ==
    /\ inserted # <<>> /\ lock = "free"
    /\ LET rows == rowsOf \o inserted
       IN  /\ rowsOf' = rows
           /\ ledger' = CountLine(ledger, rows, Len(rows))
           /\ ctx' = UpdateContext(ctx, inserted[1].line, Len(rows) - 1)
    /\ inserted' = <<>>
    /\ UNCHANGED <<today, lock>>

\* The tick ends, or the process stops inside the transaction.
EndTickOf ==
    /\ ctx # NoCtx
    /\ ctx' = NoCtx
    /\ inserted' = <<>>
    /\ UNCHANGED <<rowsOf, ledger, today, lock>>

Midnight ==
    /\ today < LastDay
    /\ today' = today + 1
    /\ UNCHANGED <<rowsOf, ledger, ctx, inserted, lock>>

-----------------------------------------------------------------------------
(* The rebuild (rebuild_usage_projection). *)

\* Codex totals alone: each day's rise over the total before it (model_daily.sql).
RebuildLegacy(rows) ==
    LET totals == {i \in DOMAIN rows : rows[i].line.k = "total" /\ ~rows[i].inherited}
        Before(i) == {j \in totals : j < i}
        rise == [i \in totals |-> Floor(rows[i].line.tok - (IF Before(i) = {} THEN 0 ELSE rows[Max(Before(i))].line.tok))]
        keys == {<<rows[i].day, ModelAt(rows, i)>> : i \in totals}
        days == {rows[i].day : i \in totals}
    IN  IF totals = {} THEN NoLedger
        ELSE [NoLedger EXCEPT !.exists = TRUE, !.total = rows[Max(totals)].line.tok,
                !.through = Max(totals),
                !.days = [d \in days |-> rows[Max({i \in totals : rows[i].day = d})].line.tok],
                !.models = [k \in keys |-> SumOver(rise, {i \in totals : <<rows[i].day, ModelAt(rows, i)>> = k})]]

\* Claude: the latest receipt of each response (claude_sessions.sql).
RebuildClaude(rows) ==
    LET latest == LatestReceipts(rows)
        tok == [i \in DOMAIN rows |-> rows[i].line.tok]
        keys == {<<rows[i].day, rows[i].line.model>> : i \in latest}
        models == [k \in keys |-> SumOver(tok, {i \in latest : <<rows[i].day, rows[i].line.model>> = k})]
    IN  [NoLedger EXCEPT !.exists = TRUE, !.total = SumOver(tok, latest), !.through = Len(rows),
            !.last = rows[Len(rows)].line.id, !.days = Cumulative(models), !.models = models]

\* Replay::observe: a session with response records is counted again in
\* memory; the totals before its first response stay its baseline, the ones
\* after it only report context.
Observe(r, row, i) ==
    LET line == row.line
        isResponse == line.k = "response"
        contextOnly == ~isResponse /\ r.claimed # {}
        delta == DailyDelta(r, line)
        total == IF contextOnly THEN r.total ELSE IF isResponse THEN r.total + line.tok ELSE line.tok
    IN  CASE line.k = "turn" -> [r EXCEPT !.model = line.model]
          [] line.k \notin {"turn", "total", "response"} -> r
          [] isResponse /\ line.id \in r.claimed -> r
          [] OTHER ->
               [r EXCEPT !.claimed = IF isResponse THEN @ \cup {line.id} ELSE @,
                         !.models = IF contextOnly THEN @ ELSE AddTo(@, <<row.day, r.model>>, delta),
                         !.total = total, !.through = i, !.days = Upsert(@, row.day, total)]

NewReplay == [model |-> UnknownModel, total |-> 0, through |-> 0, claimed |-> {}, days |-> <<>>, models |-> <<>>]

\* The replay after each of the rows.
Observed(rows) ==
    LET r[i \in 0 .. Len(rows)] ==
            IF i = 0 THEN NewReplay
            ELSE IF rows[i].inherited THEN r[i - 1] ELSE Observe(r[i - 1], rows[i], i)
    IN  r

Replay(rows) ==
    LET r == Observed(rows)[Len(rows)]
    IN  [NoLedger EXCEPT !.exists = TRUE, !.modern = TRUE, !.total = r.total, !.through = r.through,
                         !.claimed = r.claimed, !.days = r.days, !.models = r.models]

Rebuilt(rows) ==
    IF rows = <<>> THEN NoLedger
    ELSE IF ~Codex(rows) THEN RebuildClaude(rows)
    ELSE IF \E i \in DOMAIN rows : rows[i].line.k = "response" /\ ~rows[i].inherited THEN Replay(rows)
    ELSE RebuildLegacy(rows)

LockUsage ==
    /\ lock = "free"
    /\ lock' = "held"
    /\ UNCHANGED <<rowsOf, ledger, ctx, inserted, today>>

CommitRebuild ==
    /\ lock = "held"
    /\ ledger' = Rebuilt(rowsOf)
    /\ lock' = "free"
    /\ UNCHANGED <<rowsOf, ctx, inserted, today>>

LedgerNext ==
    \/ BeginTickOf \/ EndTickOf \/ Midnight
    \/ \E line \in Receipt \cup Record \cup NextLines : InsertRow(line)
    \/ CommitRow
    \/ LockUsage \/ CommitRebuild

-----------------------------------------------------------------------------
LedgerTypeOK ==
    /\ Len(rowsOf) <= MaxStored /\ Len(inserted) <= 1
    /\ today \in 1..LastDay
    /\ lock \in {"free", "held"}
    /\ ledger.through \in 0..MaxStored
    /\ DOMAIN ledger.days \subseteq 1..LastDay

\* Counting line by line gives what counting all stored lines again gives:
\* totals, days, models and claimed responses.  So a rebuild at any moment,
\* with an insert under way, neither loses nor repeats a line.
CountedOnce ==
    LET again == Rebuilt(rowsOf)
    IN  /\ ledger.total = again.total
        /\ ledger.days = again.days
        /\ ledger.models = again.models
        /\ ledger.claimed = again.claimed

\* Rows derived tick by tick say what deriving them again from the first line
\* says (repair_codex_session): the turn a line belongs to, and whether it is
\* the parent's, do not depend on the tick it fell into.
RepairChangesNothing == rowsOf = Rederived(rowsOf)

\* A forked session pays for no line of its parent's.
OwnLinesOnly ==
    LET start == rowsOf[1].line.tok
    IN  Codex(rowsOf) => \A i \in DOMAIN rowsOf : i - 1 \in 1..(start - 1) => rowsOf[i].inherited
=============================================================================
