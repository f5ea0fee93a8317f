--------------------------- MODULE TranscriptTail ---------------------------
(***************************************************************************)
(* How the ingester follows one transcript file, byte by byte              *)
(* (backend/src/ingest/ingester.rs `process_file`, ingest/tail.rs and      *)
(* ingest/file_scan.rs).  An agent appends to the file at any moment; a    *)
(* tick takes a snapshot of the file's length and the committed offset,    *)
(* reads a bounded window, inserts each newline-terminated line in a       *)
(* transaction of its own, and only then commits the offset.  The process  *)
(* may die, and the database may refuse a statement, between any two.      *)
(*                                                                         *)
(* A byte is one of: a newline, a byte of JSON, or a byte that spoils the  *)
(* JSON of its line.  A line is blank, malformed or well-formed from that. *)
(* Offsets are 0-based byte positions, as in the code: the byte at offset  *)
(* `o` is `file[o + 1]`.                                                   *)
(***************************************************************************)
EXTENDS Naturals, Sequences, FiniteSets

CONSTANTS
    MaxRead,        \* MAX_READ_BYTES: the window one tick buffers
    AdmitLines,     \* ADMIT_LINES_PER_TICK
    MaxLen,         \* bound: bytes the agent ever writes in a file
    MaxCrashes,     \* bound: ingester process deaths
    MaxFaults,      \* bound: statements the database refuses
    MaxTruncates    \* bound: times the file is truncated under its name

ASSUME TailAssumption ==
    /\ MaxRead \in Nat \ {0}
    /\ AdmitLines \in Nat \ {0}
    /\ {MaxLen, MaxCrashes, MaxFaults, MaxTruncates} \subseteq Nat

Newline == "nl"
Json == "json"
Spoil == "spoil"
Byte == {Newline, Json, Spoil}

VARIABLES
    file,       \* the transcript on disk
    offset,     \* ingester_state.last_committed_byte_offset
    events,     \* offsets of this session's rows in `events`
    tick,       \* process_file's local state
    crashes, faults, truncates,     \* how much of each bound is spent
    missed      \* history: offsets a refused insert was passed over at

durable == <<file, offset, events>>
bounds == <<crashes, faults, truncates>>
vars == <<file, offset, events, tick, crashes, faults, truncates, missed>>

-----------------------------------------------------------------------------
(* Lines of a byte string.                                                 *)

\* Positions just past each newline: where the following line starts.
Newlines(f) == {i \in 1 .. Len(f) : f[i] = Newline}

LineStarts(f) == {0} \cup Newlines(f)

\* The first newline at or after offset `from`, as the offset just past it.
\* `next_line_boundary` returns it; the walk over the buffer looks for it.
Boundary(f, from) ==
    CHOOSE i \in Newlines(f) : i > from /\ \A j \in Newlines(f) : j > from => i <= j

HasBoundary(f, from) == \E i \in Newlines(f) : i > from

Least(a, b) == IF a <= b THEN a ELSE b

(* What `insert_event` makes of a line: a blank line is accepted silently, *)
(* one that is not JSON is a parse error, any other becomes a row.         *)
Blank(line) == line = <<>>
Malformed(line) == \E i \in DOMAIN line : line[i] = Spoil
WellFormed(line) == ~Blank(line) /\ ~Malformed(line)

-----------------------------------------------------------------------------
Idle == [pc |-> "idle"]

Init ==
    /\ file = <<>>
    /\ offset = 0
    /\ events = {}
    /\ tick = Idle
    /\ crashes = 0 /\ faults = 0 /\ truncates = 0
    /\ missed = {}

\* The agent appends a byte to its transcript.
AgentWrite(b) ==
    /\ Len(file) < MaxLen
    /\ file' = Append(file, b)
    /\ UNCHANGED <<offset, events, tick, bounds, missed>>

\* The transcript is truncated, or replaced by a new file of the same name.
AgentTruncate ==
    /\ truncates < MaxTruncates
    /\ file # <<>>
    /\ file' = <<>>
    /\ truncates' = truncates + 1
    /\ UNCHANGED <<offset, events, tick, crashes, faults, missed>>

\* dirty_transcript_files: the length and the committed offset differ.
Scan ==
    /\ tick.pc = "idle"
    /\ Len(file) # offset
    /\ tick' = [pc |-> "open", committed |-> offset, len |-> Len(file)]
    /\ UNCHANGED <<durable, bounds, missed>>

\* Mutant of ResetShrunk: the mismatch is reported and the offset kept.
ReportShrunk ==
    /\ tick.pc = "open"
    /\ tick.len < tick.committed
    /\ tick' = Idle
    /\ UNCHANGED <<durable, bounds, missed>>

\* A file shorter than the committed offset starts over from 0.
ResetShrunk ==
    /\ tick.pc = "open"
    /\ tick.len < tick.committed
    /\ offset' = 0
    /\ tick' = Idle
    /\ UNCHANGED <<file, events, bounds, missed>>

\* Seek to the committed offset and read at most the window.  The file may
\* have changed since the scan, so the read can come up short.
ReadWindow ==
    /\ tick.pc = "open"
    /\ tick.len >= tick.committed
    /\ LET cap == Least(tick.len - tick.committed, MaxRead)
           upTo == Least(tick.committed + cap, Len(file))
       IN tick' = [pc |-> "walk", committed |-> tick.committed,
                   buf |-> SubSeq(file, tick.committed + 1, upTo),
                   start |-> 0, admitted |-> 0]
    /\ UNCHANGED <<durable, bounds, missed>>

\* The admission cap, or the time slice once a line is in, ends the walk.
AdmissionClosed == tick.admitted > 0

\* Mutant of WalkHasLine: the admission cap is not checked before a line.
WalkHasLineUncapped == tick.pc = "walk" /\ HasBoundary(tick.buf, tick.start)

\* The walk's next complete line.
WalkHasLine ==
    /\ tick.pc = "walk"
    /\ HasBoundary(tick.buf, tick.start)
    /\ tick.admitted < AdmitLines

WalkLine == SubSeq(tick.buf, tick.start + 1, Boundary(tick.buf, tick.start) - 1)

\* Mutant of WalkOffset: the row is keyed by its place in the window.
WalkOffsetInWindow == tick.start

WalkOffset == tick.committed + tick.start

Advance == tick' = [tick EXCEPT !.start = Boundary(tick.buf, tick.start),
                                !.admitted = @ + 1]

\* One insert_event call that commits (or has nothing to insert).
InsertLine ==
    /\ WalkHasLine
    /\ events' = IF WellFormed(WalkLine) THEN events \cup {WalkOffset} ELSE events
    /\ missed' = missed \ {WalkOffset}
    /\ Advance
    /\ UNCHANGED <<file, offset, bounds>>

\* InsertError::Db is logged and the walk goes on to the next line.
InsertRefused ==
    /\ WalkHasLine
    /\ WellFormed(WalkLine)
    /\ faults < MaxFaults
    /\ faults' = faults + 1
    /\ missed' = IF WalkOffset \in events THEN missed ELSE missed \cup {WalkOffset}
    /\ Advance
    /\ UNCHANGED <<durable, crashes, truncates>>

WalkEnded ==
    /\ tick.pc = "walk"
    /\ ~HasBoundary(tick.buf, tick.start) \/ AdmissionClosed

\* A full window without one newline: the line outgrew it.
Oversized == tick.start = 0 /\ Len(tick.buf) >= MaxRead

\* Mutant of CommitOffset: the partial line after the last newline is committed too.
CommitPastTail ==
    /\ WalkEnded
    /\ ~Oversized
    /\ offset' = tick.committed + Len(tick.buf)
    /\ tick' = Idle
    /\ UNCHANGED <<file, events, bounds, missed>>

\* set_offset past the last newline walked; nothing to write when none was.
CommitOffset ==
    /\ WalkEnded
    /\ ~Oversized
    /\ offset' = IF tick.start = 0 THEN offset ELSE tick.committed + tick.start
    /\ tick' = Idle
    /\ UNCHANGED <<file, events, bounds, missed>>

\* Mutant of SkipOversizedLine: an oversized line is waited out like a partial one.
WaitForOversizedLine ==
    /\ WalkEnded
    /\ Oversized
    /\ tick' = Idle
    /\ UNCHANGED <<durable, bounds, missed>>

\* skip_oversized_line: resume past the next newline, or wait for one.
SkipOversizedLine ==
    /\ WalkEnded
    /\ Oversized
    /\ LET scannedTo == tick.committed + Len(tick.buf)
       IN offset' = IF HasBoundary(file, scannedTo)
                    THEN Boundary(file, scannedTo) ELSE offset
    /\ tick' = Idle
    /\ UNCHANGED <<file, events, bounds, missed>>

\* set_offset fails: `?` leaves the file for the next tick.
CommitRefused ==
    /\ \/ WalkEnded /\ (tick.start # 0 \/ Oversized)
       \/ tick.pc = "open" /\ tick.len < tick.committed
    /\ faults < MaxFaults
    /\ faults' = faults + 1
    /\ tick' = Idle
    /\ UNCHANGED <<durable, crashes, truncates, missed>>

\* The ingester dies and is started again; what the tick held is gone.
Crash ==
    /\ tick.pc # "idle"
    /\ crashes < MaxCrashes
    /\ crashes' = crashes + 1
    /\ tick' = Idle
    /\ UNCHANGED <<durable, faults, truncates, missed>>

Ingest == Scan \/ ResetShrunk \/ ReadWindow \/ InsertLine \/ CommitOffset \/ SkipOversizedLine

Next ==
    \/ \E b \in Byte : AgentWrite(b)
    \/ AgentTruncate
    \/ Ingest
    \/ InsertRefused
    \/ CommitRefused
    \/ Crash

\* ingest_loop never ends: while the file differs, the next step of a tick is taken.
Fairness == WF_vars(Ingest)

Spec == Init /\ [][Next]_vars /\ Fairness

-----------------------------------------------------------------------------
(* Properties.                                                             *)

TickType ==
    \/ tick = Idle
    \/ tick \in [pc : {"open"}, committed : Nat, len : Nat]
    \/ /\ DOMAIN tick = {"pc", "committed", "buf", "start", "admitted"}
       /\ tick.pc = "walk"
       /\ tick.committed \in Nat
       /\ tick.buf \in Seq(Byte)
       /\ tick.start \in LineStarts(tick.buf)
       /\ tick.admitted \in 0 .. AdmitLines

\* Every variable stays in its set, and the walk only rests on line starts of its buffer.
TypeOK ==
    /\ file \in Seq(Byte)
    /\ offset \in Nat
    /\ events \subseteq Nat
    /\ missed \subseteq Nat
    /\ TickType
    /\ crashes \in 0 .. MaxCrashes
    /\ faults \in 0 .. MaxFaults
    /\ truncates \in 0 .. MaxTruncates

(* The line that starts at offset o of f: complete, and what the code      *)
(* would store of it, whatever ticks it was read in.                       *)
LineAt(f, o) == SubSeq(f, o + 1, Boundary(f, o) - 1)

Storable(f, o) ==
    /\ o \in LineStarts(f)
    /\ HasBoundary(f, o)
    /\ WellFormed(LineAt(f, o))
    /\ Len(LineAt(f, o)) < MaxRead

\* However the ticks are cut by the window, the admission cap, the oversized-line
\* skip, a refused statement or a crash: `last_committed_byte_offset` is the
\* byte following a newline, or 0 (ingester.rs:6); below it `events` holds
\* exactly the storable lines of the file (but those a refused insert was passed
\* over at), and above it only lines that a later tick will find again at the
\* same key.
StoredExactly ==
    /\ offset \in LineStarts(file)
    /\ \A o \in 0 .. offset - 1 : o \in events <=> Storable(file, o) /\ o \notin missed
    /\ \A o \in events : Storable(file, o)

\* The same without the exception: every storable line below the committed
\* offset has a row.  ("after Postgres recovers, the worker resumes from the
\* last committed byte offset", docs/ingestion.md:131.)
NoLineSkipped == \A o \in 0 .. offset - 1 : Storable(file, o) => o \in events

\* Every newline the agent writes is eventually passed by the committed
\* offset: no oversized, malformed, blank or partial line wedges the file.
EveryLineConsumed ==
    \A p \in 1 .. MaxLen : p \in Newlines(file) ~> offset >= p

\* Once the agent is done with its file, the offset settles inside it and
\* past its last newline, even when the file was truncated or replaced while
\* a tick was reading it.
CaughtUpInTheEnd ==
    <>[](offset <= Len(file) /\ \A p \in Newlines(file) : p <= offset)
=============================================================================
