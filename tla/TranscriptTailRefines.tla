------------------------ MODULE TranscriptTailRefines ------------------------
(***************************************************************************)
(* TranscriptTail implements TranscriptLog: the byte-level ticks, with any *)
(* slicing and any crash, look like storing the lines in order and then    *)
(* passing them.  The map counts newlines: line i of the log is the i-th   *)
(* newline-terminated line of the file, and it counts as stored when its   *)
(* row is there or its insert was refused.                                 *)
(***************************************************************************)
EXTENDS TranscriptTail

\* The line that starts at offset o is the LineNumber(o)-th.
LineNumber(o) == Cardinality({p \in Newlines(file) : p <= o}) + 1

StartOf(n) == CHOOSE o \in LineStarts(file) : LineNumber(o) = n

KindOf(o) == IF Storable(file, o) THEN "stored" ELSE "passed"

logLines == [n \in 1 .. Cardinality(Newlines(file)) |-> KindOf(StartOf(n))]
logConsumed == LineNumber(offset) - 1
logStored == {LineNumber(o) : o \in events \cup missed}

Log == INSTANCE TranscriptLog WITH
    LineKind <- {"stored", "passed"},
    lines <- logLines, consumed <- logConsumed, stored <- logStored

\* The ingester's ticks implement the line log: inserts are made in line
\* order, each line once, the offset only passes lines whose insert was made
\* (and, unless the database refused it, whose row exists), and a waiting
\* line is always stored or passed in the end (ingester.rs:5-14).
ImplementsLog == Log!Spec
=============================================================================
