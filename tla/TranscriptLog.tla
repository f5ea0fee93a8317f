---------------------------- MODULE TranscriptLog ----------------------------
(***************************************************************************)
(* What following a transcript promises, with bytes, windows, ticks and    *)
(* crashes left out: a transcript is a list of lines, the store takes the  *)
(* well-formed ones in order, each at most once, and the consumed prefix   *)
(* moves only over lines whose rows are already there.  TranscriptTail is  *)
(* shown to implement this.                                                *)
(***************************************************************************)
EXTENDS Naturals, Sequences

CONSTANT LineKind       \* "stored" lines get a row, the other kinds never do

VARIABLES
    lines,      \* kind of each complete line of the transcript
    consumed,   \* how many of them the committed offset has passed
    stored      \* indexes of the lines that have a row

lvars == <<lines, consumed, stored>>

Init == lines = <<>> /\ consumed = 0 /\ stored = {}

\* Every line in the range that deserves a row has one.
Settled(from, to) == \A i \in from .. to : lines[i] = "stored" => i \in stored

\* The agent finishes a line.
Write ==
    /\ \E k \in LineKind : lines' = Append(lines, k)
    /\ UNCHANGED <<consumed, stored>>

\* The next missing row is inserted; rows go in in the order of the lines.
Store ==
    /\ \E i \in consumed + 1 .. Len(lines) :
          /\ lines[i] = "stored"
          /\ i \notin stored
          /\ Settled(consumed + 1, i - 1)
          /\ stored' = stored \cup {i}
    /\ UNCHANGED <<lines, consumed>>

\* The offset is committed past one or more lines, all of them settled.
Consume ==
    /\ \E j \in consumed + 1 .. Len(lines) :
          /\ Settled(consumed + 1, j)
          /\ consumed' = j
    /\ UNCHANGED <<lines, stored>>

Next == Write \/ Store \/ Consume

\* The log without its promise to go on.
SafeSpec == Init /\ [][Next]_lvars

\* As long as lines wait, one is stored or consumed.
Spec == SafeSpec /\ WF_lvars(Store \/ Consume)

\* Nothing is consumed without its row.
ConsumedIsStored == Settled(1, consumed)
=============================================================================
