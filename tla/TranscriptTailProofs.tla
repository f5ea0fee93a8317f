------------------------ MODULE TranscriptTailProofs ------------------------
(***************************************************************************)
(* Proofs about TranscriptTail, for files of every length, every window    *)
(* and admission cap, and any number of crashes and refused statements:    *)
(* its rows are the lines of the file, and it implements TranscriptLog.    *)
(***************************************************************************)
EXTENDS TranscriptTailRefines, FiniteSetTheorems, NaturalsInduction, WellFoundedInduction,
        SequenceTheorems, TLAPS

-----------------------------------------------------------------------------
(* Lines of a byte string.                                                 *)

\* `b` is the first newline after `o`.
FirstAfter(f, o, b) == b \in Newlines(f) /\ b > o /\ \A j \in Newlines(f) : j > o => b <= j

\* A set of offsets has a smallest member.
LEMMA LeastOf ==
    ASSUME NEW S \in SUBSET Nat, S # {}
    PROVE  \E x \in S : \A y \in S : x <= y
<1> DEFINE R == OpToRel(<, Nat)
<1>1. PICK x \in S : \A y \in S : <<y, x>> \notin R
  <2>1. IsWellFoundedOn(R, Nat)
    BY NatLessThanWellFounded
  <2> QED
    BY <2>1, WFMin
<1>2. \A y \in S : x <= y
  <2> SUFFICES ASSUME NEW y \in S PROVE x <= y
    OBVIOUS
  <2>1. ~(y < x)
    BY <1>1 DEF OpToRel
  <2> QED
    BY <2>1
<1> QED
  BY <1>2

\* Newlines are positions of the file.
LEMMA NewlinesType ==
    ASSUME NEW f \in Seq(Byte)
    PROVE  /\ Newlines(f) \subseteq 1 .. Len(f) /\ Len(f) \in Nat
           /\ Newlines(f) \subseteq Nat
           /\ LineStarts(f) \subseteq 0 .. Len(f)
           /\ LineStarts(f) \subseteq Nat
BY DEF Newlines, LineStarts

\* `next_line_boundary` returns the first newline after the offset, if any.
LEMMA BoundaryIsFirst ==
    ASSUME NEW f \in Seq(Byte), NEW o \in Nat, HasBoundary(f, o)
    PROVE  FirstAfter(f, o, Boundary(f, o))
<1> DEFINE S == {i \in Newlines(f) : i > o}
<1>1. S \in SUBSET Nat /\ S # {}
  BY NewlinesType DEF HasBoundary
<1>2. PICK x \in S : \A y \in S : x <= y
  BY <1>1, LeastOf
<1>3. FirstAfter(f, o, x)
  BY <1>2 DEF FirstAfter
<1> QED
  BY <1>3 DEF FirstAfter, Boundary

\* There is only one first newline after an offset.
LEMMA FirstIsBoundary ==
    ASSUME NEW f \in Seq(Byte), NEW o \in Nat, NEW b, FirstAfter(f, o, b)
    PROVE  HasBoundary(f, o) /\ Boundary(f, o) = b
<1>1. HasBoundary(f, o)
  BY DEF FirstAfter, HasBoundary
<1>2. FirstAfter(f, o, Boundary(f, o))
  BY <1>1, BoundaryIsFirst
<1>3. Boundary(f, o) \in Newlines(f) /\ b \in Newlines(f) /\ Newlines(f) \subseteq Nat
  BY <1>2, NewlinesType DEF FirstAfter
<1>4. Boundary(f, o) <= b /\ b <= Boundary(f, o)
  BY <1>2 DEF FirstAfter
<1> QED
  BY <1>1, <1>3, <1>4

\* No line starts inside a line.
LEMMA NoStartInside ==
    ASSUME NEW f \in Seq(Byte), NEW o \in Nat, NEW b, FirstAfter(f, o, b)
    PROVE  \A p \in o + 1 .. b - 1 : p \notin LineStarts(f)
BY NewlinesType DEF FirstAfter, LineStarts

\* A line is as long as the distance between its ends.
LEMMA LineLength ==
    ASSUME NEW f \in Seq(Byte), NEW o \in Nat, HasBoundary(f, o)
    PROVE  /\ LineAt(f, o) \in Seq(Byte)
           /\ Len(LineAt(f, o)) = Boundary(f, o) - 1 - o
<1>1. Boundary(f, o) \in 1 .. Len(f) /\ Boundary(f, o) > o /\ Len(f) \in Nat
  BY BoundaryIsFirst, NewlinesType DEF FirstAfter
<1>2. \A i \in o + 1 .. Boundary(f, o) - 1 : f[i] \in Byte
  BY <1>1
<1> QED
  BY <1>1, <1>2 DEF LineAt

-----------------------------------------------------------------------------
(* The file grows under the reader.                                        *)

\* An appended byte moves no newline.
LEMMA GrownNewlines ==
    ASSUME NEW f \in Seq(Byte), NEW c \in Byte
    PROVE  /\ Append(f, c) \in Seq(Byte)
           /\ Len(Append(f, c)) = Len(f) + 1
           /\ \A p \in 1 .. Len(f) : Append(f, c)[p] = f[p]
           /\ Newlines(f) \subseteq Newlines(Append(f, c))
           /\ \A p \in Newlines(Append(f, c)) : p <= Len(f) => p \in Newlines(f)
<1>1. /\ Append(f, c) \in Seq(Byte) /\ Len(f) \in Nat
      /\ Len(Append(f, c)) = Len(f) + 1
      /\ \A p \in 1 .. Len(f) : Append(f, c)[p] = f[p]
  OBVIOUS
<1> DEFINE g == Append(f, c)
<1> HIDE DEF g
<1>2. g \in Seq(Byte) /\ Len(g) = Len(f) + 1 /\ \A p \in 1 .. Len(f) : g[p] = f[p]
  BY <1>1 DEF g
<1>3. /\ Newlines(f) \subseteq Newlines(g)
      /\ \A p \in Newlines(g) : p <= Len(f) => p \in Newlines(f)
  BY <1>1, <1>2 DEF Newlines
<1> QED
  BY <1>1, <1>3 DEF g

\* A line that is complete stays where it is and what it is.
LEMMA GrownLine ==
    ASSUME NEW f \in Seq(Byte), NEW c \in Byte, NEW o \in Nat, HasBoundary(f, o)
    PROVE  /\ HasBoundary(Append(f, c), o)
           /\ Boundary(Append(f, c), o) = Boundary(f, o)
           /\ LineAt(Append(f, c), o) = LineAt(f, o)
<1> DEFINE g == Append(f, c)
           b == Boundary(f, o)
<1> HIDE DEF g
<1>1. FirstAfter(f, o, b) /\ b \in 1 .. Len(f) /\ Len(f) \in Nat
  BY BoundaryIsFirst, NewlinesType DEF FirstAfter
<1>2. /\ g \in Seq(Byte) /\ Len(g) = Len(f) + 1
      /\ \A p \in 1 .. Len(f) : g[p] = f[p]
      /\ Newlines(f) \subseteq Newlines(g)
      /\ \A p \in Newlines(g) : p <= Len(f) => p \in Newlines(f)
  BY GrownNewlines DEF g
<1>3. FirstAfter(g, o, b)
  <2>1. \A j \in Newlines(g) : j > o => b <= j
    <3> SUFFICES ASSUME NEW j \in Newlines(g), j > o PROVE b <= j
      OBVIOUS
    <3>1. j \in Nat
      BY <1>2, NewlinesType
    <3>2. CASE j <= Len(f)
      BY <1>1, <1>2, <3>2 DEF FirstAfter
    <3>3. CASE j > Len(f)
      BY <1>1, <3>1, <3>3
    <3> QED
      BY <1>1, <3>1, <3>2, <3>3
  <2> QED
    BY <1>1, <1>2, <2>1 DEF FirstAfter
<1>4. HasBoundary(g, o) /\ Boundary(g, o) = b
  BY <1>2, <1>3, FirstIsBoundary
<1>5. SubSeq(g, o + 1, b - 1) = SubSeq(f, o + 1, b - 1)
  <2>1. \A i \in o + 1 .. b - 1 : i \in 1 .. Len(f) /\ i \in 1 .. Len(g) /\ g[i] = f[i]
    BY <1>1, <1>2
  <2> QED
    BY <1>1, <1>2, <2>1
<1> QED
  BY <1>4, <1>5 DEF g, LineAt

\* So a storable line stays storable, and below a line start no other line
\* becomes storable.
LEMMA GrownStorable ==
    ASSUME NEW f \in Seq(Byte), NEW c \in Byte, NEW o \in Nat
    PROVE  /\ Storable(f, o) => Storable(Append(f, c), o)
           /\ HasBoundary(f, o) /\ Storable(Append(f, c), o) => Storable(f, o)
<1>1. o \in LineStarts(f) => o \in LineStarts(Append(f, c))
  BY GrownNewlines DEF LineStarts
<1>2. HasBoundary(f, o) /\ o \in LineStarts(Append(f, c)) => o \in LineStarts(f)
  <2>1. HasBoundary(f, o) => o <= Len(f)
    BY NewlinesType DEF HasBoundary
  <2> QED
    BY <2>1, GrownNewlines DEF LineStarts
<1> QED
  BY <1>1, <1>2, GrownLine DEF Storable

-----------------------------------------------------------------------------
(* A window onto the file.                                                 *)

\* `buf` is what the file holds from offset `from` on.
Window(f, from, buf) ==
    /\ from + Len(buf) <= Len(f)
    /\ \A i \in 1 .. Len(buf) : buf[i] = f[from + i]

\* The newlines of a window are those of the file.
LEMMA WindowNewlines ==
    ASSUME NEW f \in Seq(Byte), NEW from \in Nat, NEW buf \in Seq(Byte), Window(f, from, buf)
    PROVE  \A i \in 1 .. Len(buf) : i \in Newlines(buf) <=> from + i \in Newlines(f)
BY DEF Window, Newlines

\* A window that starts at a line has its line starts at those of the file.
LEMMA WindowStarts ==
    ASSUME NEW f \in Seq(Byte), NEW from \in LineStarts(f), NEW buf \in Seq(Byte),
           Window(f, from, buf), NEW s \in LineStarts(buf)
    PROVE  from + s \in LineStarts(f)
<1>1. from \in Nat /\ s \in Nat /\ s \in 0 .. Len(buf)
  BY NewlinesType
<1> QED
  BY <1>1, WindowNewlines DEF LineStarts

\* A part of the file is a byte string.
LEMMA SliceType ==
    ASSUME NEW f \in Seq(Byte), NEW a \in Nat, NEW b \in Nat, b <= Len(f)
    PROVE  /\ SubSeq(f, a + 1, b) \in Seq(Byte)
           /\ a <= b => /\ Len(SubSeq(f, a + 1, b)) = b - a
                        /\ \A i \in 1 .. b - a : SubSeq(f, a + 1, b)[i] = f[a + i]
<1>1. \A i \in a + 1 .. b : f[i] \in Byte
  OBVIOUS
<1>2. CASE a <= b
  BY <1>1, <1>2
<1>3. CASE b < a
  BY <1>3
<1> QED
  BY <1>2, <1>3

\* The line the walk finds in its window is the line of the file.
LEMMA WindowLine ==
    ASSUME NEW f \in Seq(Byte), NEW from \in Nat, NEW buf \in Seq(Byte),
           Window(f, from, buf), NEW s \in Nat, HasBoundary(buf, s)
    PROVE  /\ HasBoundary(f, from + s)
           /\ Boundary(f, from + s) = from + Boundary(buf, s)
           /\ LineAt(f, from + s) = SubSeq(buf, s + 1, Boundary(buf, s) - 1)
<1> DEFINE b == Boundary(buf, s)
<1>0. Len(f) \in Nat /\ Len(buf) \in Nat /\ from + Len(buf) <= Len(f)
  BY NewlinesType DEF Window
<1>1. FirstAfter(buf, s, b) /\ b \in 1 .. Len(buf) /\ b > s
  BY BoundaryIsFirst, NewlinesType DEF FirstAfter
<1>2. FirstAfter(f, from + s, from + b)
  <2>1. from + b \in Newlines(f)
    BY <1>1, WindowNewlines DEF FirstAfter
  <2>2. ASSUME NEW j \in Newlines(f), j > from + s PROVE from + b <= j
    <3>1. j \in Nat /\ j <= Len(f)
      BY NewlinesType
    <3>2. CASE j > from + Len(buf)
      BY <1>1, <3>1, <3>2, <1>0
    <3>3. CASE j <= from + Len(buf)
      <4>1. j - from \in 1 .. Len(buf) /\ from + (j - from) = j
        BY <3>1, <3>3, <2>2, <1>0
      <4>2. j - from \in Newlines(buf) /\ j - from > s
        BY <4>1, <2>2, <3>1, WindowNewlines
      <4>3. b <= j - from
        BY <1>1, <4>2 DEF FirstAfter
      <4> QED
        BY <1>1, <3>1, <4>3
    <3> QED
      BY <3>1, <3>2, <3>3, <1>0
  <2> QED
    BY <1>1, <2>1, <2>2 DEF FirstAfter
<1>3. HasBoundary(f, from + s) /\ Boundary(f, from + s) = from + b
  BY <1>2, FirstIsBoundary
<1>4. SubSeq(f, (from + s) + 1, (from + b) - 1) = SubSeq(buf, s + 1, b - 1)
  <2> DEFINE u == SubSeq(f, (from + s) + 1, (from + b) - 1)
             v == SubSeq(buf, s + 1, b - 1)
  <2>0. /\ from + s \in Nat /\ (from + b) - 1 \in Nat /\ b - 1 \in Nat /\ s <= b - 1
        /\ from + s <= (from + b) - 1 /\ (from + b) - 1 <= Len(f) /\ b - 1 <= Len(buf)
        /\ ((from + b) - 1) - (from + s) = b - 1 - s
    BY <1>0, <1>1
  <2>1. /\ u \in Seq(Byte) /\ Len(u) = b - 1 - s
        /\ \A i \in 1 .. b - 1 - s : u[i] = f[from + s + i]
    BY <2>0, SliceType
  <2>2. /\ v \in Seq(Byte) /\ Len(v) = b - 1 - s
        /\ \A i \in 1 .. b - 1 - s : v[i] = buf[s + i]
    BY <2>0, SliceType
  <2>3. \A i \in 1 .. b - 1 - s : u[i] = v[i]
    <3> SUFFICES ASSUME NEW i \in 1 .. b - 1 - s PROVE f[from + s + i] = buf[s + i]
      BY <2>1, <2>2
    <3>1. s + i \in 1 .. Len(buf) /\ from + s + i = from + (s + i)
      BY <1>0, <1>1
    <3> QED
      BY <3>1 DEF Window
  <2> HIDE DEF u, v
  <2>4. u = v
    BY <2>1, <2>2, <2>3, SeqEqual
  <2> QED
    BY <2>4 DEF u, v
<1> QED
  BY <1>3, <1>4 DEF LineAt

\* The window stays a window while the file grows.
LEMMA GrownWindow ==
    ASSUME NEW f \in Seq(Byte), NEW c \in Byte, NEW from \in Nat, NEW buf \in Seq(Byte),
           Window(f, from, buf)
    PROVE  Window(Append(f, c), from, buf)
<1>1. \A i \in 1 .. Len(buf) : from + i \in 1 .. Len(f)
  BY DEF Window
<1> QED
  BY <1>1, GrownNewlines DEF Window

-----------------------------------------------------------------------------
(* Types.                                                                  *)

\* What process_file holds while it walks its window.
WalkType ==
    /\ DOMAIN tick = {"pc", "committed", "buf", "start", "admitted"}
    /\ tick.pc = "walk"
    /\ tick.committed \in Nat
    /\ tick.buf \in Seq(Byte)
    /\ tick.start \in LineStarts(tick.buf)
    /\ tick.start \in Nat
    /\ tick.admitted \in 0 .. AdmitLines
    /\ tick.admitted \in Nat

\* The place in the code tells the shape of the local state.
LEMMA TickShapes ==
    ASSUME TickType
    PROVE  /\ tick.pc \in {"idle", "open", "walk"}
           /\ tick.pc = "idle" => tick = Idle
           /\ tick.pc = "open" => tick.committed \in Nat /\ tick.len \in Nat
           /\ tick.pc = "walk" => WalkType
<1>0. AdmitLines \in Nat
  BY TailAssumption
<1>1. CASE tick = Idle
  BY <1>1 DEF Idle
<1>2. CASE tick \in [pc : {"open"}, committed : Nat, len : Nat]
  BY <1>2
<1>3. CASE /\ DOMAIN tick = {"pc", "committed", "buf", "start", "admitted"}
           /\ tick.pc = "walk"
           /\ tick.committed \in Nat
           /\ tick.buf \in Seq(Byte)
           /\ tick.start \in LineStarts(tick.buf)
           /\ tick.admitted \in 0 .. AdmitLines
  <2>1. tick.start \in Nat
    BY <1>3, NewlinesType
  <2> QED
    BY <1>0, <1>3, <2>1 DEF WalkType
<1> QED
  BY <1>1, <1>2, <1>3 DEF TickType

\* A line of the walk starts in the buffer and ends at a newline of it.
LEMMA WalkStep ==
    ASSUME TickType, WalkHasLine
    PROVE  /\ WalkType
           /\ FirstAfter(tick.buf, tick.start, Boundary(tick.buf, tick.start))
           /\ Boundary(tick.buf, tick.start) \in LineStarts(tick.buf)
           /\ Boundary(tick.buf, tick.start) \in Nat
           /\ tick.admitted + 1 \in 0 .. AdmitLines
           /\ WalkOffset \in Nat
<1>1. WalkType /\ HasBoundary(tick.buf, tick.start) /\ tick.admitted < AdmitLines
  BY TickShapes DEF WalkHasLine
<1>2. tick.buf \in Seq(Byte) /\ tick.start \in Nat /\ tick.committed \in Nat
  BY <1>1 DEF WalkType
<1>3. FirstAfter(tick.buf, tick.start, Boundary(tick.buf, tick.start))
  BY <1>1, <1>2, BoundaryIsFirst
<1>4. Boundary(tick.buf, tick.start) \in LineStarts(tick.buf) /\ LineStarts(tick.buf) \subseteq Nat
  BY <1>2, <1>3, NewlinesType DEF FirstAfter, LineStarts
<1>5. tick.admitted + 1 \in 0 .. AdmitLines
  BY <1>1, TailAssumption DEF WalkType
<1> QED
  BY <1>1, <1>2, <1>3, <1>4, <1>5 DEF WalkOffset

\* Passing a line leaves the walk well-typed.
LEMMA AdvanceType ==
    ASSUME TickType, WalkHasLine, Advance
    PROVE  /\ TickType'
           /\ tick'.pc = "walk"
           /\ tick'.committed = tick.committed
           /\ tick'.buf = tick.buf
           /\ tick'.start = Boundary(tick.buf, tick.start)
           /\ tick'.admitted = tick.admitted + 1
<1>1. WalkType /\ Boundary(tick.buf, tick.start) \in LineStarts(tick.buf)
      /\ tick.admitted + 1 \in 0 .. AdmitLines
  BY WalkStep
<1> DEFINE b == Boundary(tick.buf, tick.start)
<1> HIDE DEF b
<1>2. tick' = [tick EXCEPT !.start = b, !.admitted = tick.admitted + 1]
  BY DEF Advance, b
<1>3. /\ DOMAIN tick' = {"pc", "committed", "buf", "start", "admitted"}
      /\ tick'.pc = "walk"
      /\ tick'.committed = tick.committed
      /\ tick'.buf = tick.buf
      /\ tick'.start = b
      /\ tick'.admitted = tick.admitted + 1
  BY <1>1, <1>2 DEF WalkType
<1>4. TickType'
  BY <1>1, <1>3 DEF WalkType, TickType, b
<1> QED
  BY <1>3, <1>4 DEF b

\* What ReadWindow puts in the buffer.
LEMMA ReadBuffer ==
    ASSUME TypeOK, ReadWindow
    PROVE  \E upTo \in Nat :
              /\ upTo <= Len(file)
              /\ tick.len <= Len(file) => tick.committed <= upTo
              /\ upTo <= tick.committed + MaxRead
              /\ tick' = [pc |-> "walk", committed |-> tick.committed,
                          buf |-> SubSeq(file, tick.committed + 1, upTo),
                          start |-> 0, admitted |-> 0]
<1>1. tick.committed \in Nat /\ tick.len \in Nat /\ tick.len >= tick.committed
  BY TickShapes DEF ReadWindow, TypeOK
<1>2. Len(file) \in Nat /\ MaxRead \in Nat
  BY TailAssumption DEF TypeOK
<1> DEFINE cap == Least(tick.len - tick.committed, MaxRead)
           upTo == Least(tick.committed + cap, Len(file))
<1>3. /\ cap \in Nat /\ cap <= MaxRead /\ cap <= tick.len - tick.committed
  BY <1>1, <1>2 DEF Least
<1> HIDE DEF cap
<1>4. /\ upTo \in Nat /\ upTo <= Len(file) /\ upTo <= tick.committed + MaxRead
      /\ tick.len <= Len(file) => tick.committed <= upTo
  BY <1>1, <1>2, <1>3 DEF Least
<1>5. tick' = [pc |-> "walk", committed |-> tick.committed,
               buf |-> SubSeq(file, tick.committed + 1, upTo),
               start |-> 0, admitted |-> 0]
  BY DEF ReadWindow, cap
<1> HIDE DEF upTo
<1> QED
  BY <1>4, <1>5

\* Every step keeps the types.
LEMMA TypeStep == TypeOK /\ [Next]_vars => TypeOK'
<1> SUFFICES ASSUME TypeOK, [Next]_vars PROVE TypeOK'
  OBVIOUS
<1>0. /\ MaxCrashes \in Nat /\ MaxFaults \in Nat /\ MaxTruncates \in Nat
      /\ file \in Seq(Byte) /\ TickType
  BY TailAssumption DEF TypeOK
<1>i. tick' = Idle => TickType'
  BY DEF TickType, Idle
<1>k. tick' = tick => TickType'
  BY <1>0 DEF TickType
<1>1. ASSUME NEW b \in Byte, AgentWrite(b) PROVE TypeOK'
  <2>1. file' \in Seq(Byte)
    BY <1>0, <1>1, GrownNewlines DEF AgentWrite
  <2> QED
    BY <1>1, <1>k, <2>1 DEF AgentWrite, TypeOK, bounds
<1>2. CASE AgentTruncate
  <2>1. file' \in Seq(Byte)
    BY <1>2 DEF AgentTruncate
  <2> QED
    BY <1>0, <1>2, <1>k, <2>1 DEF AgentTruncate, TypeOK
<1>3. CASE Scan
  <2>1. Len(file) \in Nat /\ offset \in Nat
    BY DEF TypeOK
  <2>2. tick' \in [pc : {"open"}, committed : Nat, len : Nat]
    BY <1>3, <2>1 DEF Scan
  <2>3. TickType'
    BY <2>2 DEF TickType
  <2> QED
    BY <1>3, <2>3 DEF Scan, TypeOK, durable, bounds
<1>4. CASE ResetShrunk
  BY <1>4, <1>i DEF ResetShrunk, TypeOK, bounds
<1>5. CASE ReadWindow
  <2>1. PICK upTo \in Nat :
              /\ upTo <= Len(file)
              /\ tick' = [pc |-> "walk", committed |-> tick.committed,
                          buf |-> SubSeq(file, tick.committed + 1, upTo),
                          start |-> 0, admitted |-> 0]
    BY <1>5, ReadBuffer
  <2>2. tick.committed \in Nat
    BY <1>0, <1>5, TickShapes DEF ReadWindow
  <2> DEFINE w == SubSeq(file, tick.committed + 1, upTo)
  <2>3. w \in Seq(Byte)
    BY <1>0, <2>1, <2>2, SliceType
  <2> HIDE DEF w
  <2>4. tick' = [pc |-> "walk", committed |-> tick.committed, buf |-> w,
                 start |-> 0, admitted |-> 0]
    BY <2>1 DEF w
  <2>5. 0 \in LineStarts(w) /\ 0 \in 0 .. AdmitLines
    BY TailAssumption DEF LineStarts
  <2>6. TickType'
    BY <2>2, <2>3, <2>4, <2>5 DEF TickType
  <2> QED
    BY <1>5, <2>6 DEF ReadWindow, TypeOK, durable, bounds
<1>6. CASE InsertLine
  <2>1. TickType' /\ WalkOffset \in Nat
    BY <1>0, <1>6, AdvanceType, WalkStep DEF InsertLine
  <2> QED
    BY <1>6, <2>1 DEF InsertLine, TypeOK, bounds
<1>7. CASE CommitOffset
  <2>1. tick.committed + tick.start \in Nat
    BY <1>0, <1>7, TickShapes DEF CommitOffset, WalkEnded, WalkType
  <2> QED
    BY <1>7, <1>i, <2>1 DEF CommitOffset, TypeOK, bounds
<1>8. CASE SkipOversizedLine
  <2>1. tick.committed + Len(tick.buf) \in Nat
    BY <1>0, <1>8, TickShapes DEF SkipOversizedLine, WalkEnded, WalkType
  <2>2. HasBoundary(file, tick.committed + Len(tick.buf))
          => Boundary(file, tick.committed + Len(tick.buf)) \in Nat
    BY <1>0, <2>1, BoundaryIsFirst, NewlinesType DEF FirstAfter
  <2> QED
    BY <1>8, <1>i, <2>2 DEF SkipOversizedLine, TypeOK, bounds
<1>9. CASE InsertRefused
  <2>1. TickType' /\ WalkOffset \in Nat
    BY <1>0, <1>9, AdvanceType, WalkStep DEF InsertRefused
  <2> QED
    BY <1>0, <1>9, <2>1 DEF InsertRefused, TypeOK, durable
<1>10. CASE CommitRefused
  BY <1>0, <1>10, <1>i DEF CommitRefused, TypeOK, durable
<1>11. CASE Crash
  BY <1>0, <1>11, <1>i DEF Crash, TypeOK, durable
<1>12. CASE UNCHANGED vars
  BY <1>12, <1>k DEF vars, TypeOK
<1> QED
  BY <1>1, <1>2, <1>3, <1>4, <1>5, <1>6, <1>7, <1>8, <1>9, <1>10, <1>11, <1>12
     DEF Next, Ingest

\* Every variable keeps its type, and the walk only rests on line starts.
THEOREM TailIsTyped == Spec => []TypeOK
<1>1. Init => TypeOK
  BY TailAssumption DEF Init, TypeOK, TickType
<1> QED
  BY <1>1, TypeStep, PTL DEF Spec

-----------------------------------------------------------------------------
(* The rows and the file.                                                  *)

\* Below `upTo` the rows are the storable lines that were not passed over.
RowsBelow(upTo) == \A o \in 0 .. upTo - 1 : o \in events <=> Storable(file, o) /\ o \notin missed

\* What a tick in progress knows of the file and of what it has inserted:
\* nothing it read has moved, and it has inserted the lines it walked.
TickKnows ==
    /\ tick.pc = "open" =>
          tick.committed = offset /\ offset <= tick.len /\ tick.len <= Len(file)
    /\ tick.pc = "walk" =>
          /\ tick.committed = offset
          /\ Window(file, offset, tick.buf)
          /\ Len(tick.buf) <= MaxRead
          /\ tick.admitted > 0 => tick.start > 0
          /\ RowsBelow(offset + tick.start)

\* The rows, the committed offset and the file agree.
Stored ==
    /\ offset \in LineStarts(file)
    /\ RowsBelow(offset)
    /\ \A o \in events : Storable(file, o)
    /\ events \cap missed = {}

\* The inductive invariant, while the file has not been truncated.
TailIInv == truncates = 0 => Stored /\ TickKnows

\* A step that leaves the file, the offset and the rows alone keeps what is
\* stored; a tick that ends holds nothing.
LEMMA StoredFrame ==
    ASSUME Stored, UNCHANGED <<file, offset, events, missed>>
    PROVE  Stored' /\ (tick' = Idle => TickKnows')
<1>1. Stored'
  BY DEF Stored, RowsBelow
<1>2. tick' = Idle => TickKnows'
  BY DEF TickKnows, Idle
<1> QED
  BY <1>1, <1>2

\* Below a line start every offset has a newline ahead of it.
LEMMA AheadOfStart ==
    ASSUME NEW f \in Seq(Byte), NEW s \in LineStarts(f), NEW o \in 0 .. s - 1
    PROVE  o \in Nat /\ HasBoundary(f, o)
BY NewlinesType DEF LineStarts, HasBoundary

\* An appended byte changes nothing below a line start.
LEMMA GrowthKeepsRows ==
    ASSUME TypeOK, NEW b \in Byte, AgentWrite(b), NEW s \in LineStarts(file), RowsBelow(s)
    PROVE  \A o \in 0 .. s - 1 : o \in events' <=> Storable(file', o) /\ o \notin missed'
<1> SUFFICES ASSUME NEW o \in 0 .. s - 1
             PROVE  o \in events' <=> Storable(file', o) /\ o \notin missed'
  OBVIOUS
<1>1. file \in Seq(Byte) /\ file' = Append(file, b) /\ events' = events /\ missed' = missed
  BY DEF TypeOK, AgentWrite
<1>2. o \in Nat /\ HasBoundary(file, o)
  BY <1>1, AheadOfStart
<1>3. Storable(file', o) <=> Storable(file, o)
  BY <1>1, <1>2, GrownStorable
<1> QED
  BY <1>1, <1>3 DEF RowsBelow

\* The agent's writes disturb neither the rows nor a tick in progress.
LEMMA GrowthKeeps ==
    ASSUME TypeOK, Stored, TickKnows, NEW b \in Byte, AgentWrite(b)
    PROVE  Stored' /\ TickKnows'
<1>1. /\ file \in Seq(Byte) /\ file' = Append(file, b) /\ events' = events /\ missed' = missed
      /\ offset' = offset /\ tick' = tick /\ TickType /\ events \subseteq Nat
  BY DEF TypeOK, AgentWrite
<1>2. Len(file) \in Nat /\ Len(file') = Len(file) + 1 /\ Newlines(file) \subseteq Newlines(file')
  BY <1>1, GrownNewlines
<1>3. offset \in LineStarts(file) /\ offset \in Nat
  BY DEF Stored, TypeOK
<1>4. Stored'
  <2>1. offset' \in LineStarts(file')
    BY <1>1, <1>2, <1>3 DEF LineStarts
  <2>2. RowsBelow(offset)'
    BY <1>1, <1>3, GrowthKeepsRows DEF Stored, RowsBelow
  <2>3. \A o \in events' : Storable(file', o)
    <3> SUFFICES ASSUME NEW o \in events PROVE Storable(file', o)
      BY <1>1
    <3>1. Storable(file, o) /\ o \in Nat
      BY <1>1 DEF Stored
    <3> QED
      BY <1>1, <3>1, GrownStorable
  <2> QED
    BY <1>1, <2>1, <2>2, <2>3 DEF Stored
<1>5. CASE tick.pc = "walk"
  <2>1. /\ WalkType /\ tick.committed = offset /\ Window(file, offset, tick.buf)
        /\ Len(tick.buf) <= MaxRead /\ (tick.admitted > 0 => tick.start > 0)
        /\ RowsBelow(offset + tick.start)
    BY <1>1, <1>5, TickShapes DEF TickKnows
  <2>2. Window(file', offset, tick.buf)
    BY <1>1, <1>3, <2>1, GrownWindow DEF WalkType
  <2>3. offset + tick.start \in LineStarts(file)
    BY <1>1, <1>3, <2>1, WindowStarts DEF WalkType
  <2>4. RowsBelow(offset + tick.start)'
    BY <1>1, <2>1, <2>3, GrowthKeepsRows DEF RowsBelow
  <2> QED
    BY <1>1, <1>4, <1>5, <2>1, <2>2, <2>4 DEF TickKnows
<1>6. CASE tick.pc = "open"
  <2>1. tick.len \in Nat
    BY <1>1, <1>6, TickShapes
  <2>2. TickKnows'
    BY <1>1, <1>2, <1>6, <2>1 DEF TickKnows
  <2> QED
    BY <1>4, <2>2
<1>7. CASE tick.pc \notin {"walk", "open"}
  BY <1>1, <1>4, <1>7 DEF TickKnows
<1> QED
  BY <1>5, <1>6, <1>7

\* A scan takes the offset and a length no shorter.
LEMMA ScanKeeps ==
    ASSUME TypeOK, Stored, TickKnows, Scan
    PROVE  Stored' /\ TickKnows'
<1>1. Stored'
  BY StoredFrame DEF Scan, durable
<1>2. offset <= Len(file)
  BY NewlinesType DEF Stored, TypeOK
<1>3. /\ tick'.pc = "open" /\ tick'.committed = offset /\ tick'.len = Len(file)
      /\ offset' = offset /\ file' = file
  BY DEF Scan, durable
<1>4. Len(file) \in Nat
  BY DEF TypeOK
<1> QED
  BY <1>1, <1>2, <1>3, <1>4 DEF TickKnows

\* The bytes read are those at the committed offset.
LEMMA ReadKeeps ==
    ASSUME TypeOK, Stored, TickKnows, ReadWindow
    PROVE  Stored' /\ TickKnows'
<1>0. /\ file \in Seq(Byte) /\ offset \in Nat /\ tick.committed = offset
      /\ tick.len <= Len(file) /\ file' = file /\ offset' = offset
      /\ events' = events /\ missed' = missed
  BY DEF TypeOK, TickKnows, ReadWindow, durable
<1>1. Stored'
  BY <1>0, StoredFrame
<1>2. PICK upTo \in Nat :
              /\ upTo <= Len(file)
              /\ tick.len <= Len(file) => tick.committed <= upTo
              /\ upTo <= tick.committed + MaxRead
              /\ tick' = [pc |-> "walk", committed |-> tick.committed,
                          buf |-> SubSeq(file, tick.committed + 1, upTo),
                          start |-> 0, admitted |-> 0]
  BY ReadBuffer
<1> DEFINE w == SubSeq(file, offset + 1, upTo)
<1>3. /\ w \in Seq(Byte) /\ Len(w) = upTo - offset
      /\ \A i \in 1 .. upTo - offset : w[i] = file[offset + i]
  BY <1>0, <1>2, SliceType
<1>4. tick' = [pc |-> "walk", committed |-> offset, buf |-> w, start |-> 0, admitted |-> 0]
  BY <1>0, <1>2
<1> HIDE DEF w
<1>5. /\ tick'.pc = "walk" /\ tick'.committed = offset /\ tick'.buf = w
      /\ tick'.start = 0 /\ tick'.admitted = 0
  BY <1>4
<1>6. Window(file, offset, w) /\ Len(w) <= MaxRead
  BY <1>0, <1>2, <1>3, TailAssumption DEF Window
<1>7. RowsBelow(offset + 0)'
  BY <1>0, <1>1 DEF Stored, RowsBelow
<1> QED
  BY <1>0, <1>1, <1>5, <1>6, <1>7 DEF TickKnows

\* The line the walk is at is a line of the file, short enough to store, and
\* the next line start is the one the walk moves to.
LEMMA WalkedLine ==
    ASSUME TypeOK, Stored, TickKnows, WalkHasLine
    PROVE  /\ WalkOffset = offset + tick.start
           /\ WalkOffset \in Nat
           /\ Storable(file, WalkOffset) <=> WellFormed(WalkLine)
           /\ Boundary(tick.buf, tick.start) \in Nat
           /\ Boundary(tick.buf, tick.start) > tick.start
           /\ \A p \in WalkOffset + 1 .. offset + Boundary(tick.buf, tick.start) - 1 :
                 ~Storable(file, p)
<1> DEFINE b == Boundary(tick.buf, tick.start)
<1>1. /\ WalkType /\ b \in Nat /\ WalkOffset \in Nat
      /\ FirstAfter(tick.buf, tick.start, b)
  BY WalkStep DEF TypeOK
<1>2. /\ file \in Seq(Byte) /\ offset \in LineStarts(file) /\ offset \in Nat
      /\ tick.buf \in Seq(Byte) /\ tick.start \in LineStarts(tick.buf) /\ tick.start \in Nat
      /\ HasBoundary(tick.buf, tick.start)
  BY <1>1 DEF TypeOK, Stored, WalkType, WalkHasLine
<1>3. /\ tick.committed = offset /\ Window(file, offset, tick.buf)
      /\ Len(tick.buf) <= MaxRead
  BY DEF TickKnows, WalkHasLine
<1>4. WalkOffset = offset + tick.start
  BY <1>3 DEF WalkOffset
<1>5. WalkOffset \in LineStarts(file)
  BY <1>2, <1>3, <1>4, WindowStarts
<1>6. /\ HasBoundary(file, WalkOffset)
      /\ Boundary(file, WalkOffset) = offset + b
      /\ LineAt(file, WalkOffset) = WalkLine
  <2>1. /\ HasBoundary(file, offset + tick.start)
        /\ Boundary(file, offset + tick.start) = offset + b
        /\ LineAt(file, offset + tick.start) = SubSeq(tick.buf, tick.start + 1, b - 1)
    <3>1. /\ file \in Seq(Byte) /\ offset \in Nat /\ tick.buf \in Seq(Byte)
          /\ Window(file, offset, tick.buf) /\ tick.start \in Nat
          /\ HasBoundary(tick.buf, tick.start)
      BY <1>2, <1>3
    <3> QED
      BY <3>1, WindowLine
  <2> QED
    BY <1>4, <2>1 DEF WalkLine
<1>7. b > tick.start /\ b <= Len(tick.buf)
  BY <1>1, <1>2, NewlinesType DEF FirstAfter
<1>8. Len(LineAt(file, WalkOffset)) < MaxRead
  <2>1. Len(LineAt(file, WalkOffset)) = offset + b - 1 - WalkOffset
    <3>1. /\ file \in Seq(Byte) /\ WalkOffset \in Nat /\ HasBoundary(file, WalkOffset)
          /\ Boundary(file, WalkOffset) = offset + b /\ b \in Nat /\ offset \in Nat
      BY <1>1, <1>2, <1>6
    <3>2. Len(LineAt(file, WalkOffset)) = Boundary(file, WalkOffset) - 1 - WalkOffset
      BY <3>1, LineLength
    <3> QED
      BY <3>1, <3>2
  <2>2. Len(tick.buf) \in Nat /\ MaxRead \in Nat
    BY <1>2, TailAssumption
  <2>3. /\ b \in Nat /\ tick.start \in Nat /\ offset \in Nat
        /\ b <= Len(tick.buf) /\ Len(tick.buf) <= MaxRead
    BY <1>1, <1>2, <1>3, <1>7
  <2> HIDE DEF b
  <2>4. Len(LineAt(file, WalkOffset)) = b - 1 - tick.start
    BY <1>4, <2>1, <2>3
  <2> QED
    BY <2>2, <2>3, <2>4
<1>9. Storable(file, WalkOffset) <=> WellFormed(WalkLine)
  BY <1>5, <1>6, <1>8 DEF Storable
<1>10. \A p \in WalkOffset + 1 .. offset + b - 1 : p \notin LineStarts(file)
  <2>1. FirstAfter(file, WalkOffset, offset + b)
    BY <1>1, <1>2, <1>6, BoundaryIsFirst
  <2> QED
    BY <1>1, <1>2, <2>1, NoStartInside
<1> QED
  BY <1>1, <1>4, <1>7, <1>9, <1>10 DEF Storable

\* What RowsBelow says of one offset.
LEMMA RowAt ==
    ASSUME NEW n \in Nat, RowsBelow(n), NEW o \in 0 .. n - 1
    PROVE  o \in events <=> Storable(file, o) /\ o \notin missed
BY DEF RowsBelow

\* The rows below the walk's next place, from the rows one by one.
LEMMA RowsNext ==
    ASSUME NEW n \in Nat, offset \in Nat, offset' = offset, tick'.start = n,
           \A o \in 0 .. offset + n - 1 : o \in events' <=> Storable(file', o) /\ o \notin missed'
    PROVE  RowsBelow(offset + tick.start)'
BY DEF RowsBelow

\* Only the row at `p` is written or passed over.
OnlyRow(p) ==
    \A o \in Nat : o # p => (o \in events' <=> o \in events) /\ (o \in missed' <=> o \in missed)

\* The row at `p` is there if the line deserves it and was not passed over.
RowWritten(p, deserved) == p \in events' <=> deserved /\ p \notin missed'

\* A line passed with its row stored, unneeded or passed over keeps the rows exact.
LEMMA PassedLine ==
    ASSUME TypeOK, Stored, TickKnows, WalkHasLine, Advance, file' = file, offset' = offset,
           \A o \in events' : Storable(file, o),
           events' \cap missed' = {},
           OnlyRow(WalkOffset), RowWritten(WalkOffset, WellFormed(WalkLine))
    PROVE  Stored' /\ TickKnows'
<1> DEFINE b == Boundary(tick.buf, tick.start)
<1>1. /\ WalkOffset = offset + tick.start /\ WalkOffset \in Nat
      /\ Storable(file, WalkOffset) <=> WellFormed(WalkLine)
      /\ b \in Nat /\ b > tick.start
      /\ \A p \in WalkOffset + 1 .. offset + b - 1 : ~Storable(file, p)
  BY WalkedLine
<1>2. /\ tick'.pc = "walk" /\ tick'.committed = tick.committed /\ tick'.buf = tick.buf
      /\ tick'.start = b /\ tick'.admitted = tick.admitted + 1
  BY AdvanceType DEF TypeOK
<1>3. /\ tick.committed = offset /\ Window(file, offset, tick.buf)
      /\ Len(tick.buf) <= MaxRead /\ RowsBelow(offset + tick.start)
  BY DEF TickKnows, WalkHasLine
<1>4. tick.start \in Nat /\ offset \in Nat
  BY WalkStep DEF TypeOK, WalkType
<1> HIDE DEF b
<1>5. \A o \in 0 .. offset + b - 1 : o \in events' <=> Storable(file, o) /\ o \notin missed'
  <2> SUFFICES ASSUME NEW o \in 0 .. offset + b - 1
               PROVE  o \in events' <=> Storable(file, o) /\ o \notin missed'
    OBVIOUS
  <2>0. o \in Nat
    OBVIOUS
  <2>1. CASE o < WalkOffset
    <3>1. o \in 0 .. offset + tick.start - 1 /\ o # WalkOffset
      BY <1>1, <1>4, <2>1
    <3>2. o \in events <=> Storable(file, o) /\ o \notin missed
      BY <1>3, <1>4, <3>1, RowAt
    <3>3. (o \in events' <=> o \in events) /\ (o \in missed' <=> o \in missed)
      BY <2>0, <3>1 DEF OnlyRow
    <3> QED
      BY <3>2, <3>3
  <2>2. CASE o = WalkOffset
    BY <1>1, <2>2 DEF RowWritten
  <2>3. CASE o > WalkOffset
    <3>1. o \in WalkOffset + 1 .. offset + b - 1
      BY <1>1, <1>4, <2>3
    <3> QED
      BY <1>1, <3>1
  <2> QED
    BY <1>1, <2>0, <2>1, <2>2, <2>3
<1>6. RowsBelow(offset)' /\ RowsBelow(offset + tick.start)'
  <2>1. RowsBelow(offset + tick.start)'
    BY <1>1, <1>2, <1>4, <1>5, RowsNext
  <2>2. \A o \in 0 .. offset - 1 : o \in 0 .. offset + b - 1
    BY <1>1, <1>4
  <2>3. RowsBelow(offset)'
    BY <1>5, <2>2 DEF RowsBelow
  <2> QED
    BY <2>1, <2>3
<1>7. Stored'
  BY <1>6 DEF Stored
<1>8. TickKnows'
  BY <1>1, <1>2, <1>3, <1>4, <1>6 DEF TickKnows
<1> QED
  BY <1>7, <1>8

\* An insert that commits, or has nothing to insert.
LEMMA InsertKeeps ==
    ASSUME TypeOK, Stored, TickKnows, InsertLine
    PROVE  Stored' /\ TickKnows'
<1>1. WalkOffset \in Nat /\ (Storable(file, WalkOffset) <=> WellFormed(WalkLine))
  BY WalkedLine DEF InsertLine
<1>2. \A o \in events : Storable(file, o)
  BY DEF Stored
<1>3. \A o \in events' : Storable(file, o)
  BY <1>1, <1>2 DEF InsertLine
<1>4. events' \cap missed' = {}
  BY DEF Stored, InsertLine
<1>5. OnlyRow(WalkOffset)
  BY DEF OnlyRow, InsertLine
<1>6. RowWritten(WalkOffset, WellFormed(WalkLine))
  BY <1>1, <1>2 DEF RowWritten, InsertLine
<1>7. WalkHasLine /\ Advance /\ file' = file /\ offset' = offset
  BY DEF InsertLine
<1> QED
  BY <1>3, <1>4, <1>5, <1>6, <1>7, PassedLine

\* An insert the database refused: the line is passed over, unless an
\* earlier tick that was cut short had stored it.
LEMMA RefusalKeeps ==
    ASSUME TypeOK, Stored, TickKnows, InsertRefused
    PROVE  Stored' /\ TickKnows'
<1>1. WellFormed(WalkLine)
  BY DEF InsertRefused
<1>2. \A o \in events' : Storable(file, o)
  BY DEF Stored, InsertRefused, durable
<1>3. events' \cap missed' = {}
  BY DEF Stored, InsertRefused, durable
<1>4. OnlyRow(WalkOffset)
  BY DEF OnlyRow, InsertRefused, durable
<1>5. RowWritten(WalkOffset, WellFormed(WalkLine))
  BY <1>1 DEF RowWritten, InsertRefused, durable, Stored
<1>6. WalkHasLine /\ Advance /\ file' = file /\ offset' = offset
  BY DEF InsertRefused, durable
<1> QED
  BY <1>2, <1>3, <1>4, <1>5, <1>6, PassedLine

\* The offset moves past the lines walked.
LEMMA CommitKeeps ==
    ASSUME TypeOK, Stored, TickKnows, CommitOffset
    PROVE  Stored' /\ TickKnows'
<1>1. tick' = Idle /\ file' = file /\ events' = events /\ missed' = missed
  BY DEF CommitOffset
<1>2. CASE tick.start = 0
  <2>1. offset' = offset
    BY <1>2 DEF CommitOffset
  <2> QED
    BY <1>1, <2>1, StoredFrame
<1>3. CASE tick.start # 0
  <2>1. /\ WalkType /\ tick.committed = offset /\ Window(file, offset, tick.buf)
        /\ RowsBelow(offset + tick.start)
    BY TickShapes DEF CommitOffset, WalkEnded, TickKnows, TypeOK
  <2>2. offset' = offset + tick.start
    BY <1>3, <2>1 DEF CommitOffset
  <2>3. offset' \in LineStarts(file)
    BY <2>1, <2>2, WindowStarts DEF WalkType, Stored, TypeOK
  <2>4. RowsBelow(offset)'
    BY <1>1, <2>1, <2>2 DEF RowsBelow
  <2>5. Stored'
    BY <1>1, <2>3, <2>4 DEF Stored
  <2> QED
    BY <1>1, <2>5 DEF TickKnows, Idle
<1> QED
  BY <1>2, <1>3

\* A line with no newline in a whole window is too long to store, and the
\* offset moves past it and nothing else.
LEMMA SkipKeeps ==
    ASSUME TypeOK, Stored, TickKnows, SkipOversizedLine
    PROVE  Stored' /\ TickKnows'
<1> DEFINE to == offset + Len(tick.buf)
<1>1. tick' = Idle /\ file' = file /\ events' = events /\ missed' = missed
  BY DEF SkipOversizedLine
<1>2. /\ WalkType /\ tick.committed = offset /\ Window(file, offset, tick.buf)
      /\ tick.start = 0 /\ Len(tick.buf) >= MaxRead /\ RowsBelow(offset)
      /\ (tick.admitted > 0 => tick.start > 0)
      /\ ~HasBoundary(tick.buf, tick.start) \/ tick.admitted > 0
  BY TickShapes DEF SkipOversizedLine, WalkEnded, Oversized, AdmissionClosed, TickKnows, Stored,
                    TypeOK
<1>3. /\ file \in Seq(Byte) /\ offset \in Nat /\ offset \in LineStarts(file)
      /\ tick.buf \in Seq(Byte) /\ Len(tick.buf) \in Nat /\ to \in Nat /\ MaxRead \in Nat
  BY <1>2, TailAssumption DEF TypeOK, Stored, WalkType
<1>4. ~HasBoundary(tick.buf, 0)
  BY <1>2 DEF WalkType
<1>5. CASE ~HasBoundary(file, to)
  <2>1. offset' = offset
    BY <1>2, <1>5 DEF SkipOversizedLine
  <2> QED
    BY <1>1, <2>1, StoredFrame
<1>6. CASE HasBoundary(file, to)
  <2>1. PICK b \in Nat : b = Boundary(file, to) /\ FirstAfter(file, to, b) /\ b \in Newlines(file)
    BY <1>3, <1>6, BoundaryIsFirst, NewlinesType DEF FirstAfter
  <2>2. offset' = b
    BY <1>2, <1>6, <2>1 DEF SkipOversizedLine
  <2>3. \A j \in Newlines(file) : j > offset => j > to
    <3> SUFFICES ASSUME NEW j \in Newlines(file), j > offset, j <= to PROVE FALSE
      BY <1>3, NewlinesType
    <3>1. j \in Nat
      BY <1>3, NewlinesType
    <3>2. j - offset \in 1 .. Len(tick.buf) /\ offset + (j - offset) = j
      BY <1>3, <3>1
    <3>3. j - offset \in Newlines(tick.buf) /\ j - offset > 0
      BY <1>2, <1>3, <3>2, WindowNewlines
    <3> QED
      BY <1>4, <3>3 DEF HasBoundary
  <2>4. FirstAfter(file, offset, b)
    BY <1>3, <2>1, <2>3 DEF FirstAfter
  <2>5. HasBoundary(file, offset) /\ Boundary(file, offset) = b
    BY <1>3, <2>4, FirstIsBoundary
  <2>6. ~Storable(file, offset)
    <3>1. Len(LineAt(file, offset)) = b - 1 - offset
      BY <1>3, <2>5, LineLength
    <3>2. b > to
      BY <2>1 DEF FirstAfter
    <3>3. Len(LineAt(file, offset)) >= MaxRead
      BY <1>2, <1>3, <2>1, <3>1, <3>2
    <3> QED
      BY <1>3, <3>1, <3>3 DEF Storable
  <2>7. \A o \in offset .. b - 1 : ~Storable(file, o)
    <3> SUFFICES ASSUME NEW o \in offset .. b - 1, o # offset PROVE ~Storable(file, o)
      BY <2>6
    <3>1. o \in offset + 1 .. b - 1
      BY <1>3
    <3> QED
      BY <1>3, <2>4, <3>1, NoStartInside DEF Storable
  <2>8. ASSUME NEW o \in 0 .. b - 1
        PROVE  o \in events <=> Storable(file, o) /\ o \notin missed
    <3>1. CASE o < offset
      BY <1>2, <1>3, <3>1, RowAt
    <3>2. CASE o >= offset
      <4>1. ~Storable(file, o)
        BY <1>3, <2>7, <3>2
      <4> QED
        BY <4>1 DEF Stored
    <3> QED
      BY <1>3, <3>1, <3>2
  <2>9. RowsBelow(offset)'
    BY <1>1, <2>2, <2>8 DEF RowsBelow
  <2>10. Stored'
    BY <1>1, <2>1, <2>2, <2>9 DEF Stored, LineStarts
  <2> QED
    BY <1>1, <2>10 DEF TickKnows, Idle
<1> QED
  BY <1>5, <1>6

\* Every step keeps the invariant.
LEMMA TailStep == TypeOK /\ TailIInv /\ [Next]_vars => TailIInv'
<1> SUFFICES ASSUME TypeOK, TailIInv, [Next]_vars, truncates' = 0
             PROVE  Stored' /\ TickKnows'
  BY DEF TailIInv
<1>1. CASE AgentTruncate
  BY <1>1 DEF AgentTruncate, TypeOK
<1>2. CASE ~AgentTruncate
  <2>1. truncates = 0
    BY <1>2 DEF Next, Ingest, AgentWrite, Scan, ResetShrunk, ReadWindow, InsertLine, CommitOffset,
                SkipOversizedLine, InsertRefused, CommitRefused, Crash, vars, bounds
  <2>2. Stored /\ TickKnows
    BY <2>1 DEF TailIInv
  <2>3. ASSUME NEW b \in Byte, AgentWrite(b) PROVE Stored' /\ TickKnows'
    BY <2>2, <2>3, GrowthKeeps
  <2>4. CASE Scan
    BY <2>2, <2>4, ScanKeeps
  <2>5. CASE ResetShrunk
    <3>1. tick.committed = offset /\ offset <= tick.len /\ tick.len < tick.committed
      BY <2>2, <2>5 DEF ResetShrunk, TickKnows
    <3>2. tick.len \in Nat /\ offset \in Nat
      BY <2>5, TickShapes DEF ResetShrunk, TypeOK
    <3> QED
      BY <3>1, <3>2
  <2>6. CASE ReadWindow
    BY <2>2, <2>6, ReadKeeps
  <2>7. CASE InsertLine
    BY <2>2, <2>7, InsertKeeps
  <2>8. CASE CommitOffset
    BY <2>2, <2>8, CommitKeeps
  <2>9. CASE SkipOversizedLine
    BY <2>2, <2>9, SkipKeeps
  <2>10. CASE InsertRefused
    BY <2>2, <2>10, RefusalKeeps
  <2>11. CASE CommitRefused
    BY <2>2, <2>11, StoredFrame DEF CommitRefused, durable
  <2>12. CASE Crash
    BY <2>2, <2>12, StoredFrame DEF Crash, durable
  <2>13. CASE UNCHANGED vars
    BY <2>2, <2>13 DEF vars, Stored, TickKnows, RowsBelow
  <2> QED
    BY <1>2, <2>3, <2>4, <2>5, <2>6, <2>7, <2>8, <2>9, <2>10, <2>11, <2>12, <2>13
       DEF Next, Ingest
<1> QED
  BY <1>1, <1>2

\* As long as nobody truncates the file, the committed offset is a line
\* start, below it `events` holds exactly the storable lines but those a
\* refused insert was passed over at, and no row stands for anything but a
\* whole line: for every window, admission cap, file, crash and fault.
THEOREM RowsAreTheLines == Spec => [](truncates = 0 => StoredExactly)
<1>1. Init => TailIInv
  <2> SUFFICES ASSUME Init PROVE Stored /\ TickKnows
    BY DEF TailIInv
  <2>1. Stored
    BY DEF Init, Stored, RowsBelow, LineStarts
  <2>2. TickKnows
    BY DEF Init, TickKnows, Idle
  <2> QED
    BY <2>1, <2>2
<1>2. TailIInv => (truncates = 0 => StoredExactly)
  BY DEF TailIInv, Stored, RowsBelow, StoredExactly
<1> QED
  BY <1>1, <1>2, TailIsTyped, TailStep, PTL DEF Spec

-----------------------------------------------------------------------------
(* Numbering the lines of a file by counting its newlines.                 *)

\* The newlines up to an offset, and the number of the line that starts there.
Upto(f, o) == {p \in Newlines(f) : p <= o}
RankIn(f, o) == Cardinality(Upto(f, o)) + 1
Total(f) == Cardinality(Newlines(f))

\* Line numbers run from one to the number of newlines plus one.
LEMMA RankType ==
    ASSUME NEW f \in Seq(Byte), NEW o \in Nat
    PROVE  /\ IsFiniteSet(Newlines(f)) /\ Total(f) \in Nat
           /\ IsFiniteSet(Upto(f, o)) /\ Cardinality(Upto(f, o)) \in Nat
           /\ RankIn(f, o) \in 1 .. Total(f) + 1
<1>1. IsFiniteSet(Newlines(f))
  <2>1. Newlines(f) \in SUBSET (1 .. Len(f)) /\ Len(f) \in Int /\ 1 \in Int
    BY NewlinesType
  <2>2. IsFiniteSet(1 .. Len(f))
    BY <2>1, FS_Interval
  <2> QED
    BY <2>1, <2>2, FS_Subset
<1>2. Upto(f, o) \in SUBSET Newlines(f)
  BY DEF Upto
<1>3. IsFiniteSet(Upto(f, o)) /\ Cardinality(Upto(f, o)) <= Cardinality(Newlines(f))
  BY <1>1, <1>2, FS_Subset
<1>4. Cardinality(Newlines(f)) \in Nat /\ Cardinality(Upto(f, o)) \in Nat
  BY <1>1, <1>3, FS_CardinalityType
<1> QED
  BY <1>1, <1>3, <1>4 DEF RankIn, Total

\* The following line has the following number.
LEMMA RankNext ==
    ASSUME NEW f \in Seq(Byte), NEW o \in Nat, NEW b \in Nat, FirstAfter(f, o, b)
    PROVE  RankIn(f, b) = RankIn(f, o) + 1
<1>1. Upto(f, b) = Upto(f, o) \cup {b} /\ b \notin Upto(f, o)
  BY NewlinesType DEF Upto, FirstAfter
<1>2. IsFiniteSet(Upto(f, o)) /\ Cardinality(Upto(f, o)) \in Nat
  BY RankType
<1> QED
  BY <1>1, <1>2, FS_AddElement DEF RankIn

\* Later lines have greater numbers.
LEMMA RankRises ==
    ASSUME NEW f \in Seq(Byte), NEW o \in LineStarts(f), NEW q \in LineStarts(f)
    PROVE  /\ o < q => RankIn(f, o) < RankIn(f, q)
           /\ RankIn(f, o) < RankIn(f, q) => o < q
           /\ RankIn(f, o) = RankIn(f, q) => o = q
<1>1. ASSUME NEW x \in LineStarts(f), NEW y \in LineStarts(f), x < y
      PROVE  RankIn(f, x) < RankIn(f, y)
  <2>1. x \in Nat /\ y \in Nat /\ y \in Newlines(f)
    BY <1>1, NewlinesType DEF LineStarts
  <2>2. Upto(f, x) \in SUBSET Upto(f, y) /\ y \in Upto(f, y) /\ y \notin Upto(f, x)
    BY <1>1, <2>1, NewlinesType DEF Upto
  <2>3. /\ IsFiniteSet(Upto(f, y)) /\ Cardinality(Upto(f, y)) \in Nat
        /\ Cardinality(Upto(f, x)) \in Nat
    BY <2>1, RankType
  <2>4. /\ Cardinality(Upto(f, x)) <= Cardinality(Upto(f, y))
        /\ Cardinality(Upto(f, y)) # Cardinality(Upto(f, x))
    BY <2>2, <2>3, FS_Subset
  <2> QED
    BY <2>3, <2>4 DEF RankIn
<1>2. o \in Nat /\ q \in Nat /\ RankIn(f, o) \in Nat /\ RankIn(f, q) \in Nat
  <2>1. o \in Nat /\ q \in Nat
    BY NewlinesType
  <2>2. Cardinality(Upto(f, o)) \in Nat /\ Cardinality(Upto(f, q)) \in Nat
    BY <2>1, RankType
  <2> QED
    BY <2>1, <2>2 DEF RankIn
<1>3. (o < q => RankIn(f, o) < RankIn(f, q)) /\ (q < o => RankIn(f, q) < RankIn(f, o))
  BY <1>1
<1> QED
  BY <1>2, <1>3

\* Every number up to the last is the number of a line start: no number is
\* skipped, for there are as many line starts as numbers.
LEMMA RankOnto ==
    ASSUME NEW f \in Seq(Byte), NEW n \in 1 .. Total(f) + 1
    PROVE  \E o \in LineStarts(f) : RankIn(f, o) = n
<1> SUFFICES ASSUME \A o \in LineStarts(f) : RankIn(f, o) # n PROVE FALSE
  OBVIOUS
<1> DEFINE T == (1 .. Total(f) + 1) \ {n}
           g == [o \in LineStarts(f) |-> RankIn(f, o)]
<1>1. IsFiniteSet(Newlines(f)) /\ Total(f) \in Nat
  BY RankType, NewlinesType
<1>2. IsFiniteSet(LineStarts(f)) /\ Cardinality(LineStarts(f)) = Total(f) + 1
  <2>1. LineStarts(f) = Newlines(f) \cup {0} /\ 0 \notin Newlines(f)
    BY NewlinesType DEF LineStarts
  <2> QED
    BY <1>1, <2>1, FS_AddElement DEF Total
<1>3. IsFiniteSet(T) /\ Cardinality(T) = Total(f)
  <2>1. IsFiniteSet(1 .. Total(f) + 1) /\ Cardinality(1 .. Total(f) + 1) = Total(f) + 1
    BY <1>1, FS_Interval
  <2>2. Cardinality(T) = Cardinality(1 .. Total(f) + 1) - 1 /\ IsFiniteSet(T)
    BY <2>1, FS_RemoveElement
  <2> QED
    BY <1>1, <2>1, <2>2
<1>4. \A o \in LineStarts(f) : RankIn(f, o) \in T
  BY RankType, NewlinesType
<1>5. g \in [LineStarts(f) -> T]
  BY <1>4
<1> HIDE DEF T
<1>6. PICK x, y \in LineStarts(f) : x # y /\ g[x] = g[y]
  <2>1. Cardinality(T) < Cardinality(LineStarts(f))
    BY <1>1, <1>2, <1>3
  <2> HIDE DEF g
  <2> QED
    BY <1>2, <1>3, <1>5, <2>1, FS_PigeonHole
<1> QED
  BY <1>6, RankRises

\* The line start with a number.
StartIn(f, n) == CHOOSE o \in LineStarts(f) : RankIn(f, o) = n

\* Numbers and line starts correspond, and all but the last line are complete.
LEMMA StartType ==
    ASSUME NEW f \in Seq(Byte), NEW n \in 1 .. Total(f) + 1
    PROVE  /\ StartIn(f, n) \in LineStarts(f) /\ StartIn(f, n) \in Nat
           /\ RankIn(f, StartIn(f, n)) = n
           /\ n <= Total(f) <=> HasBoundary(f, StartIn(f, n))
<1> DEFINE o == StartIn(f, n)
<1>1. o \in LineStarts(f) /\ RankIn(f, o) = n
  BY RankOnto DEF StartIn
<1>2. o \in Nat
  BY <1>1, NewlinesType
<1> HIDE DEF o
<1>3. Total(f) \in Nat /\ Cardinality(Upto(f, o)) = n - 1 /\ IsFiniteSet(Newlines(f))
  <2>1. Cardinality(Upto(f, o)) \in Nat /\ n = Cardinality(Upto(f, o)) + 1
    BY <1>1, <1>2, RankType DEF RankIn
  <2> QED
    BY <1>2, <2>1, RankType
<1>4. CASE HasBoundary(f, o)
  <2>1. Upto(f, o) \in SUBSET Newlines(f) /\ Upto(f, o) # Newlines(f)
    BY <1>2, <1>4, NewlinesType DEF HasBoundary, Upto
  <2>2. Cardinality(Upto(f, o)) # Total(f)
    BY <1>3, <2>1, FS_Subset DEF Total
  <2> QED
    BY <1>1, <1>2, <1>3, <1>4, <2>2 DEF o
<1>5. CASE ~HasBoundary(f, o)
  <2>1. Upto(f, o) = Newlines(f)
    BY <1>2, <1>5, NewlinesType DEF HasBoundary, Upto
  <2> QED
    BY <1>1, <1>2, <1>3, <1>5, <2>1 DEF o, Total
<1> QED
  BY <1>4, <1>5

\* The start of the line with the number of `o` is `o`.
LEMMA StartOfRank ==
    ASSUME NEW f \in Seq(Byte), NEW o \in LineStarts(f)
    PROVE  /\ o \in Nat /\ RankIn(f, o) \in 1 .. Total(f) + 1
           /\ StartIn(f, RankIn(f, o)) = o
           /\ RankIn(f, o) <= Total(f) <=> HasBoundary(f, o)
<1>1. o \in Nat /\ RankIn(f, o) \in 1 .. Total(f) + 1
  BY NewlinesType, RankType
<1>2. StartIn(f, RankIn(f, o)) = o
  BY <1>1, StartType, RankRises
<1> QED
  BY <1>1, <1>2, StartType

-----------------------------------------------------------------------------
(* The numbering under growth: old lines keep their numbers.               *)

\* An appended byte that is no newline completes no line.
LEMMA NumbersStay ==
    ASSUME NEW f \in Seq(Byte), NEW c \in Byte, c # Newline
    PROVE  Newlines(Append(f, c)) = Newlines(f)
<1>1. /\ Append(f, c) \in Seq(Byte) /\ Len(f) \in Nat
      /\ Len(Append(f, c)) = Len(f) + 1 /\ Append(f, c)[Len(f) + 1] = c
      /\ \A p \in 1 .. Len(f) : Append(f, c)[p] = f[p]
  OBVIOUS
<1> DEFINE g == Append(f, c)
<1>2. /\ Len(g) = Len(f) + 1 /\ g[Len(f) + 1] # Newline
      /\ \A p \in 1 .. Len(f) : g[p] = f[p]
  BY <1>1
<1> HIDE DEF g
<1>3. \A p \in 1 .. Len(f) + 1 : p \in 1 .. Len(f) \/ p = Len(f) + 1
  BY <1>1
<1>4. Newlines(g) = Newlines(f)
  BY <1>1, <1>2, <1>3 DEF Newlines
<1> QED
  BY <1>4 DEF g

\* An appended newline is one more, behind all others.
LEMMA OneMoreNewline ==
    ASSUME NEW f \in Seq(Byte)
    PROVE  /\ Newlines(Append(f, Newline)) = Newlines(f) \cup {Len(f) + 1}
           /\ Total(Append(f, Newline)) = Total(f) + 1
<1>1. /\ Append(f, Newline) \in Seq(Byte) /\ Len(f) \in Nat
      /\ Len(Append(f, Newline)) = Len(f) + 1 /\ Append(f, Newline)[Len(f) + 1] = Newline
      /\ \A p \in 1 .. Len(f) : Append(f, Newline)[p] = f[p]
  BY DEF Byte
<1> DEFINE g == Append(f, Newline)
<1>2. /\ Len(g) = Len(f) + 1 /\ g[Len(f) + 1] = Newline
      /\ \A p \in 1 .. Len(f) : g[p] = f[p]
  BY <1>1
<1> HIDE DEF g
<1>3. \A p \in 1 .. Len(f) + 1 : p \in 1 .. Len(f) \/ p = Len(f) + 1
  BY <1>1
<1>4. Newlines(g) = Newlines(f) \cup {Len(f) + 1}
  BY <1>1, <1>2, <1>3 DEF Newlines
<1>5. Len(f) + 1 \notin Newlines(f) /\ IsFiniteSet(Newlines(f)) /\ Total(f) \in Nat
  <2>1. Len(f) + 1 \notin Newlines(f)
    BY <1>1, NewlinesType
  <2>2. 0 \in Nat
    OBVIOUS
  <2> QED
    BY <2>1, <2>2, RankType
<1>6. Total(g) = Total(f) + 1
  BY <1>4, <1>5, FS_AddElement DEF Total
<1> QED
  BY <1>4, <1>6 DEF g

\* A line start of the file keeps its number when the file grows.
LEMMA RankStays ==
    ASSUME NEW f \in Seq(Byte), NEW c \in Byte, NEW o \in LineStarts(f)
    PROVE  /\ Append(f, c) \in Seq(Byte) /\ o \in LineStarts(Append(f, c))
           /\ RankIn(Append(f, c), o) = RankIn(f, o)
<1>1. /\ Append(f, c) \in Seq(Byte) /\ Newlines(f) \subseteq Newlines(Append(f, c))
      /\ \A p \in Newlines(Append(f, c)) : p <= Len(f) => p \in Newlines(f)
  BY GrownNewlines
<1>2. o \in 0 .. Len(f) /\ Len(f) \in Nat
  BY NewlinesType
<1>3. Newlines(Append(f, c)) \subseteq Nat
  BY <1>1, NewlinesType
<1> DEFINE g == Append(f, c)
<1> HIDE DEF g
<1>4. Upto(g, o) = Upto(f, o)
  <2>1. \A p \in Newlines(g) : p <= o => p <= Len(f)
    BY <1>2, <1>3 DEF g
  <2> QED
    BY <1>1, <2>1 DEF Upto, g
<1>5. o \in LineStarts(g)
  BY <1>1 DEF LineStarts, g
<1> QED
  BY <1>1, <1>4, <1>5 DEF RankIn, g

\* So the n-th line of the file is the n-th line of the grown file.
LEMMA StartStays ==
    ASSUME NEW f \in Seq(Byte), NEW c \in Byte, NEW n \in 1 .. Total(f) + 1
    PROVE  StartIn(Append(f, c), n) = StartIn(f, n)
<1> DEFINE o == StartIn(f, n)
           g == Append(f, c)
<1>1. o \in LineStarts(f) /\ RankIn(f, o) = n
  BY StartType
<1>2. g \in Seq(Byte) /\ o \in LineStarts(g) /\ RankIn(g, o) = n
  BY <1>1, RankStays
<1> HIDE DEF o, g
<1>3. StartIn(g, RankIn(g, o)) = o
  BY <1>2, StartOfRank
<1> QED
  BY <1>2, <1>3 DEF o, g

-----------------------------------------------------------------------------
(* The log the reader's state stands for.                                  *)

KindIn(f, o) == IF Storable(f, o) THEN "stored" ELSE "passed"

\* The map in terms of the numbering, now and in the next state.
LEMMA LogView ==
    /\ logLines = [n \in 1 .. Total(file) |-> KindIn(file, StartIn(file, n))]
    /\ logConsumed = RankIn(file, offset) - 1
    /\ logStored = {RankIn(file, o) : o \in events \cup missed}
    /\ logLines' = [n \in 1 .. Total(file') |-> KindIn(file', StartIn(file', n))]
    /\ logConsumed' = RankIn(file', offset') - 1
    /\ logStored' = {RankIn(file', o) : o \in events' \cup missed'}
BY DEF logLines, logConsumed, logStored, Total, RankIn, StartIn, StartOf, LineNumber, Upto,
       KindOf, KindIn

\* The lines of the log are the complete lines of the file.
LEMMA LogLines ==
    ASSUME file \in Seq(Byte)
    PROVE  /\ logLines \in Seq({"stored", "passed"}) /\ Len(logLines) = Total(file)
           /\ Total(file) \in Nat
           /\ \A n \in 1 .. Total(file) : logLines[n] = KindIn(file, StartIn(file, n))
<1>1. Total(file) \in Nat
  BY RankType
<1>2. logLines = [n \in 1 .. Total(file) |-> KindIn(file, StartIn(file, n))]
  BY LogView
<1>3. logLines \in [1 .. Total(file) -> {"stored", "passed"}]
  BY <1>2 DEF KindIn
<1>4. logLines \in Seq({"stored", "passed"}) /\ Len(logLines) = Total(file)
  BY <1>1, <1>3, LenProperties, IsASeq
<1> QED
  BY <1>1, <1>2, <1>4

\* A complete line is an element of the log.
LEMMA LogLine ==
    ASSUME file \in Seq(Byte), NEW o \in LineStarts(file), HasBoundary(file, o)
    PROVE  /\ RankIn(file, o) \in 1 .. Len(logLines)
           /\ logLines[RankIn(file, o)] = "stored" <=> Storable(file, o)
<1>1. RankIn(file, o) \in 1 .. Total(file) /\ StartIn(file, RankIn(file, o)) = o
  BY StartOfRank, LogLines
<1> QED
  BY <1>1, LogLines DEF KindIn

\* Lines whose rows the invariant vouches for are settled in the log.
LEMMA SettledBelow ==
    ASSUME file \in Seq(Byte), NEW s \in LineStarts(file), RowsBelow(s),
           NEW i \in 1 .. RankIn(file, s) - 1, logLines[i] = "stored"
    PROVE  i \in logStored
<1> DEFINE o == StartIn(file, i)
<1>1. s \in Nat /\ RankIn(file, s) \in 1 .. Total(file) + 1 /\ Total(file) \in Nat
  BY StartOfRank, LogLines
<1>2. i \in 1 .. Total(file) /\ i \in 1 .. Total(file) + 1 /\ i < RankIn(file, s)
  BY <1>1
<1>3. o \in LineStarts(file) /\ o \in Nat /\ RankIn(file, o) = i
  BY <1>2, StartType
<1>4. Storable(file, o)
  BY <1>2, LogLines DEF KindIn
<1> HIDE DEF o
<1>5. o < s
  BY <1>2, <1>3, RankRises
<1>6. o \in 0 .. s - 1
  BY <1>1, <1>3, <1>5
<1>7. o \in events \cup missed
  BY <1>4, <1>6 DEF RowsBelow
<1> QED
  BY <1>3, <1>7, LogView

-----------------------------------------------------------------------------
(* Every step of the reader is a step of the log or none.                  *)

\* A refused insert was one of a storable line.
MissedAreLines == \A o \in missed : Storable(file, o)

\* A step that moves neither a newline nor the offset nor the rows.
LEMMA LogRests ==
    ASSUME UNCHANGED <<file, offset, events, missed>>
    PROVE  UNCHANGED Log!lvars
BY LogView DEF Log!lvars

\* The rows keep their numbers when the file grows.
LEMMA GrowthKeepsStored ==
    ASSUME TypeOK, Stored, MissedAreLines, NEW c \in Byte, AgentWrite(c)
    PROVE  logConsumed' = logConsumed /\ logStored' = logStored
<1>1. /\ file \in Seq(Byte) /\ file' = Append(file, c)
      /\ UNCHANGED <<offset, events, missed>>
  BY DEF TypeOK, AgentWrite
<1>2. \A o \in LineStarts(file) : RankIn(file', o) = RankIn(file, o)
  BY <1>1, RankStays
<1>3. offset \in LineStarts(file) /\ events \cup missed \subseteq LineStarts(file)
  BY DEF Stored, MissedAreLines, Storable
<1>4. {RankIn(file', o) : o \in events \cup missed} = {RankIn(file, o) : o \in events \cup missed}
  BY <1>2, <1>3
<1> QED
  BY <1>1, <1>2, <1>3, <1>4, LogView

\* The complete lines stay what they are when the file grows.
LEMMA GrowthKeepsLines ==
    ASSUME file \in Seq(Byte), NEW c \in Byte, file' = Append(file, c), NEW n \in 1 .. Total(file)
    PROVE  KindIn(file', StartIn(file', n)) = KindIn(file, StartIn(file, n))
<1>1. n \in 1 .. Total(file) + 1 /\ n <= Total(file)
  BY LogLines
<1>2. /\ StartIn(file', n) = StartIn(file, n)
      /\ StartIn(file, n) \in Nat /\ HasBoundary(file, StartIn(file, n))
  BY <1>1, StartStays, StartType
<1>3. Storable(file', StartIn(file, n)) <=> Storable(file, StartIn(file, n))
  BY <1>2, GrownStorable
<1> QED
  BY <1>2, <1>3 DEF KindIn

\* The agent's byte is nothing to the log, but its newline ends a line.
LEMMA WriteImplements ==
    ASSUME TypeOK, Stored, MissedAreLines, NEW c \in Byte, AgentWrite(c)
    PROVE  Log!Write \/ UNCHANGED Log!lvars
<1>1. file \in Seq(Byte) /\ file' = Append(file, c)
  BY DEF TypeOK, AgentWrite
<1>2. logConsumed' = logConsumed /\ logStored' = logStored
  BY GrowthKeepsStored
<1>3. CASE c # Newline
  <2>1. Total(file') = Total(file)
    BY <1>1, <1>3, NumbersStay DEF Total
  <2>2. logLines' = logLines
    BY <1>1, <2>1, LogView, GrowthKeepsLines
  <2> QED
    BY <1>2, <2>2 DEF Log!lvars
<1>4. CASE c = Newline
  <2> DEFINE k == KindIn(file', StartIn(file', Total(file) + 1))
             u == Append(logLines, k)
  <2>1. Total(file') = Total(file) + 1 /\ Total(file) \in Nat
    BY <1>1, <1>4, OneMoreNewline, LogLines
  <2>2. k \in {"stored", "passed"}
    BY DEF KindIn
  <2>3. /\ logLines \in Seq({"stored", "passed"}) /\ Len(logLines) = Total(file)
        /\ \A n \in 1 .. Total(file) : logLines[n] = KindIn(file, StartIn(file, n))
    BY <1>1, LogLines
  <2>4. /\ file' \in Seq(Byte)
        /\ logLines' \in Seq({"stored", "passed"}) /\ Len(logLines') = Total(file) + 1
        /\ \A n \in 1 .. Total(file) + 1 : logLines'[n] = KindIn(file', StartIn(file', n))
    <3>1. file' \in Seq(Byte)
      BY <1>1, GrownNewlines
    <3>2. /\ logLines' = [n \in 1 .. Total(file) + 1 |-> KindIn(file', StartIn(file', n))]
          /\ Total(file) + 1 \in Nat
      BY <2>1, LogView
    <3>3. logLines' \in [1 .. Total(file) + 1 -> {"stored", "passed"}]
      BY <3>2 DEF KindIn
    <3>4. logLines' \in Seq({"stored", "passed"}) /\ Len(logLines') = Total(file) + 1
      BY <3>2, <3>3, LenProperties, IsASeq
    <3> QED
      BY <3>1, <3>2, <3>4
  <2> HIDE DEF k
  <2>5. /\ u \in Seq({"stored", "passed"}) /\ Len(u) = Total(file) + 1
        /\ u[Total(file) + 1] = k /\ \A n \in 1 .. Total(file) : u[n] = logLines[n]
    BY <2>2, <2>3, AppendProperties
  <2> HIDE DEF u
  <2>6. ASSUME NEW n \in 1 .. Total(file) + 1 PROVE logLines'[n] = u[n]
    <3>1. CASE n \in 1 .. Total(file)
      BY <1>1, <2>3, <2>4, <2>5, <3>1, GrowthKeepsLines
    <3>2. CASE n = Total(file) + 1
      BY <2>4, <2>5, <3>2 DEF k
    <3> QED
      BY <2>1, <3>1, <3>2
  <2>7. logLines' = u
    BY <2>4, <2>5, <2>6, SeqEqual
  <2>8. logLines' = Append(logLines, k)
    BY <2>7 DEF u
  <2> QED
    BY <1>2, <2>2, <2>8 DEF Log!Write
<1> QED
  BY <1>3, <1>4

\* A storable line that the walk takes in is the log's next line to store,
\* unless it was stored before a crash or passed over.
LEMMA StoreImplements ==
    ASSUME TypeOK, Stored, TickKnows, WalkHasLine, Storable(file, WalkOffset),
           file' = file, offset' = offset,
           events' \cup missed' = (events \cup missed) \cup {WalkOffset}
    PROVE  Log!Store \/ UNCHANGED Log!lvars
<1> DEFINE i == RankIn(file, WalkOffset)
<1>0. /\ file \in Seq(Byte) /\ offset \in LineStarts(file) /\ offset \in Nat
      /\ WalkOffset \in LineStarts(file) /\ HasBoundary(file, WalkOffset)
  BY DEF TypeOK, Stored, Storable
<1>1. WalkOffset = offset + tick.start /\ RowsBelow(WalkOffset) /\ offset <= WalkOffset
  <2>1. WalkOffset = offset + tick.start /\ tick.start \in Nat
    BY WalkedLine, WalkStep DEF TypeOK, WalkType
  <2>2. RowsBelow(offset + tick.start)
    BY DEF TickKnows, WalkHasLine
  <2> QED
    BY <1>0, <2>1, <2>2
<1>2. i \in 1 .. Len(logLines) /\ logLines[i] = "stored"
  BY <1>0, LogLine
<1>3. logConsumed = RankIn(file, offset) - 1 /\ RankIn(file, offset) \in Nat
  BY <1>0, LogView, StartOfRank, LogLines
<1>4. RankIn(file, offset) <= i
  <2>1. CASE offset = WalkOffset
    BY <1>3, <2>1
  <2>2. CASE offset < WalkOffset
    BY <1>0, <1>2, <1>3, <2>2, RankRises
  <2> QED
    BY <1>0, <1>1, <2>1, <2>2, NewlinesType
<1>5. \A n \in logConsumed + 1 .. i - 1 : logLines[n] = "stored" => n \in logStored
  <2> SUFFICES ASSUME NEW n \in logConsumed + 1 .. i - 1, logLines[n] = "stored"
               PROVE  n \in logStored
    OBVIOUS
  <2>0. RankIn(file, offset) \in 1 .. Total(file) + 1 /\ Total(file) \in Nat
    BY <1>0, StartOfRank, LogLines
  <2>1. n \in 1 .. i - 1
    BY <1>2, <1>3, <2>0
  <2> QED
    BY <1>0, <1>1, <2>1, SettledBelow
<1>6. logLines' = logLines /\ logConsumed' = logConsumed
  BY LogView
<1>7. logStored' = logStored \cup {i}
  BY LogView
<1> HIDE DEF i
<1>8. CASE i \in logStored
  BY <1>6, <1>7, <1>8 DEF Log!lvars
<1>9. CASE i \notin logStored
  <2>1. i \in logConsumed + 1 .. Len(logLines)
    <3>1. Len(logLines) \in Nat
      BY <1>0, LogLines
    <3> QED
      BY <1>2, <1>3, <1>4, <3>1
  <2> QED
    BY <1>2, <1>5, <1>6, <1>7, <1>9, <2>1 DEF Log!Store, Log!Settled
<1> QED
  BY <1>8, <1>9

\* The inserts, made or refused, store lines of the log or nothing.
LEMMA InsertImplements ==
    ASSUME TypeOK, Stored, TickKnows, MissedAreLines, InsertLine \/ InsertRefused
    PROVE  (Log!Store \/ UNCHANGED Log!lvars) /\ MissedAreLines'
<1>1. WalkHasLine /\ file' = file /\ offset' = offset
  BY DEF InsertLine, InsertRefused, durable
<1>2. Storable(file, WalkOffset) <=> WellFormed(WalkLine)
  BY <1>1, WalkedLine
<1>3. CASE WellFormed(WalkLine)
  <2>1. events' \cup missed' = (events \cup missed) \cup {WalkOffset}
    BY <1>3 DEF InsertLine, InsertRefused, durable
  <2>2. MissedAreLines'
    BY <1>1, <1>2, <1>3, <2>1 DEF MissedAreLines, InsertLine, InsertRefused
  <2> QED
    BY <1>1, <1>2, <1>3, <2>1, <2>2, StoreImplements
<1>4. CASE ~WellFormed(WalkLine)
  <2>1. WalkOffset \notin missed
    BY <1>2, <1>4 DEF MissedAreLines
  <2>2. UNCHANGED <<file, offset, events, missed>>
    BY <1>1, <1>4, <2>1 DEF InsertLine, InsertRefused
  <2> QED
    BY <2>2, LogRests DEF MissedAreLines
<1> QED
  BY <1>3, <1>4

\* An offset that moves to a line start past settled lines consumes them.
LEMMA ConsumeImplements ==
    ASSUME file \in Seq(Byte), Stored, Stored', UNCHANGED <<file, events, missed>>,
           offset < offset'
    PROVE  Log!Consume
<1> DEFINE j == RankIn(file, offset') - 1
<1>1. /\ offset \in LineStarts(file) /\ offset' \in LineStarts(file)
      /\ \A o \in 0 .. offset' - 1 : o \in events <=> Storable(file, o) /\ o \notin missed
  BY DEF Stored, RowsBelow
<1>2. /\ RankIn(file, offset) \in 1 .. Total(file) + 1 /\ Total(file) \in Nat
      /\ RankIn(file, offset') \in 1 .. Total(file) + 1
      /\ RankIn(file, offset) < RankIn(file, offset')
  BY <1>1, StartOfRank, RankRises, LogLines
<1>3. /\ logConsumed = RankIn(file, offset) - 1 /\ logConsumed' = j
      /\ logLines' = logLines /\ logStored' = logStored /\ Len(logLines) = Total(file)
  BY LogView, LogLines
<1>4. \A n \in logConsumed + 1 .. j : logLines[n] = "stored" => n \in logStored
  <2> SUFFICES ASSUME NEW n \in logConsumed + 1 .. j, logLines[n] = "stored"
               PROVE  n \in logStored
    OBVIOUS
  <2>1. n \in 1 .. RankIn(file, offset') - 1
    BY <1>2, <1>3
  <2>2. RowsBelow(offset')
    BY <1>1 DEF RowsBelow
  <2> QED
    BY <1>1, <2>1, <2>2, SettledBelow
<1>5. j \in logConsumed + 1 .. Len(logLines)
  BY <1>2, <1>3
<1> HIDE DEF j
<1> QED
  BY <1>3, <1>4, <1>5 DEF Log!Consume, Log!Settled

\* set_offset, past the lines walked or past an oversized one, consumes lines
\* of the log or nothing.
LEMMA CommitImplements ==
    ASSUME TypeOK, Stored, TickKnows, CommitOffset \/ SkipOversizedLine
    PROVE  Log!Consume \/ UNCHANGED Log!lvars
<1>1. Stored' /\ UNCHANGED <<file, events, missed>> /\ file \in Seq(Byte) /\ offset \in Nat
  BY CommitKeeps, SkipKeeps DEF CommitOffset, SkipOversizedLine, TypeOK
<1>2. WalkType /\ tick.committed = offset
  BY TickShapes DEF CommitOffset, SkipOversizedLine, WalkEnded, TickKnows, TypeOK
<1>3. offset' = offset \/ offset < offset'
  <2>1. CASE CommitOffset
    <3>1. tick.start \in Nat
      BY <1>2 DEF WalkType
    <3> QED
      BY <1>1, <1>2, <2>1, <3>1 DEF CommitOffset
  <2>2. CASE SkipOversizedLine
    <3> DEFINE to == tick.committed + Len(tick.buf)
    <3>1. to \in Nat /\ offset <= to
      BY <1>1, <1>2 DEF WalkType
    <3>2. HasBoundary(file, to) => Boundary(file, to) \in Nat /\ Boundary(file, to) > to
      BY <1>1, <3>1, BoundaryIsFirst, NewlinesType DEF FirstAfter
    <3>3. offset' = IF HasBoundary(file, to) THEN Boundary(file, to) ELSE offset
      BY <2>2 DEF SkipOversizedLine
    <3> HIDE DEF to
    <3> QED
      BY <1>1, <3>1, <3>2, <3>3
  <2> QED
    BY <2>1, <2>2
<1>4. CASE offset' = offset
  BY <1>1, <1>4, LogRests
<1>5. CASE offset < offset'
  BY <1>1, <1>5, ConsumeImplements
<1> QED
  BY <1>3, <1>4, <1>5

\* A refused insert stays one of a storable line, while nobody truncates.
MissedInv == truncates = 0 => MissedAreLines

\* Every step of the reader is a step of the log, or changes nothing of it.
LEMMA ReaderStep ==
    ASSUME TypeOK, TailIInv, MissedInv, truncates = 0, truncates' = 0, [Next]_vars
    PROVE  [Log!Next]_(Log!lvars) /\ MissedAreLines'
<1>0. Stored /\ TickKnows /\ MissedAreLines
  BY DEF TailIInv, MissedInv
<1>1. ASSUME NEW c \in Byte, AgentWrite(c)
      PROVE  [Log!Next]_(Log!lvars) /\ MissedAreLines'
  <2>1. Log!Write \/ UNCHANGED Log!lvars
    BY <1>0, <1>1, WriteImplements
  <2>2. /\ file \in Seq(Byte) /\ file' = Append(file, c) /\ missed' = missed
        /\ missed \subseteq Nat
    BY <1>1 DEF AgentWrite, TypeOK
  <2>3. MissedAreLines'
    BY <1>0, <2>2, GrownStorable DEF MissedAreLines
  <2> QED
    BY <2>1, <2>3 DEF Log!Next
<1>2. CASE AgentTruncate
  BY <1>2 DEF AgentTruncate
<1>3. CASE InsertLine \/ InsertRefused
  BY <1>0, <1>3, InsertImplements DEF Log!Next
<1>4. CASE CommitOffset \/ SkipOversizedLine
  <2>1. Log!Consume \/ UNCHANGED Log!lvars
    BY <1>0, <1>4, CommitImplements
  <2>2. MissedAreLines'
    BY <1>0, <1>4 DEF MissedAreLines, CommitOffset, SkipOversizedLine
  <2> QED
    BY <2>1, <2>2 DEF Log!Next
<1>5. CASE ResetShrunk
  <2>1. tick.committed = offset /\ offset <= tick.len /\ tick.len < tick.committed
    BY <1>0, <1>5 DEF ResetShrunk, TickKnows
  <2>2. tick.len \in Nat /\ offset \in Nat
    BY <1>5, TickShapes DEF ResetShrunk, TypeOK
  <2> QED
    BY <2>1, <2>2
<1>6. CASE Scan \/ ReadWindow \/ CommitRefused \/ Crash \/ UNCHANGED vars
  <2>1. UNCHANGED <<file, offset, events, missed>>
    BY <1>6 DEF Scan, ReadWindow, CommitRefused, Crash, vars, durable
  <2> QED
    BY <1>0, <2>1, LogRests DEF MissedAreLines
<1> QED
  BY <1>1, <1>2, <1>3, <1>4, <1>5, <1>6 DEF Next, Ingest

\* The byte-level reader implements the line log for files of every length:
\* as long as the transcript is only appended to, its ticks, however the
\* window, the admission cap, crashes and refused statements cut them, look
\* like storing the lines in order, each once, and passing settled ones.
THEOREM ReaderImplementsLog == Spec /\ [](truncates = 0) => Log!SafeSpec
<1>1. Init => Log!Init /\ MissedInv /\ TailIInv
  <2> SUFFICES ASSUME Init PROVE Log!Init /\ MissedInv /\ TailIInv
    OBVIOUS
  <2>1. /\ file \in Seq(Byte) /\ Newlines(file) = {} /\ 0 \in Nat
        /\ events = {} /\ missed = {} /\ offset = 0
    BY DEF Init, Newlines
  <2>2. Total(file) = 0
    BY <2>1, FS_EmptySet DEF Total
  <2>3. Cardinality(Upto(file, offset)) = 0
    BY <2>1, FS_EmptySet DEF Upto
  <2>4. RankIn(file, offset) = 1
    BY <2>3 DEF RankIn
  <2>5. logLines = <<>>
    BY <2>1, <2>2, LogLines, EmptySeq
  <2>6. logConsumed = 0 /\ logStored = {}
    BY <2>1, <2>4, LogView
  <2>7. Stored /\ TickKnows
    BY DEF Init, Stored, RowsBelow, LineStarts, TickKnows, Idle
  <2> QED
    BY <2>1, <2>5, <2>6, <2>7 DEF Log!Init, MissedInv, MissedAreLines, TailIInv
<1>2. TypeOK /\ TailIInv /\ MissedInv /\ truncates = 0 /\ (truncates = 0)' /\ [Next]_vars
        => [Log!Next]_(Log!lvars) /\ MissedInv'
  BY ReaderStep DEF MissedInv
<1> QED
  BY <1>1, <1>2, TailIsTyped, TailStep, PTL DEF Spec, Log!SafeSpec
=============================================================================
