------------------------- MODULE TranscriptLogProofs -------------------------
(***************************************************************************)
(* The promise of the line log, for transcripts of every length.           *)
(***************************************************************************)
EXTENDS TranscriptLog, TLAPS

\* The consumed prefix stays inside the transcript.
LogType == lines \in Seq(LineKind) /\ consumed \in 0 .. Len(lines)

\* The inductive invariant: the type and the promise.
LogInv == LogType /\ ConsumedIsStored

\* A written, stored or consumed line keeps the promise.
LEMMA LogStep == LogInv /\ [Next]_lvars => LogInv'
<1> SUFFICES ASSUME LogInv, [Next]_lvars PROVE LogInv'
  OBVIOUS
<1>0. lines \in Seq(LineKind) /\ consumed \in 0 .. Len(lines) /\ Len(lines) \in Nat
  BY DEF LogInv, LogType
<1>1. \A i \in 1 .. consumed : lines[i] = "stored" => i \in stored
  BY DEF LogInv, ConsumedIsStored, Settled
<1>2. CASE Write
  <2>1. PICK k \in LineKind : lines' = Append(lines, k)
    BY <1>2 DEF Write
  <2>2. /\ lines' \in Seq(LineKind) /\ Len(lines') = Len(lines) + 1
        /\ \A i \in 1 .. consumed : lines'[i] = lines[i]
    BY <1>0, <2>1
  <2> QED
    BY <1>0, <1>1, <1>2, <2>2 DEF Write, LogInv, LogType, ConsumedIsStored, Settled
<1>3. CASE Store
  BY <1>0, <1>1, <1>3 DEF Store, LogInv, LogType, ConsumedIsStored, Settled
<1>4. CASE Consume
  <2>1. PICK j \in consumed + 1 .. Len(lines) :
           /\ \A i \in consumed + 1 .. j : lines[i] = "stored" => i \in stored
           /\ consumed' = j
    BY <1>4 DEF Consume, Settled
  <2>2. \A i \in 1 .. j : i \in 1 .. consumed \/ i \in consumed + 1 .. j
    BY <1>0, <2>1
  <2> QED
    BY <1>0, <1>1, <1>4, <2>1, <2>2 DEF Consume, LogInv, LogType, ConsumedIsStored, Settled
<1>5. CASE UNCHANGED lvars
  BY <1>5 DEF lvars, LogInv, LogType, ConsumedIsStored, Settled
<1> QED
  BY <1>2, <1>3, <1>4, <1>5 DEF Next

\* Whatever implements the log never has its committed offset past a
\* well-formed line without a row.
THEOREM ConsumedLinesAreStored == SafeSpec => []ConsumedIsStored
<1>1. Init => LogInv
  BY DEF Init, LogInv, LogType, ConsumedIsStored, Settled
<1>2. LogInv => ConsumedIsStored
  BY DEF LogInv
<1> QED
  BY <1>1, <1>2, LogStep, PTL DEF SafeSpec
=============================================================================
