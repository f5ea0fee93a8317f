---------------------------- MODULE TerminalProofs ----------------------------
(***************************************************************************)
(* Proofs about a terminal's two directions in Workbench, for every value  *)
(* of the bounds: keystrokes from control to the node's shell, and output  *)
(* from the shell to the browser's tab; and, with the invariants of the    *)
(* other parts, the types of all of Workbench.                             *)
(***************************************************************************)
EXTENDS WorkbenchProofs, SequenceTheorems

-----------------------------------------------------------------------------
(***************************************************************************)
(* Keystrokes on the wire.                                                 *)
(***************************************************************************)
Sent == [kind : {"input"}, id : 1 .. MaxInput, parts : 1 .. MaxParts]
          \cup [kind : {"request"}, id : Req, parts : 1 .. MaxParts + 1]
FrameSet == [e : Sent, index : Nat]

WireTypes ==
  /\ up \in BOOLEAN /\ outbound \in Seq(Sent) /\ wire \in Seq(FrameSet)
  /\ typed \in 0 .. MaxInput /\ ptyIn \in Seq(Nat)
  /\ results \in Seq(Req) /\ tasks \subseteq Req /\ waiters \subseteq Req
  /\ caller \in [Req -> Outcome]

\* The fragments of a message lie next to each other, in order and to the last.
Whole(w) ==
  \A i \in 1 .. Len(w) :
    /\ w[i].index < w[i].e.parts
    /\ w[i].index + 1 < w[i].e.parts =>
         i < Len(w) /\ w[i + 1].e = w[i].e /\ w[i + 1].index = w[i].index + 1
    /\ w[i].index + 1 = w[i].e.parts /\ i < Len(w) => w[i + 1].index = 0

\* The assembler holds what was read of the message the wire goes on with.
Gathered(w, g) ==
  /\ w = <<>> => g = {}
  /\ w # <<>> /\ w[1].index = 0 => g = {}
  /\ w # <<>> /\ w[1].index # 0 => g = {[e |-> w[1].e, have |-> 0 .. w[1].index - 1]}

\* Inputs follow each other as they were typed.
WireRises(w) ==
  \A i, j \in 1 .. Len(w) :
    i < j /\ InlineKind(w[i].e) /\ InlineKind(w[j].e) =>
      \/ w[i].e.id < w[j].e.id
      \/ w[i].e = w[j].e /\ w[j].index = w[i].index + (j - i)
OutRises(o) ==
  \A i, j \in 1 .. Len(o) :
    i < j /\ InlineKind(o[i]) /\ InlineKind(o[j]) => o[i].id < o[j].id
WireFirst(w, o) ==
  \A i \in 1 .. Len(w), j \in 1 .. Len(o) :
    InlineKind(w[i].e) /\ InlineKind(o[j]) => w[i].e.id < o[j].id

\* The inputs under way are those typed and not yet received.
OnWire(w, x) == \E i \in 1 .. Len(w) : InlineKind(w[i].e) /\ w[i].e.id = x
InQueue(o, x) == \E i \in 1 .. Len(o) : InlineKind(o[i]) /\ o[i].id = x
UnderWay(w, o, n, t) ==
  \A x \in Nat : OnWire(w, x) \/ InQueue(o, x) <=> n < x /\ x <= t

WireOrder ==
  /\ Whole(wire) /\ Gathered(wire, groups)
  /\ WireRises(wire) /\ OutRises(outbound) /\ WireFirst(wire, outbound)
  /\ up => UnderWay(wire, outbound, Len(ptyIn), typed)
  /\ ~up => wire = <<>> /\ outbound = <<>>
  /\ Len(ptyIn) <= typed
  /\ \A i \in 1 .. Len(ptyIn) : ptyIn[i] = i

WireInv == WireTypes /\ WireOrder

\* Nothing is under way at first.
LEMMA WireStarts == WireInit => WireInv
<1> SUFFICES ASSUME WireInit PROVE WireInv
  OBVIOUS
<1>1. WireTypes
  BY WireAssumption DEF WireInit, WireTypes, Outcome
<1>2. Whole(wire) /\ Gathered(wire, groups) /\ WireRises(wire)
  BY DEF WireInit, Whole, Gathered, WireRises
<1>3. OutRises(outbound) /\ WireFirst(wire, outbound)
  BY DEF WireInit, OutRises, WireFirst
<1>4. UnderWay(wire, outbound, Len(ptyIn), typed)
  BY DEF WireInit, UnderWay, OnWire, InQueue
<1> QED
  BY <1>1, <1>2, <1>3, <1>4 DEF WireInv, WireOrder, WireInit

\* An envelope that is sent is one the types know.
LEMMA SentFields ==
  ASSUME NEW e \in Sent
  PROVE  /\ e.parts \in Nat /\ e.parts >= 1
         /\ InlineKind(e) => e.id \in 1 .. MaxInput
         /\ ~InlineKind(e) => e.id \in Req
BY WireAssumption DEF Sent, InlineKind

\* The types are kept.
LEMMA WireTypesStep ==
  ASSUME WireTypes, [WireNext]_wireState
  PROVE  WireTypes'
<1>0. WireTypes
  OBVIOUS
<1>1. ASSUME NEW r \in Req, CallNode(r)
      PROVE  WireTypes'
  <2>1. \A n \in 1 .. MaxParts + 1 : [kind |-> "request", id |-> r, parts |-> n] \in Sent
    BY DEF Sent
  <2>2. outbound' \in Seq(Sent)
    <3>1. CASE up
      <4>1. PICK n \in 1 .. MaxParts + 1 :
              outbound' = Append(outbound, [kind |-> "request", id |-> r, parts |-> n])
        BY <1>1, <3>1 DEF CallNode
      <4> QED
        BY <1>0, <2>1, <4>1, AppendProperties DEF WireTypes
    <3> QED
      BY <1>0, <1>1, <3>1 DEF CallNode, WireTypes
  <2>3. caller' \in [Req -> Outcome] /\ waiters' \subseteq Req
    BY <1>0, <1>1 DEF CallNode, WireTypes, Outcome
  <2> QED
    BY <1>0, <1>1, <2>2, <2>3 DEF CallNode, WireTypes
<1>2. ASSUME SendInput
      PROVE  WireTypes'
  <2>1. \A n \in 1 .. MaxParts : [kind |-> "input", id |-> typed + 1, parts |-> n] \in Sent
    BY <1>0, <1>2, WireAssumption DEF Sent, SendInput, WireTypes
  <2>2. typed' \in 0 .. MaxInput
    BY <1>0, <1>2, WireAssumption DEF SendInput, WireTypes
  <2> QED
    BY <1>0, <1>2, <2>1, <2>2 DEF SendInput, WireTypes
<1>3. ASSUME WriteEnvelope
      PROVE  WireTypes'
  <2> DEFINE e == Head(outbound)
             block == [i \in 1 .. e.parts |-> Frame(e, i - 1)]
  <2>1. e \in Sent /\ e.parts \in Nat
    BY <1>0, <1>3, SentFields DEF WriteEnvelope, WireTypes
  <2>2. block \in Seq(FrameSet)
    <3>1. \A i \in 1 .. e.parts : Frame(e, i - 1) \in FrameSet
      BY <2>1 DEF Frame, FrameSet
    <3> QED
      BY <2>1, <3>1, IsASeq
  <2>3. DropAll \/ (outbound' = Tail(outbound) /\ wire' = wire \o block /\ UNCHANGED <<up, groups, results>>)
    BY <1>3 DEF WriteEnvelope
  <2> HIDE DEF e, block
  <2>4. CASE DropAll
    BY <1>0, <1>3, <2>4, EmptySeq DEF WriteEnvelope, WireTypes, DropAll
  <2>5. CASE outbound' = Tail(outbound) /\ wire' = wire \o block /\ UNCHANGED <<up, groups, results>>
    BY <1>0, <1>3, <2>2, <2>5 DEF WriteEnvelope, WireTypes
  <2> QED
    BY <2>3, <2>4, <2>5
<1>4. ASSUME TakeResult
      PROVE  WireTypes'
  BY <1>0, <1>4 DEF TakeResult, WireTypes, Outcome
<1>5. ASSUME NEW r \in Req, RequestTimeout(r)
      PROVE  WireTypes'
  BY <1>0, <1>5 DEF RequestTimeout, WireTypes, Outcome
<1>6. ASSUME ReadFrame
      PROVE  WireTypes'
  <2>1. Head(wire) \in FrameSet /\ Tail(wire) \in Seq(FrameSet) /\ Head(wire).e \in Sent
    <3>1. wire \in Seq(FrameSet) /\ wire # <<>>
      BY <1>0, <1>6 DEF ReadFrame, WireTypes
    <3>2. Head(wire) \in FrameSet /\ Tail(wire) \in Seq(FrameSet)
      BY <3>1, HeadTailProperties
    <3> QED
      BY <3>2 DEF FrameSet
  <2>2. /\ InlineKind(Head(wire).e) => Head(wire).e.id \in Nat
        /\ ~InlineKind(Head(wire).e) => Head(wire).e.id \in Req
    BY <2>1, SentFields, WireAssumption
  <2>3. ptyIn' = ptyIn \/ (InlineKind(Head(wire).e) /\ ptyIn' = Append(ptyIn, Head(wire).e.id))
    BY <1>6 DEF ReadFrame
  <2>4. tasks' = tasks \/ (~InlineKind(Head(wire).e) /\ tasks' = tasks \cup {Head(wire).e.id})
    BY <1>6 DEF ReadFrame
  <2>5. ptyIn' \in Seq(Nat) /\ tasks' \subseteq Req
    <3>1. ptyIn' \in Seq(Nat)
      <4>1. ptyIn \in Seq(Nat)
        BY <1>0 DEF WireTypes
      <4>2. ASSUME NEW x \in Nat
            PROVE  Append(ptyIn, x) \in Seq(Nat)
        BY <4>1, AppendProperties
      <4> QED
        BY <2>2, <2>3, <4>1, <4>2
    <3> QED
      BY <1>0, <2>2, <2>4, <3>1 DEF WireTypes
  <2> QED
    BY <1>0, <1>6, <2>1, <2>5 DEF ReadFrame, WireTypes
<1>7. ASSUME NEW r \in Req, FinishTask(r)
      PROVE  WireTypes'
  BY <1>0, <1>7 DEF FinishTask, WireTypes
<1>8. ASSUME LoseConnection
      PROVE  WireTypes'
  BY <1>0, <1>8, EmptySeq DEF LoseConnection, DropAll, WireTypes
<1>9. CASE UNCHANGED wireState
  BY <1>0, <1>9 DEF wireState, WireTypes
<1> QED
  BY <1>1, <1>2, <1>3, <1>4, <1>5, <1>6, <1>7, <1>8, <1>9 DEF WireNext

\* What a step leaves of the order when the connection ends.
LEMMA WireDropped ==
  ASSUME WireTypes, WireOrder, DropAll, UNCHANGED <<ptyIn, typed>>
  PROVE  WireOrder'
<1>1. /\ up' = FALSE /\ wire' = <<>> /\ outbound' = <<>> /\ groups' = {}
      /\ Len(wire') = 0 /\ Len(outbound') = 0
  BY DEF DropAll
<1>2. Whole(wire') /\ Gathered(wire', groups') /\ WireRises(wire')
  BY <1>1 DEF Whole, Gathered, WireRises
<1>3. OutRises(outbound') /\ WireFirst(wire', outbound')
  BY <1>1 DEF OutRises, WireFirst
<1> QED
  BY <1>1, <1>2, <1>3 DEF WireOrder

\* A request joins the queue: no input changes its place.
LEMMA RequestQueued ==
  ASSUME WireTypes, WireOrder, up, NEW r \in Req, NEW n \in 1 .. MaxParts + 1,
         outbound' = Append(outbound, [kind |-> "request", id |-> r, parts |-> n]),
         UNCHANGED <<up, wire, groups, ptyIn, typed>>
  PROVE  WireOrder'
<1> DEFINE e == [kind |-> "request", id |-> r, parts |-> n]
<1>1. e \in Sent /\ ~InlineKind(e)
  BY DEF Sent, InlineKind
<1> HIDE DEF e
<1>2. /\ Len(outbound') = Len(outbound) + 1 /\ outbound'[Len(outbound) + 1] = e
      /\ \A i \in 1 .. Len(outbound) : outbound'[i] = outbound[i]
      /\ Len(outbound) \in Nat
  BY <1>1, AppendProperties DEF WireTypes, e
<1>3. OutRises(outbound') /\ WireFirst(wire, outbound')
  BY <1>1, <1>2 DEF WireOrder, OutRises, WireFirst
<1>4. \A x : InQueue(outbound', x) <=> InQueue(outbound, x)
  BY <1>1, <1>2 DEF InQueue
<1>5. UnderWay(wire, outbound', Len(ptyIn), typed)
  BY <1>4 DEF WireOrder, UnderWay
<1> QED
  BY <1>3, <1>5 DEF WireOrder

\* An input joins the queue behind every input under way.
LEMMA InputQueued ==
  ASSUME WireTypes, WireOrder, SendInput
  PROVE  WireOrder'
<1>0. PICK n \in 1 .. MaxParts :
        outbound' = Append(outbound, [kind |-> "input", id |-> typed + 1, parts |-> n])
  BY DEF SendInput
<1> DEFINE e == [kind |-> "input", id |-> typed + 1, parts |-> n]
<1>1. /\ e \in Sent /\ InlineKind(e) /\ e.id = typed + 1 /\ typed \in Nat
      /\ up /\ typed' = typed + 1 /\ UNCHANGED <<up, wire, groups, ptyIn>>
  BY WireAssumption DEF Sent, InlineKind, SendInput, WireTypes
<1> HIDE DEF e
<1>2. /\ Len(outbound') = Len(outbound) + 1 /\ outbound'[Len(outbound) + 1] = e
      /\ \A i \in 1 .. Len(outbound) : outbound'[i] = outbound[i]
      /\ Len(outbound) \in Nat /\ Len(ptyIn) \in Nat
  BY <1>0, <1>1, AppendProperties, LenProperties DEF WireTypes, e
<1>3. UnderWay(wire, outbound, Len(ptyIn), typed)
  BY <1>1 DEF WireOrder
<1>4. \A i \in 1 .. Len(outbound) : InlineKind(outbound[i]) =>
        outbound[i].id \in Nat /\ outbound[i].id <= typed
  <2>1. \A i \in 1 .. Len(outbound) : outbound[i] \in Sent
    BY ElementOfSeq DEF WireTypes
  <2>2. \A i \in 1 .. Len(outbound) : InlineKind(outbound[i]) => outbound[i].id \in Nat
    BY <2>1, SentFields, WireAssumption
  <2> QED
    BY <1>3, <2>2 DEF UnderWay, InQueue
<1>5. \A i \in 1 .. Len(wire) : InlineKind(wire[i].e) =>
        wire[i].e.id \in Nat /\ wire[i].e.id <= typed
  <2>1. \A i \in 1 .. Len(wire) : wire[i].e \in Sent
    <3>1. \A i \in 1 .. Len(wire) : wire[i] \in FrameSet
      BY ElementOfSeq DEF WireTypes
    <3> QED
      BY <3>1 DEF FrameSet
  <2>2. \A i \in 1 .. Len(wire) : InlineKind(wire[i].e) => wire[i].e.id \in Nat
    BY <2>1, SentFields, WireAssumption
  <2> QED
    BY <1>3, <2>2 DEF UnderWay, OnWire
<1>6. OutRises(outbound')
  <2> SUFFICES ASSUME NEW i \in 1 .. Len(outbound) + 1, NEW j \in 1 .. Len(outbound) + 1, i < j,
                      InlineKind(outbound'[i]), InlineKind(outbound'[j])
               PROVE  outbound'[i].id < outbound'[j].id
    BY <1>2 DEF OutRises
  <2>1. i \in 1 .. Len(outbound) /\ outbound'[i] = outbound[i]
    BY <1>2
  <2>2. CASE j \in 1 .. Len(outbound)
    <3>1. outbound'[j] = outbound[j] /\ OutRises(outbound)
      BY <1>2, <2>2 DEF WireOrder
    <3> QED
      BY <2>1, <2>2, <3>1 DEF OutRises
  <2>3. CASE j = Len(outbound) + 1
    BY <1>1, <1>2, <1>4, <2>1, <2>3
  <2> QED
    BY <1>2, <2>2, <2>3
<1>7. WireFirst(wire, outbound')
  <2>0. WireFirst(wire, outbound)
    BY DEF WireOrder
  <2> SUFFICES ASSUME NEW i \in 1 .. Len(wire), NEW j \in 1 .. Len(outbound) + 1,
                      InlineKind(wire[i].e), InlineKind(outbound'[j])
               PROVE  wire[i].e.id < outbound'[j].id
    BY <1>1, <1>2 DEF WireFirst
  <2>1. CASE j \in 1 .. Len(outbound)
    BY <1>2, <2>0, <2>1 DEF WireFirst
  <2>2. CASE j = Len(outbound) + 1
    BY <1>1, <1>2, <1>5, <2>2
  <2> QED
    BY <1>2, <2>1, <2>2
<1>8. \A x \in Nat : InQueue(outbound', x) <=> InQueue(outbound, x) \/ x = typed + 1
  BY <1>1, <1>2 DEF InQueue
<1>9. UnderWay(wire, outbound', Len(ptyIn), typed + 1)
  <2>1. \A x \in Nat : OnWire(wire, x) \/ InQueue(outbound, x) <=> Len(ptyIn) < x /\ x <= typed
    BY <1>3 DEF UnderWay
  <2>2. Len(ptyIn) <= typed
    BY DEF WireOrder
  <2> QED
    BY <1>1, <1>2, <1>8, <2>1, <2>2 DEF UnderWay
<1> QED
  BY <1>1, <1>2, <1>6, <1>7, <1>9 DEF WireOrder

\* A sequence of frames continued by the fragments of an envelope, and a queue
\* without its first envelope.
Continued(w, v, e) ==
  /\ Len(v) = Len(w) + e.parts
  /\ \A i \in 1 .. Len(w) : v[i] = w[i]
  /\ \A i \in 1 .. Len(v) : i > Len(w) => v[i].e = e /\ v[i].index = i - Len(w) - 1
Shifted(o, q) ==
  /\ Len(q) = Len(o) - 1
  /\ \A i \in 1 .. Len(q) : q[i] = o[i + 1]

\* Writing an envelope continues the wire with its fragments.
LEMMA FragmentsFollow ==
  ASSUME NEW w \in Seq(FrameSet), NEW e \in Sent
  PROVE  Continued(w, w \o [i \in 1 .. e.parts |-> Frame(e, i - 1)], e)
<1> DEFINE n == Len(w)
           m == e.parts
           block == [i \in 1 .. m |-> Frame(e, i - 1)]
           v == w \o block
<1>1. n \in Nat /\ m \in Nat
  BY SentFields, LenProperties
<1>2. block \in Seq(FrameSet) /\ Len(block) = m
  <2>1. \A i \in 1 .. m : Frame(e, i - 1) \in FrameSet
    BY <1>1 DEF Frame, FrameSet
  <2>2. block \in Seq(FrameSet)
    BY <1>1, <2>1, IsASeq
  <2>3. DOMAIN block = 1 .. m
    OBVIOUS
  <2> HIDE DEF block, m
  <2> QED
    BY <1>1, <2>2, <2>3, LenProperties
<1>3. \A i \in 1 .. m : block[i].e = e /\ block[i].index = i - 1
  BY DEF Frame
<1> HIDE DEF block, m
<1>4. /\ Len(v) = n + m
      /\ \A i \in 1 .. n + m : v[i] = IF i <= n THEN w[i] ELSE block[i - n]
  BY <1>1, <1>2, ConcatProperties
<1> HIDE DEF n, v
<1>5. ASSUME NEW i \in 1 .. n + m, i > n
      PROVE  v[i].e = e /\ v[i].index = i - n - 1
  <2>1. i - n \in 1 .. m /\ v[i] = block[i - n]
    BY <1>1, <1>4, <1>5
  <2> QED
    BY <1>3, <2>1
<1>6. \A i \in 1 .. n : v[i] = w[i]
  BY <1>1, <1>4
<1>7. Continued(w, v, e)
  BY <1>4, <1>5, <1>6 DEF Continued, n, m
<1> QED
  BY <1>7 DEF v, block, m

\* Reading or writing the first of a sequence shifts it.
LEMMA TailShifts ==
  ASSUME NEW S, NEW o \in Seq(S), o # <<>>
  PROVE  Shifted(o, Tail(o)) /\ Len(o) \in Nat /\ Len(o) >= 1 /\ Head(o) = o[1]
BY HeadTailProperties, LenProperties, EmptySeq DEF Shifted

\* An envelope is written: its fragments follow all the frames on the wire.
LEMMA EnvelopeWritten ==
  ASSUME WireTypes, WireOrder, up, Len(outbound) >= 1,
         Continued(wire, wire', outbound[1]), Shifted(outbound, outbound'),
         UNCHANGED <<up, groups, ptyIn, typed>>
  PROVE  WireOrder'
<1> DEFINE e == outbound[1]
           n == Len(wire)
<1>1. /\ n \in Nat /\ e \in Sent /\ Len(outbound) \in Nat /\ Len(outbound) >= 1
      /\ e.parts \in Nat /\ e.parts >= 1
  <2>1. Len(wire) \in Nat /\ Len(outbound) \in Nat /\ outbound[1] \in Sent
    BY LenProperties, ElementOfSeq DEF WireTypes
  <2> QED
    BY <2>1, SentFields
<1>3. /\ Len(wire') = n + e.parts
      /\ \A i \in 1 .. n : wire'[i] = wire[i]
  BY DEF Continued
<1>4. /\ Len(outbound') = Len(outbound) - 1
      /\ \A i \in 1 .. Len(outbound) - 1 : outbound'[i] = outbound[i + 1]
  BY DEF Shifted
<1>5. \A i \in 1 .. n + e.parts : i > n => wire'[i].e = e /\ wire'[i].index = i - n - 1
  BY DEF Continued
<1> HIDE DEF e, n
<1>6. \A i \in 1 .. n : wire[i] \in FrameSet /\ wire[i].e \in Sent /\ wire[i].index \in Nat
                        /\ wire[i].e.parts \in Nat
  <2>1. \A i \in 1 .. n : wire[i] \in FrameSet
    BY ElementOfSeq DEF n, WireTypes
  <2> QED
    BY <2>1, SentFields DEF FrameSet
<1>7. Whole(wire')
  <2> SUFFICES ASSUME NEW i \in 1 .. n + e.parts
               PROVE  /\ wire'[i].index < wire'[i].e.parts
                      /\ wire'[i].index + 1 < wire'[i].e.parts =>
                           /\ i < n + e.parts /\ wire'[i + 1].e = wire'[i].e
                           /\ wire'[i + 1].index = wire'[i].index + 1
                      /\ wire'[i].index + 1 = wire'[i].e.parts /\ i < n + e.parts =>
                           wire'[i + 1].index = 0
    BY <1>3 DEF Whole
  <2>1. CASE i > n
    <3>1. wire'[i].e = e /\ wire'[i].index = i - n - 1
      BY <1>5, <2>1, <1>1
    <3>2. i + 1 <= n + e.parts => wire'[i + 1].e = e /\ wire'[i + 1].index = i - n
      BY <1>5, <2>1, <1>1
    <3> QED
      BY <1>1, <2>1, <3>1, <3>2
  <2>2. CASE i < n
    <3>0. i \in 1 .. n /\ i + 1 \in 1 .. n
      BY <2>2, <1>1
    <3>1. wire'[i] = wire[i] /\ wire'[i + 1] = wire[i + 1]
      BY <1>3, <3>0
    <3>2. Whole(wire)
      BY DEF WireOrder
    <3> QED
      BY <1>1, <1>6, <2>2, <3>1, <3>2 DEF Whole, n
  <2>3. CASE i = n
    <3>1. wire'[i] = wire[i] /\ wire'[i + 1].e = e /\ wire'[i + 1].index = 0
      <4>1. i \in 1 .. n /\ i + 1 \in 1 .. n + e.parts /\ i + 1 > n /\ (i + 1) - n - 1 = 0
        BY <2>3, <1>1
      <4>2. wire'[i + 1].e = e /\ wire'[i + 1].index = (i + 1) - n - 1
        BY <1>5, <4>1
      <4> QED
        BY <1>3, <4>1, <4>2
    <3>2. Whole(wire)
      BY DEF WireOrder
    <3>3. wire[i].index < wire[i].e.parts /\ ~(wire[i].index + 1 < wire[i].e.parts)
      BY <1>1, <1>6, <2>3, <3>2 DEF Whole, n
    <3> QED
      BY <1>1, <1>6, <2>3, <3>1, <3>3
  <2> QED
    BY <1>1, <2>1, <2>2, <2>3
<1>8. Gathered(wire', groups')
  <2>1. Gathered(wire, groups) /\ groups' = groups /\ wire' # <<>>
    BY <1>1, <1>3 DEF WireOrder
  <2>2. CASE n = 0
    <3>1. wire = <<>> /\ wire'[1].index = 0
      BY <1>1, <1>5, <2>2 DEF n
    <3> QED
      BY <2>1, <3>1 DEF Gathered
  <2>3. CASE n # 0
    <3>1. wire # <<>> /\ wire'[1] = wire[1]
      BY <1>1, <1>3, <2>3 DEF n
    <3> QED
      BY <2>1, <3>1 DEF Gathered
  <2> QED
    BY <2>2, <2>3
<1>9. \A j \in 1 .. Len(outbound) - 1 : outbound'[j] = outbound[j + 1] /\ outbound'[j] \in Sent
  <2>1. \A j \in 1 .. Len(outbound) : outbound[j] \in Sent
    BY ElementOfSeq DEF WireTypes
  <2> QED
    BY <1>1, <1>4, <2>1
<1>10. OutRises(outbound')
  <2>1. OutRises(outbound)
    BY DEF WireOrder
  <2> QED
    <3> SUFFICES ASSUME NEW i \in 1 .. Len(outbound) - 1, NEW j \in 1 .. Len(outbound) - 1, i < j,
                        InlineKind(outbound'[i]), InlineKind(outbound'[j])
                 PROVE  outbound'[i].id < outbound'[j].id
      BY <1>4 DEF OutRises
    <3>1. i + 1 \in 1 .. Len(outbound) /\ j + 1 \in 1 .. Len(outbound) /\ i + 1 < j + 1
      BY <1>1
    <3>2. outbound'[i] = outbound[i + 1] /\ outbound'[j] = outbound[j + 1]
      BY <1>4
    <3> QED
      BY <2>1, <3>1, <3>2 DEF OutRises
<1>11. WireFirst(wire', outbound')
  <2> SUFFICES ASSUME NEW i \in 1 .. n + e.parts, NEW j \in 1 .. Len(outbound) - 1,
                      InlineKind(wire'[i].e), InlineKind(outbound'[j])
               PROVE  wire'[i].e.id < outbound'[j].id
    BY <1>3, <1>4 DEF WireFirst
  <2>1. OutRises(outbound) /\ WireFirst(wire, outbound)
    BY DEF WireOrder
  <2>2. j + 1 \in 1 .. Len(outbound) /\ outbound'[j] = outbound[j + 1] /\ 1 \in 1 .. Len(outbound)
        /\ 1 < j + 1
    BY <1>1, <1>9
  <2>3. CASE i \in 1 .. n
    BY <1>3, <2>1, <2>2, <2>3 DEF WireFirst, n
  <2>4. CASE i > n
    BY <1>1, <1>5, <2>1, <2>2, <2>4 DEF OutRises, e
  <2> QED
    BY <1>1, <2>3, <2>4
<1>12. WireRises(wire')
  <2> SUFFICES ASSUME NEW i \in 1 .. n + e.parts, NEW j \in 1 .. n + e.parts,
                      i < j, InlineKind(wire'[i].e), InlineKind(wire'[j].e)
               PROVE  \/ wire'[i].e.id < wire'[j].e.id
                      \/ wire'[i].e = wire'[j].e /\ wire'[j].index = wire'[i].index + (j - i)
    BY <1>3 DEF WireRises
  <2>1. WireRises(wire) /\ WireFirst(wire, outbound)
    BY DEF WireOrder
  <2>2. CASE j \in 1 .. n
    <3>1. i \in 1 .. n /\ wire'[i] = wire[i] /\ wire'[j] = wire[j]
      BY <1>1, <1>3, <2>2
    <3> QED
      BY <2>1, <2>2, <3>1 DEF WireRises, n
  <2>3. CASE i \in 1 .. n /\ j > n
    <3>1. wire'[i] = wire[i] /\ wire'[j].e = outbound[1]
      BY <1>1, <1>3, <1>5, <2>3 DEF e
    <3> QED
      BY <1>1, <2>1, <2>3, <3>1 DEF WireFirst, n
  <2>4. CASE i > n
    BY <1>1, <1>5, <2>4
  <2> QED
    BY <1>1, <2>2, <2>3, <2>4
<1>13. ASSUME NEW x \in Nat
       PROVE  OnWire(wire', x) \/ InQueue(outbound', x) <=> OnWire(wire, x) \/ InQueue(outbound, x)
  <2>1. OnWire(wire', x) <=> OnWire(wire, x) \/ (InlineKind(e) /\ e.id = x)
    <3>1. ASSUME OnWire(wire', x)
          PROVE  OnWire(wire, x) \/ (InlineKind(e) /\ e.id = x)
      <4>1. PICK i \in 1 .. n + e.parts : InlineKind(wire'[i].e) /\ wire'[i].e.id = x
        BY <1>3, <3>1 DEF OnWire
      <4>2. CASE i \in 1 .. n
        <5>1. wire'[i] = wire[i]
          BY <1>3, <4>2
        <5> QED
          BY <4>1, <4>2, <5>1 DEF OnWire, n
      <4>3. CASE i > n
        BY <1>5, <4>1, <4>3
      <4> QED
        BY <1>1, <4>2, <4>3
    <3>2. ASSUME OnWire(wire, x)
          PROVE  OnWire(wire', x)
      <4>1. PICK i \in 1 .. n : InlineKind(wire[i].e) /\ wire[i].e.id = x
        BY <3>2 DEF OnWire, n
      <4>2. i \in 1 .. n + e.parts /\ wire'[i] = wire[i]
        BY <1>1, <1>3
      <4> QED
        BY <1>3, <4>1, <4>2 DEF OnWire
    <3>3. ASSUME InlineKind(e), e.id = x
          PROVE  OnWire(wire', x)
      <4>1. n + 1 \in 1 .. n + e.parts /\ wire'[n + 1].e = e
        BY <1>1, <1>5
      <4> QED
        BY <1>3, <3>3, <4>1 DEF OnWire
    <3> QED
      BY <3>1, <3>2, <3>3
  <2>2. InQueue(outbound, x) <=> InQueue(outbound', x) \/ (InlineKind(e) /\ e.id = x)
    <3>1. ASSUME InQueue(outbound, x)
          PROVE  InQueue(outbound', x) \/ (InlineKind(e) /\ e.id = x)
      <4>1. PICK i \in 1 .. Len(outbound) : InlineKind(outbound[i]) /\ outbound[i].id = x
        BY <3>1 DEF InQueue
      <4>2. CASE i > 1
        <5>1. i - 1 \in 1 .. Len(outbound') /\ outbound'[i - 1] = outbound[(i - 1) + 1]
          BY <1>1, <1>4, <4>2
        <5> QED
          BY <4>1, <5>1 DEF InQueue
      <4> QED
        BY <1>1, <4>1, <4>2 DEF e
    <3> QED
      BY <1>1, <1>4, <3>1 DEF InQueue, e
  <2> QED
    BY <2>1, <2>2
<1>14. UnderWay(wire', outbound', Len(ptyIn), typed)
  BY <1>13 DEF WireOrder, UnderWay
<1> QED
  BY <1>7, <1>8, <1>10, <1>11, <1>12, <1>14 DEF WireOrder

\* What the assembler makes of the next frame: its message up to that frame.
LEMMA PushGathers ==
  ASSUME NEW f \in FrameSet, f.index < f.e.parts,
         f.index = 0 => groups = {},
         f.index # 0 => groups = {[e |-> f.e, have |-> 0 .. f.index - 1]}
  PROVE  /\ Push(f) = [e |-> f.e, have |-> 0 .. f.index]
         /\ {h \in groups : h.e # f.e} = {}
         /\ Complete(Push(f)) <=> f.index + 1 = f.e.parts
<1> DEFINE k == f.index
<1>1. k \in Nat /\ f.e \in Sent /\ f.e.parts \in Nat /\ k < f.e.parts
  BY SentFields DEF FrameSet
<1>2. (UNION Held(f)) \cup {k} = 0 .. k
  <2>1. CASE k = 0
    <3>1. groups = {}
      BY <2>1
    <3>2. Held(f) = {}
      BY <3>1 DEF Held
    <3>3. UNION Held(f) = {}
      BY <3>2
    <3>4. 0 .. 0 = {0}
      OBVIOUS
    <3> QED
      BY <2>1, <3>3, <3>4
  <2>2. CASE k # 0
    <3>0. groups = {[e |-> f.e, have |-> 0 .. k - 1]}
      BY <2>2
    <3>1. Held(f) = {0 .. k - 1}
      <4>1. {h \in groups : h.e = f.e} = groups
        BY <3>0
      <4>2. {g.have : g \in groups} = {0 .. k - 1}
        BY <3>0
      <4> QED
        BY <4>1, <4>2 DEF Held
    <3>2. (0 .. k - 1) \cup {k} = 0 .. k
      BY <1>1
    <3>3. UNION Held(f) = 0 .. k - 1
      BY <3>1
    <3> QED
      BY <3>2, <3>3
  <2> QED
    BY <2>1, <2>2
<1>3. Push(f) = [e |-> f.e, have |-> 0 .. k]
  BY <1>2 DEF Push
<1>4. {h \in groups : h.e # f.e} = {}
  BY <1>1
<1>5. Complete(Push(f)) <=> k + 1 = f.e.parts
  <2>1. Complete(Push(f)) <=> 0 .. k = 0 .. f.e.parts - 1
    BY <1>3 DEF Complete
  <2>2. 0 .. k = 0 .. f.e.parts - 1 => k + 1 = f.e.parts
    <3> SUFFICES ASSUME 0 .. k = 0 .. f.e.parts - 1
                 PROVE  k + 1 = f.e.parts
      OBVIOUS
    <3>1. f.e.parts - 1 \in 0 .. f.e.parts - 1
      BY <1>1
    <3>2. f.e.parts - 1 \in 0 .. k
      BY <3>1
    <3> QED
      BY <1>1, <3>2
  <2>3. k + 1 = f.e.parts => 0 .. k = 0 .. f.e.parts - 1
    BY <1>1
  <2> QED
    BY <2>1, <2>2, <2>3
<1> QED
  BY <1>3, <1>4, <1>5

\* The frames behind the first one keep their order.
LEMMA RestKeepsOrder ==
  ASSUME WireTypes, WireOrder, Len(wire) >= 1, Shifted(wire, wire')
  PROVE  /\ Whole(wire') /\ WireRises(wire') /\ WireFirst(wire', outbound)
         /\ wire[1] \in FrameSet /\ wire[1].index < wire[1].e.parts
<1> DEFINE n == Len(wire) - 1
<1>1. n \in Nat /\ Len(wire) = n + 1 /\ Len(wire') = n
  BY LenProperties DEF WireTypes, Shifted
<1>2. \A i \in 1 .. n : i + 1 \in 1 .. Len(wire) /\ wire'[i] = wire[i + 1]
  BY <1>1 DEF Shifted
<1>3. \A i \in 1 .. Len(wire) : wire[i] \in FrameSet
  BY ElementOfSeq DEF WireTypes
<1> HIDE DEF n
<1>4. Whole(wire) /\ WireRises(wire) /\ WireFirst(wire, outbound)
  BY DEF WireOrder
<1>5. wire[1] \in FrameSet /\ wire[1].index < wire[1].e.parts
  BY <1>1, <1>3, <1>4 DEF Whole
<1>6. Whole(wire')
  <2> SUFFICES ASSUME NEW i \in 1 .. n
               PROVE  /\ wire'[i].index < wire'[i].e.parts
                      /\ wire'[i].index + 1 < wire'[i].e.parts =>
                           /\ i < n /\ wire'[i + 1].e = wire'[i].e
                           /\ wire'[i + 1].index = wire'[i].index + 1
                      /\ wire'[i].index + 1 = wire'[i].e.parts /\ i < n =>
                           wire'[i + 1].index = 0
    BY <1>1 DEF Whole
  <2>1. i + 1 \in 1 .. Len(wire) /\ wire'[i] = wire[i + 1]
    BY <1>2
  <2>2. i < n => i + 1 \in 1 .. n /\ wire'[i + 1] = wire[(i + 1) + 1]
    BY <1>1, <1>2
  <2>3. i + 1 < Len(wire) <=> i < n
    BY <1>1
  <2> QED
    BY <1>4, <2>1, <2>2, <2>3 DEF Whole
<1>7. WireRises(wire')
  <2> SUFFICES ASSUME NEW i \in 1 .. n, NEW j \in 1 .. n, i < j,
                      InlineKind(wire'[i].e), InlineKind(wire'[j].e)
               PROVE  \/ wire'[i].e.id < wire'[j].e.id
                      \/ wire'[i].e = wire'[j].e /\ wire'[j].index = wire'[i].index + (j - i)
    BY <1>1 DEF WireRises
  <2>1. /\ i + 1 \in 1 .. Len(wire) /\ wire'[i] = wire[i + 1]
        /\ j + 1 \in 1 .. Len(wire) /\ wire'[j] = wire[j + 1]
    BY <1>2
  <2>2. i + 1 < j + 1 /\ (j + 1) - (i + 1) = j - i
    OBVIOUS
  <2>3. \/ wire[i + 1].e.id < wire[j + 1].e.id
        \/ wire[i + 1].e = wire[j + 1].e
           /\ wire[j + 1].index = wire[i + 1].index + ((j + 1) - (i + 1))
    BY <1>4, <2>1, <2>2 DEF WireRises
  <2> QED
    BY <2>1, <2>2, <2>3
<1>8. WireFirst(wire', outbound)
  BY <1>1, <1>2, <1>4 DEF WireFirst
<1> QED
  BY <1>5, <1>6, <1>7, <1>8

\* The first frame, if it is of an input, is of the next one to be received;
\* what else is under way comes later, or is of the same input.
LEMMA NextInputFirst ==
  ASSUME WireTypes, WireOrder, up, Len(wire) >= 1, InlineKind(wire[1].e)
  PROVE  wire[1].e.id = Len(ptyIn) + 1
<1> DEFINE id == wire[1].e.id
           n == Len(ptyIn)
<1>1. n \in Nat /\ Len(wire) \in Nat /\ typed \in Nat
  BY LenProperties, WireAssumption DEF WireTypes
<1>2. \A i \in 1 .. Len(wire) : wire[i].e \in Sent
  <2>1. \A i \in 1 .. Len(wire) : wire[i] \in FrameSet
    BY ElementOfSeq DEF WireTypes
  <2> QED
    BY <2>1 DEF FrameSet
<1>3. \A i \in 1 .. Len(wire) : InlineKind(wire[i].e) => wire[i].e.id \in Nat
  BY <1>2, SentFields, WireAssumption
<1>4. \A j \in 1 .. Len(outbound) : InlineKind(outbound[j]) => outbound[j].id \in Nat
  <2>1. \A j \in 1 .. Len(outbound) : outbound[j] \in Sent
    BY ElementOfSeq DEF WireTypes
  <2> QED
    BY <2>1, SentFields, WireAssumption
<1>5. 1 \in 1 .. Len(wire) /\ id \in Nat
  BY <1>1, <1>3
<1>6. UnderWay(wire, outbound, n, typed) /\ WireRises(wire) /\ WireFirst(wire, outbound)
  BY DEF WireOrder
<1>7. n < id /\ id <= typed
  BY <1>5, <1>6 DEF UnderWay, OnWire
<1>8. OnWire(wire, n + 1) \/ InQueue(outbound, n + 1)
  BY <1>1, <1>5, <1>6, <1>7 DEF UnderWay
<1> HIDE DEF n
<1>9. ASSUME OnWire(wire, n + 1)
      PROVE  id <= n + 1
  <2>1. PICK j \in 1 .. Len(wire) : InlineKind(wire[j].e) /\ wire[j].e.id = n + 1
    BY <1>9 DEF OnWire
  <2>2. CASE j = 1
    BY <1>1, <2>1, <2>2
  <2>3. CASE 1 < j
    <3>1. id < wire[j].e.id \/ wire[1].e = wire[j].e
      BY <1>5, <1>6, <2>1, <2>3 DEF WireRises
    <3> QED
      BY <1>1, <1>5, <2>1, <3>1
  <2> QED
    BY <2>2, <2>3
<1>10. ASSUME InQueue(outbound, n + 1)
       PROVE  id <= n + 1
  <2>1. PICK j \in 1 .. Len(outbound) : InlineKind(outbound[j]) /\ outbound[j].id = n + 1
    BY <1>10 DEF InQueue
  <2>2. id < outbound[j].id
    BY <1>5, <1>6, <2>1 DEF WireFirst
  <2> QED
    BY <1>1, <1>5, <2>1, <2>2
<1>11. id <= n + 1
  BY <1>8, <1>9, <1>10
<1> HIDE DEF id
<1>12. id = n + 1
  BY <1>1, <1>5, <1>7, <1>11
<1> QED
  BY <1>12 DEF id, n

\* A frame is read.  Its message is complete, and then nothing is held, or it
\* goes on with the next frame.
LEMMA FrameRead ==
  ASSUME WireTypes, WireOrder, ReadFrame
  PROVE  WireOrder'
<1> DEFINE f == wire[1]
<1>0. /\ Shifted(wire, wire') /\ Len(wire) \in Nat /\ Len(wire) >= 1 /\ Head(wire) = f
      /\ up /\ UNCHANGED <<up, outbound, typed>>
  BY TailShifts DEF WireTypes, ReadFrame
<1>1. /\ Whole(wire') /\ WireRises(wire') /\ WireFirst(wire', outbound)
      /\ f \in FrameSet /\ f.index < f.e.parts
  BY <1>0, RestKeepsOrder
<1>2. f.index \in Nat /\ f.e.parts \in Nat
  BY <1>1, SentFields DEF FrameSet
<1>3. wire # <<>> /\ Gathered(wire, groups) /\ Whole(wire)
  BY DEF WireOrder, ReadFrame
<1>4. /\ Push(f) = [e |-> f.e, have |-> 0 .. f.index]
      /\ {h \in groups : h.e # f.e} = {}
      /\ Complete(Push(f)) <=> f.index + 1 = f.e.parts
  BY <1>1, <1>3, PushGathers DEF Gathered
<1>5. /\ ~Complete(Push(f)) => groups' = {Push(f)} /\ ptyIn' = ptyIn
      /\ Complete(Push(f)) => groups' = {}
      /\ Complete(Push(f)) /\ InlineKind(f.e) => ptyIn' = Append(ptyIn, f.e.id)
      /\ ~InlineKind(f.e) => ptyIn' = ptyIn
  BY <1>0, <1>4 DEF ReadFrame
<1>6. /\ Len(wire') = Len(wire) - 1
      /\ \A i \in 1 .. Len(wire') : wire'[i] = wire[i + 1] /\ i + 1 \in 1 .. Len(wire)
  BY <1>0 DEF Shifted
<1>7. 1 \in 1 .. Len(wire)
  BY <1>0
<1> HIDE DEF f
<1>8. Gathered(wire', groups')
  <2>1. CASE f.index + 1 < f.e.parts
    <3>1. 1 < Len(wire) /\ wire[1 + 1].e = f.e /\ wire[1 + 1].index = f.index + 1
      BY <1>3, <1>7, <2>1 DEF Whole, f
    <3>2. wire'[1].e = f.e /\ wire'[1].index = f.index + 1 /\ wire' # <<>>
      <4>1. 1 \in 1 .. Len(wire')
        BY <1>0, <1>6, <3>1
      <4>2. wire'[1] = wire[1 + 1] /\ Len(wire') # 0
        BY <1>6, <4>1
      <4> QED
        BY <3>1, <4>2, EmptySeq
    <3>3. groups' = {[e |-> f.e, have |-> 0 .. f.index]}
      BY <1>2, <1>4, <1>5, <2>1
    <3>4. wire'[1].index - 1 = f.index /\ wire'[1].index # 0
      BY <1>2, <3>2
    <3> QED
      BY <3>2, <3>3, <3>4 DEF Gathered
  <2>2. CASE f.index + 1 = f.e.parts
    <3>1. groups' = {}
      BY <1>4, <1>5, <2>2
    <3>2. ASSUME wire' # <<>>
          PROVE  wire'[1].index = 0
      <4>1. Len(wire') >= 1
        <5>1. wire' \in Seq(FrameSet)
          BY HeadTailProperties DEF WireTypes, ReadFrame
        <5> QED
          BY <3>2, <5>1, EmptySeq
      <4>2. 1 \in 1 .. Len(wire') /\ 1 < Len(wire)
        BY <1>0, <1>6, <4>1
      <4>3. wire'[1] = wire[1 + 1]
        BY <1>6, <4>2
      <4> QED
        BY <1>3, <1>7, <2>2, <4>2, <4>3 DEF Whole, f
    <3> QED
      BY <3>1, <3>2 DEF Gathered
  <2> QED
    BY <1>1, <1>2, <2>1, <2>2
<1>9. UnderWay(wire, outbound, Len(ptyIn), typed)
  BY <1>0 DEF WireOrder
<1>10. \A x \in Nat : OnWire(wire', x) => OnWire(wire, x)
  BY <1>6 DEF OnWire
<1>11. ASSUME ~Complete(Push(f)) \/ ~InlineKind(f.e)
       PROVE  ptyIn' = ptyIn /\ UnderWay(wire', outbound, Len(ptyIn), typed)
  <2>1. ptyIn' = ptyIn
    BY <1>5, <1>11
  <2>2. ASSUME NEW x \in Nat, OnWire(wire, x)
        PROVE  OnWire(wire', x)
    <3>1. PICK i \in 1 .. Len(wire) : InlineKind(wire[i].e) /\ wire[i].e.id = x
      BY <2>2 DEF OnWire
    <3>2. CASE i > 1
      <4>1. i - 1 \in 1 .. Len(wire') /\ (i - 1) + 1 = i
        BY <1>0, <1>6, <3>2
      <4>2. wire'[i - 1] = wire[i]
        BY <1>6, <4>1
      <4> QED
        BY <3>1, <4>1, <4>2 DEF OnWire
    <3>3. CASE i = 1
      <4>1. f.index + 1 < f.e.parts
        BY <1>1, <1>2, <1>4, <1>11, <3>1, <3>3 DEF f
      <4>2. 1 < Len(wire) /\ wire[1 + 1].e = f.e
        BY <1>3, <1>7, <4>1 DEF Whole, f
      <4>3. 1 \in 1 .. Len(wire')
        BY <1>0, <1>6, <4>2
      <4>4. wire'[1].e = wire[1].e
        BY <1>6, <4>2, <4>3 DEF f
      <4> QED
        BY <3>1, <3>3, <4>3, <4>4 DEF OnWire
    <3> QED
      BY <3>2, <3>3
  <2> QED
    BY <1>9, <1>10, <2>1, <2>2 DEF UnderWay
<1>12. ASSUME Complete(Push(f)), InlineKind(f.e)
       PROVE  /\ UnderWay(wire', outbound, Len(ptyIn'), typed)
              /\ Len(ptyIn') <= typed /\ \A i \in 1 .. Len(ptyIn') : ptyIn'[i] = i
  <2> DEFINE n == Len(ptyIn)
  <2>1. f.e.id = n + 1 /\ n \in Nat /\ typed \in Nat /\ ptyIn \in Seq(Nat)
    BY <1>0, <1>12, NextInputFirst, LenProperties, WireAssumption DEF WireTypes, f
  <2>2. /\ ptyIn' = Append(ptyIn, n + 1) /\ Len(ptyIn') = n + 1 /\ ptyIn'[n + 1] = n + 1
        /\ \A i \in 1 .. n : ptyIn'[i] = ptyIn[i]
    <3>1. ptyIn' = Append(ptyIn, n + 1)
      BY <1>5, <1>12, <2>1
    <3> QED
      BY <2>1, <3>1, AppendProperties
  <2>3. \A i \in 1 .. n : ptyIn[i] = i
    BY DEF WireOrder
  <2>4. OnWire(wire, n + 1)
    BY <1>7, <1>12, <2>1 DEF OnWire, f
  <2> HIDE DEF n
  <2>5. n + 1 <= typed
    BY <1>9, <2>1, <2>4 DEF UnderWay, n
  <2>6. \A i \in 1 .. n + 1 : ptyIn'[i] = i
    BY <2>1, <2>2, <2>3
  <2>7. ~OnWire(wire', n + 1)
    <3> SUFFICES ASSUME NEW i \in 1 .. Len(wire'), InlineKind(wire'[i].e), wire'[i].e.id = n + 1
                 PROVE  FALSE
      BY DEF OnWire
    <3>1. wire'[i] = wire[i + 1] /\ i + 1 \in 1 .. Len(wire) /\ 1 < i + 1
      BY <1>6
    <3>2. WireRises(wire)
      BY DEF WireOrder
    <3>3. \/ f.e.id < wire[i + 1].e.id
          \/ f.e = wire[i + 1].e /\ wire[i + 1].index = f.index + ((i + 1) - 1)
      BY <1>7, <1>12, <3>1, <3>2 DEF WireRises, f
    <3>4. wire[i + 1].index < wire[i + 1].e.parts
      BY <1>3, <3>1 DEF Whole
    <3>5. f.index + 1 = f.e.parts
      BY <1>4, <1>12
    <3>6. f.e.id = n + 1 /\ f.e.id \in Nat
      BY <1>2, <2>1
    <3>7. f.e = wire[i + 1].e /\ wire[i + 1].index = f.index + i
      BY <3>1, <3>3, <3>6
    <3> QED
      BY <1>2, <3>4, <3>5, <3>7
  <2>8. ~InQueue(outbound, n + 1)
    <3> SUFFICES ASSUME NEW i \in 1 .. Len(outbound), InlineKind(outbound[i]), outbound[i].id = n + 1
                 PROVE  FALSE
      BY DEF InQueue
    <3>1. f.e.id < outbound[i].id
      BY <1>7, <1>12 DEF WireOrder, WireFirst, f
    <3> QED
      BY <2>1, <3>1
  <2>9. ASSUME NEW x \in Nat, OnWire(wire, x), x # n + 1
        PROVE  OnWire(wire', x)
    <3>1. PICK i \in 1 .. Len(wire) : InlineKind(wire[i].e) /\ wire[i].e.id = x
      BY <2>9 DEF OnWire
    <3>2. i > 1
      BY <2>1, <2>9, <3>1 DEF f
    <3>3. i - 1 \in 1 .. Len(wire') /\ (i - 1) + 1 = i
      BY <1>0, <1>6, <3>2
    <3>4. wire'[i - 1] = wire[i]
      BY <1>6, <3>3
    <3> QED
      BY <3>1, <3>3, <3>4 DEF OnWire
  <2>10. ASSUME NEW x \in Nat
         PROVE  OnWire(wire', x) \/ InQueue(outbound, x) <=> n + 1 < x /\ x <= typed
    <3>1. OnWire(wire, x) \/ InQueue(outbound, x) <=> n < x /\ x <= typed
      BY <1>9 DEF UnderWay, n
    <3> QED
      BY <1>10, <2>1, <2>7, <2>8, <2>9, <3>1
  <2> QED
    BY <2>2, <2>5, <2>6, <2>10 DEF UnderWay
<1>13. UnderWay(wire', outbound, Len(ptyIn'), typed) /\ Len(ptyIn') <= typed
       /\ \A i \in 1 .. Len(ptyIn') : ptyIn'[i] = i
  <2>1. Len(ptyIn) <= typed /\ \A i \in 1 .. Len(ptyIn) : ptyIn[i] = i
    BY DEF WireOrder
  <2> QED
    BY <1>11, <1>12, <2>1
<1>14. OutRises(outbound)
  BY DEF WireOrder
<1> QED
  BY <1>0, <1>1, <1>8, <1>13, <1>14 DEF WireOrder

\* Every step of the wire keeps the order of what is under way.
LEMMA WireStep ==
  ASSUME WireInv, [WireNext]_wireState
  PROVE  WireInv'
<1>0. WireTypes /\ WireOrder /\ WireTypes'
  BY WireTypesStep DEF WireInv
<1> SUFFICES WireOrder'
  BY <1>0 DEF WireInv
<1>1. ASSUME UNCHANGED <<up, outbound, wire, groups, ptyIn, typed>>
      PROVE  WireOrder'
  BY <1>0, <1>1 DEF WireOrder
<1>2. ASSUME NEW r \in Req, CallNode(r)
      PROVE  WireOrder'
  <2>1. CASE up
    <3>1. PICK n \in 1 .. MaxParts + 1 :
            outbound' = Append(outbound, [kind |-> "request", id |-> r, parts |-> n])
      BY <1>2, <2>1 DEF CallNode
    <3> QED
      BY <1>0, <1>2, <2>1, <3>1, RequestQueued DEF CallNode
  <2> QED
    BY <1>1, <1>2, <2>1 DEF CallNode
<1>3. CASE SendInput
  BY <1>0, <1>3, InputQueued
<1>4. ASSUME WriteEnvelope
      PROVE  WireOrder'
  <2> DEFINE e == Head(outbound)
  <2>1. CASE DropAll
    BY <1>0, <1>4, <2>1, WireDropped DEF WriteEnvelope
  <2>2. CASE /\ outbound' = Tail(outbound)
             /\ wire' = wire \o [i \in 1 .. e.parts |-> Frame(e, i - 1)]
             /\ UNCHANGED <<up, groups, results>>
    <3>1. /\ outbound \in Seq(Sent) /\ outbound # <<>> /\ wire \in Seq(FrameSet) /\ up
          /\ UNCHANGED <<up, groups, ptyIn, typed>>
      BY <1>0, <1>4, <2>2 DEF WireTypes, WriteEnvelope
    <3>2. Shifted(outbound, outbound') /\ Len(outbound) >= 1 /\ e = outbound[1]
      BY <2>2, <3>1, TailShifts
    <3>3. outbound[1] \in Sent
      BY <3>1, <3>2, HeadTailProperties
    <3>4. Continued(wire, wire', outbound[1])
      BY <2>2, <3>1, <3>2, <3>3, FragmentsFollow
    <3> QED
      BY <1>0, <3>1, <3>2, <3>4, EnvelopeWritten
  <2> QED
    BY <1>4, <2>1, <2>2 DEF WriteEnvelope
<1>5. CASE ReadFrame
  BY <1>0, <1>5, FrameRead
<1>6. CASE LoseConnection
  BY <1>0, <1>6, WireDropped DEF LoseConnection
<1>7. CASE TakeResult \/ \E r \in Req : RequestTimeout(r) \/ FinishTask(r)
  BY <1>1, <1>7 DEF TakeResult, RequestTimeout, FinishTask
<1>8. CASE UNCHANGED wireState
  BY <1>1, <1>8 DEF wireState
<1> QED
  BY <1>2, <1>3, <1>4, <1>5, <1>6, <1>7, <1>8 DEF WireNext

-----------------------------------------------------------------------------
(***************************************************************************)
(* A tab that joins a running shell.                                       *)
(***************************************************************************)
Msg == [kind : {"output", "snapshot", "exit", "ready", "dead", "disconnected"}, n : Nat]

\* What is drawn: a chunk, or a snapshot of the chunks up to a number.
Drawn(m) == m.kind \in {"output", "snapshot"}

Rising(s) ==
  \A i, j \in 1 .. Len(s) : i < j /\ Drawn(s[i]) /\ Drawn(s[j]) => s[i].n < s[j].n
Between(s, lo, hi) ==
  \A i \in 1 .. Len(s) : Drawn(s[i]) => lo < s[i].n /\ s[i].n <= hi
Undrawn(s) == \A i \in 1 .. Len(s) : ~Drawn(s[i])

\* Frames from the devenv: chunks come in order, and a chunk after a snapshot is
\* not part of it.
ChunksOver(fr, x) == \A i \in 1 .. Len(fr) : fr[i].kind = "output" => x < fr[i].n
FramesRise(fr) ==
  \A i, j \in 1 .. Len(fr) :
    i < j /\ Drawn(fr[i]) /\ fr[j].kind = "output" => fr[i].n < fr[j].n
FramesOf(fr, p) ==
  /\ FramesRise(fr) /\ ChunksOver(fr, 0)
  /\ \A i \in 1 .. Len(fr) : Drawn(fr[i]) => fr[i].n <= p

TermTypes ==
  /\ printed \in 0 .. MaxChunk /\ pumped \in 0 .. printed
  /\ shell \in {"running", "exited", "reported"}
  /\ holders \subseteq {"link", "session", "task"}
  /\ task \in TaskState /\ tab \in {"new", "open", "closed"}
  /\ frames \in Seq(Msg) /\ queue \in Seq(Msg) /\ toControl \in Seq(Msg) /\ inbox \in Seq(Msg)
  /\ toNode \in Seq({"attach", "detach"})
  /\ rendered \in Nat /\ screen \in Nat /\ Len(inbox) <= QueueCap
  /\ asked \in BOOLEAN /\ stream \in BOOLEAN /\ linked \in BOOLEAN /\ canceled \in BOOLEAN

\* The screen, the browser's inbox, the connection and the subscription lie one
\* after the other, and behind them what the devenv still sends.
Lined(sc, ib, tc, q, fr, p, ahead) ==
  /\ Rising(ib) /\ Rising(tc) /\ Rising(q)
  /\ \E a, b, c \in 0 .. p :
       /\ sc <= a /\ a <= b /\ b <= c
       /\ Between(ib, sc, a) /\ Between(tc, a, b) /\ Between(q, b, c)
       /\ ahead => ChunksOver(fr, c)

\* Nothing was drawn and nothing to draw is on its way.
Unseen == screen = 0 /\ Undrawn(inbox) /\ Undrawn(toControl)

\* The tab attaches once: its attach is the first command, and until the
\* snapshot is sent nothing else is.
AttachesOnce ==
  /\ tab = "new" => /\ toNode = <<>> /\ toControl = <<>> /\ task = "none"
                    /\ Unseen /\ ~stream
  /\ \A i \in 1 .. Len(toNode) : toNode[i] = "attach" => i = 1 /\ task = "none" /\ Unseen
  /\ task \in {"asking", "snapped"} => Unseen
  /\ task # "streaming" => queue = <<>>
  /\ task = "snapped" => rendered <= pumped /\ ChunksOver(frames, rendered)

Beyond == task \in {"ready", "streaming"}
TermOrder ==
  /\ FramesOf(frames, pumped)
  /\ Lined(screen, inbox, toControl, queue, frames, pumped, Beyond)
  /\ AttachesOnce

TermInv == TermTypes /\ TermOrder

\* A sequence with nothing to draw is in every order.
LEMMA UndrawnIsLined ==
  ASSUME NEW s, Undrawn(s)
  PROVE  Rising(s) /\ \A lo, hi : Between(s, lo, hi)
BY DEF Undrawn, Rising, Between

\* Nor is there anything to draw in an empty one.
LEMMA EmptyIsUndrawn == Undrawn(<<>>) /\ Len(<<>>) = 0
BY DEF Undrawn

\* Nothing is printed or open at first.
LEMMA TermStarts == TermInit => TermInv
<1> SUFFICES ASSUME TermInit PROVE TermInv
  OBVIOUS
<1>1. TermTypes
  <2>1. <<>> \in Seq(Msg) /\ <<>> \in Seq({"attach", "detach"}) /\ Len(<<>>) <= QueueCap
    BY TerminalAssumption, EmptySeq
  <2>2. 0 \in 0 .. MaxChunk /\ 0 \in 0 .. 0
    BY TerminalAssumption
  <2> QED
    BY <2>1, <2>2 DEF TermInit, TermTypes, TaskState
<1>2. Undrawn(inbox) /\ Undrawn(toControl) /\ Undrawn(queue)
  BY EmptyIsUndrawn DEF TermInit
<1>3. FramesOf(frames, pumped) /\ ChunksOver(frames, 0)
  BY EmptyIsUndrawn DEF TermInit, FramesOf, FramesRise, ChunksOver
<1>4. Lined(screen, inbox, toControl, queue, frames, pumped, Beyond)
  <2>1. screen = 0 /\ pumped = 0 /\ 0 \in 0 .. pumped
    BY DEF TermInit
  <2> QED
    BY <1>2, <1>3, <2>1, UndrawnIsLined DEF Lined
<1>5. AttachesOnce
  BY <1>2, EmptyIsUndrawn DEF TermInit, AttachesOnce, Unseen
<1> QED
  BY <1>1, <1>3, <1>4, <1>5 DEF TermInv, TermOrder

\* A message is taken from the front.
LEMMA TakeFirst ==
  ASSUME NEW s \in Seq(Msg), s # <<>>
  PROVE  /\ Head(s) \in Msg /\ Tail(s) \in Seq(Msg) /\ Len(Tail(s)) = Len(s) - 1
         /\ Undrawn(s) => Undrawn(Tail(s)) /\ ~Drawn(Head(s))
         /\ Rising(s) => Rising(Tail(s))
<1>1. /\ Head(s) \in Msg /\ Tail(s) \in Seq(Msg) /\ Len(Tail(s)) = Len(s) - 1
      /\ Len(s) \in Nat /\ Len(s) >= 1 /\ Head(s) = s[1]
      /\ \A i \in 1 .. Len(Tail(s)) : Tail(s)[i] = s[i + 1]
  BY HeadTailProperties, LenProperties, EmptySeq
<1>2. \A i \in 1 .. Len(Tail(s)) : i + 1 \in 1 .. Len(s) /\ Tail(s)[i] = s[i + 1]
  BY <1>1
<1>3. 1 \in 1 .. Len(s)
  BY <1>1
<1>4. Undrawn(s) => Undrawn(Tail(s)) /\ ~Drawn(Head(s))
  BY <1>1, <1>2, <1>3 DEF Undrawn
<1>5. Rising(s) => Rising(Tail(s))
  <2> SUFFICES ASSUME Rising(s), NEW i \in 1 .. Len(Tail(s)), NEW j \in 1 .. Len(Tail(s)), i < j,
                      Drawn(Tail(s)[i]), Drawn(Tail(s)[j])
               PROVE  Tail(s)[i].n < Tail(s)[j].n
    BY DEF Rising
  <2>1. i + 1 \in 1 .. Len(s) /\ j + 1 \in 1 .. Len(s) /\ i + 1 < j + 1
    BY <1>2
  <2>2. Tail(s)[i] = s[i + 1] /\ Tail(s)[j] = s[j + 1]
    BY <1>2
  <2> QED
    BY <2>1, <2>2 DEF Rising
<1> QED
  BY <1>1, <1>4, <1>5

\* What is left lies between the same bounds, and behind what was taken.
LEMMA TakeLeaves ==
  ASSUME NEW s \in Seq(Msg), s # <<>>, NEW lo \in Nat, NEW hi \in Nat, Between(s, lo, hi), Rising(s)
  PROVE  /\ Between(Tail(s), lo, hi)
         /\ Drawn(Head(s)) => /\ lo < Head(s).n /\ Head(s).n <= hi
                              /\ Between(Tail(s), Head(s).n, hi)
<1>1. /\ Len(s) \in Nat /\ Len(s) >= 1 /\ Head(s) = s[1] /\ Len(Tail(s)) = Len(s) - 1
      /\ \A i \in 1 .. Len(Tail(s)) : Tail(s)[i] = s[i + 1]
  BY HeadTailProperties, LenProperties, EmptySeq
<1>2. \A i \in 1 .. Len(Tail(s)) : i + 1 \in 1 .. Len(s) /\ Tail(s)[i] = s[i + 1] /\ 1 < i + 1
  BY <1>1
<1>3. 1 \in 1 .. Len(s)
  BY <1>1
<1>4. Between(Tail(s), lo, hi)
  BY <1>2 DEF Between
<1>5. ASSUME Drawn(Head(s))
      PROVE  /\ lo < Head(s).n /\ Head(s).n <= hi
             /\ Between(Tail(s), Head(s).n, hi)
  <2>1. lo < Head(s).n /\ Head(s).n <= hi
    BY <1>1, <1>3, <1>5 DEF Between
  <2>2. ASSUME NEW i \in 1 .. Len(Tail(s)), Drawn(Tail(s)[i])
        PROVE  Head(s).n < Tail(s)[i].n
    <3>1. Drawn(s[1]) /\ Drawn(s[i + 1]) /\ 1 < i + 1 /\ i + 1 \in 1 .. Len(s)
      BY <1>1, <1>2, <1>5, <2>2
    <3> QED
      BY <1>1, <1>2, <1>3, <3>1 DEF Rising
  <2> QED
    BY <1>4, <2>1, <2>2 DEF Between
<1> QED
  BY <1>4, <1>5

\* A message is put at the end.
LEMMA PutLast ==
  ASSUME NEW s \in Seq(Msg), NEW m \in Msg
  PROVE  /\ Append(s, m) \in Seq(Msg) /\ Len(Append(s, m)) = Len(s) + 1
         /\ Undrawn(s) /\ ~Drawn(m) => Undrawn(Append(s, m))
         /\ ~Drawn(m) /\ Rising(s) => Rising(Append(s, m))
<1>1. /\ Append(s, m) \in Seq(Msg) /\ Len(Append(s, m)) = Len(s) + 1 /\ Len(s) \in Nat
      /\ Append(s, m)[Len(s) + 1] = m
      /\ \A i \in 1 .. Len(s) : Append(s, m)[i] = s[i]
  BY AppendProperties, LenProperties
<1>2. \A i \in 1 .. Len(s) + 1 :
        (i \in 1 .. Len(s) /\ Append(s, m)[i] = s[i]) \/ (i = Len(s) + 1 /\ Append(s, m)[i] = m)
  BY <1>1
<1>3. Undrawn(s) /\ ~Drawn(m) => Undrawn(Append(s, m))
  BY <1>1, <1>2 DEF Undrawn
<1>4. ~Drawn(m) /\ Rising(s) => Rising(Append(s, m))
  BY <1>1, <1>2 DEF Rising
<1> QED
  BY <1>1, <1>3, <1>4

\* A message beyond a bound is put behind what lies below it.
LEMMA PutBehind ==
  ASSUME NEW s \in Seq(Msg), NEW m \in Msg, NEW lo \in Nat, NEW mid \in Nat, NEW hi \in Nat,
         Between(s, lo, mid), Rising(s), lo <= mid, mid <= hi,
         Drawn(m) => mid < m.n /\ m.n <= hi
  PROVE  Between(Append(s, m), lo, hi) /\ Rising(Append(s, m))
<1>1. /\ Len(Append(s, m)) = Len(s) + 1 /\ Len(s) \in Nat
      /\ Append(s, m)[Len(s) + 1] = m
      /\ \A i \in 1 .. Len(s) : Append(s, m)[i] = s[i]
  BY AppendProperties, LenProperties
<1>2. \A i \in 1 .. Len(s) + 1 :
        (i \in 1 .. Len(s) /\ Append(s, m)[i] = s[i]) \/ (i = Len(s) + 1 /\ Append(s, m)[i] = m)
  BY <1>1
<1>3. \A i \in 1 .. Len(s) : s[i] \in Msg /\ s[i].n \in Nat
  <2>1. \A i \in 1 .. Len(s) : s[i] \in Msg
    BY ElementOfSeq
  <2> QED
    BY <2>1 DEF Msg
<1>4. m.n \in Nat
  BY DEF Msg
<1>5. Between(Append(s, m), lo, hi)
  BY <1>1, <1>2, <1>3, <1>4 DEF Between
<1>6. Rising(Append(s, m))
  <2> DEFINE v == Append(s, m)
  <2> SUFFICES ASSUME NEW i \in 1 .. Len(s) + 1, NEW j \in 1 .. Len(s) + 1, i < j,
                      Drawn(v[i]), Drawn(v[j])
               PROVE  v[i].n < v[j].n
    BY <1>1 DEF Rising
  <2>1. i \in 1 .. Len(s) /\ v[i] = s[i]
    BY <1>1
  <2>2. CASE j \in 1 .. Len(s)
    BY <1>1, <2>1, <2>2 DEF Rising
  <2>3. CASE j = Len(s) + 1
    <3>1. v[j] = m /\ s[i].n <= mid /\ mid < m.n
      BY <1>1, <2>1, <2>3 DEF Between
    <3> QED
      BY <1>3, <1>4, <2>1, <3>1
  <2> QED
    BY <1>1, <2>2, <2>3
<1> QED
  BY <1>5, <1>6

\* The messages of the terminal.
LEMMA MsgShapes ==
  /\ \A n \in Nat : /\ Chunk(n) \in Msg /\ Snapshot(n) \in Msg
                    /\ Drawn(Chunk(n)) /\ Drawn(Snapshot(n))
                    /\ Chunk(n).n = n /\ Snapshot(n).n = n
                    /\ Chunk(n).kind = "output" /\ Snapshot(n).kind = "snapshot"
  /\ {Exit, Ready, Dead, Disconnected} \subseteq Msg
  /\ ~Drawn(Exit) /\ ~Drawn(Ready) /\ ~Drawn(Dead) /\ ~Drawn(Disconnected)
BY DEF Chunk, Snapshot, Exit, Ready, Dead, Disconnected, Msg, Drawn

\* A message's number.
LEMMA MsgFields ==
  ASSUME NEW m \in Msg
  PROVE  m.n \in Nat
BY DEF Msg

\* The pending chunks, and the snapshot behind them.
RenderedOf(v, fr, p, q) ==
  /\ v \in Seq(Msg) /\ Len(v) = Len(fr) + (q - p) + 1
  /\ \A i \in 1 .. Len(fr) : v[i] = fr[i]
  /\ \A i \in 1 .. Len(v) : i > Len(fr) /\ i <= Len(fr) + (q - p) =>
       v[i] = Chunk(p + (i - Len(fr)))
  /\ v[Len(v)] = Snapshot(q)

\* What Render sends.
LEMMA RenderedFrames ==
  ASSUME NEW fr \in Seq(Msg), NEW p \in Nat, NEW q \in Nat, p <= q
  PROVE  RenderedOf(fr \o [i \in 1 .. q - p |-> Chunk(p + i)] \o <<Snapshot(q)>>, fr, p, q)
<1> DEFINE k == q - p
           n == Len(fr)
           block == [i \in 1 .. k |-> Chunk(p + i)]
           w == fr \o block
           v == w \o <<Snapshot(q)>>
<1>1. k \in Nat /\ n \in Nat
  BY LenProperties
<1>2. block \in Seq(Msg) /\ Len(block) = k
  <2>1. \A i \in 1 .. k : Chunk(p + i) \in Msg
    BY <1>1, MsgShapes
  <2>2. block \in Seq(Msg)
    BY <1>1, <2>1, IsASeq
  <2>3. DOMAIN block = 1 .. k
    OBVIOUS
  <2> HIDE DEF block, k
  <2> QED
    BY <1>1, <2>2, <2>3, LenProperties
<1>3. \A i \in 1 .. k : block[i] = Chunk(p + i)
  OBVIOUS
<1>4. <<Snapshot(q)>> \in Seq(Msg) /\ Len(<<Snapshot(q)>>) = 1 /\ <<Snapshot(q)>>[1] = Snapshot(q)
  BY MsgShapes
<1> HIDE DEF block, k
<1>5. /\ w \in Seq(Msg) /\ Len(w) = n + k
      /\ \A i \in 1 .. n + k : w[i] = IF i <= n THEN fr[i] ELSE block[i - n]
  BY <1>1, <1>2, ConcatProperties
<1> HIDE DEF w, n
<1>6. /\ v \in Seq(Msg) /\ Len(v) = Len(w) + 1
      /\ \A i \in 1 .. Len(w) + 1 : v[i] = IF i <= Len(w) THEN w[i] ELSE <<Snapshot(q)>>[i - Len(w)]
  BY <1>4, <1>5, ConcatProperties
<1> HIDE DEF v
<1>7. v[n + k + 1] = Snapshot(q)
  <2>1. n + k + 1 \in 1 .. Len(w) + 1 /\ ~(n + k + 1 <= Len(w)) /\ (n + k + 1) - Len(w) = 1
    BY <1>1, <1>5
  <2> QED
    BY <1>4, <1>6, <2>1
<1>8. \A i \in 1 .. n : v[i] = fr[i]
  BY <1>1, <1>5, <1>6
<1>9. ASSUME NEW i \in 1 .. n + k + 1, i > n, i <= n + k
      PROVE  v[i] = Chunk(p + (i - n))
  <2>1. i \in 1 .. n + k /\ i - n \in 1 .. k
    BY <1>1, <1>9
  <2>2. v[i] = w[i] /\ w[i] = block[i - n]
    BY <1>1, <1>5, <1>6, <1>9, <2>1
  <2> QED
    BY <1>3, <2>1, <2>2
<1>10. Len(v) = n + k + 1
  BY <1>1, <1>5, <1>6
<1>11. /\ v \in Seq(Msg) /\ Len(v) = n + k + 1
       /\ \A i \in 1 .. n : v[i] = fr[i]
       /\ \A i \in 1 .. Len(v) : i > n /\ i <= n + k => v[i] = Chunk(p + (i - n))
       /\ v[Len(v)] = Snapshot(q)
  BY <1>6, <1>7, <1>8, <1>9, <1>10
<1>12. RenderedOf(v, fr, p, q)
  BY <1>10, <1>11 DEF RenderedOf, n, k
<1> QED
  BY <1>12 DEF v, w, block, k

\* Frames stay in order when the pump forwards a chunk.
LEMMA PumpedFrames ==
  ASSUME NEW fr \in Seq(Msg), NEW p \in Nat, FramesOf(fr, p)
  PROVE  /\ FramesOf(Append(fr, Chunk(p + 1)), p + 1)
         /\ \A x \in 0 .. p : ChunksOver(fr, x) => ChunksOver(Append(fr, Chunk(p + 1)), x)
<1> DEFINE v == Append(fr, Chunk(p + 1))
           n == Len(fr)
<1>1. /\ Len(v) = n + 1 /\ n \in Nat /\ v[n + 1] = Chunk(p + 1)
      /\ \A i \in 1 .. n : v[i] = fr[i]
  BY AppendProperties, LenProperties, MsgShapes
<1>2. \A i \in 1 .. n : fr[i] \in Msg /\ fr[i].n \in Nat
  <2>1. \A i \in 1 .. n : fr[i] \in Msg
    BY ElementOfSeq
  <2> QED
    BY <2>1, MsgFields
<1>3. v[n + 1].n = p + 1 /\ v[n + 1].kind = "output"
  BY <1>1, MsgShapes
<1> HIDE DEF v, n
<1>4. \A i \in 1 .. n + 1 : (i \in 1 .. n /\ v[i] = fr[i]) \/ i = n + 1
  BY <1>1
<1>5. \A i \in 1 .. n : Drawn(fr[i]) => fr[i].n <= p
  BY DEF FramesOf, n
<1>6. FramesRise(v)
  <2> SUFFICES ASSUME NEW i \in 1 .. n + 1, NEW j \in 1 .. n + 1, i < j, Drawn(v[i]), v[j].kind = "output"
               PROVE  v[i].n < v[j].n
    BY <1>1 DEF FramesRise
  <2>1. i \in 1 .. n /\ v[i] = fr[i]
    BY <1>1
  <2>2. CASE j \in 1 .. n
    BY <1>1, <2>1, <2>2 DEF FramesOf, FramesRise, n
  <2>3. CASE j = n + 1
    BY <1>2, <1>3, <1>5, <2>1, <2>3
  <2> QED
    BY <1>1, <2>2, <2>3
<1>7. ASSUME NEW x \in 0 .. p, ChunksOver(fr, x)
      PROVE  ChunksOver(v, x)
  BY <1>1, <1>3, <1>4, <1>7 DEF ChunksOver, n
<1>8. ChunksOver(v, 0)
  BY <1>7 DEF FramesOf
<1>9. \A i \in 1 .. n + 1 : Drawn(v[i]) => v[i].n <= p + 1
  BY <1>2, <1>3, <1>4, <1>5
<1>10. FramesOf(v, p + 1)
  BY <1>1, <1>6, <1>8, <1>9 DEF FramesOf
<1> QED
  BY <1>7, <1>10 DEF v

\* A frame that is no chunk, and not beyond what was pumped, may follow.
LEMMA FramesGoOn ==
  ASSUME NEW fr \in Seq(Msg), NEW p \in Nat, FramesOf(fr, p), NEW m \in Msg,
         m.kind # "output", m.n <= p
  PROVE  /\ FramesOf(Append(fr, m), p)
         /\ \A x \in 0 .. p : ChunksOver(fr, x) => ChunksOver(Append(fr, m), x)
<1> DEFINE v == Append(fr, m)
           n == Len(fr)
<1>1. /\ Len(v) = n + 1 /\ n \in Nat /\ v[n + 1] = m
      /\ \A i \in 1 .. n : v[i] = fr[i]
  BY AppendProperties, LenProperties
<1> HIDE DEF v, n
<1>2. \A i \in 1 .. n + 1 : (i \in 1 .. n /\ v[i] = fr[i]) \/ i = n + 1
  BY <1>1
<1>3. FramesRise(v)
  BY <1>1, <1>2 DEF FramesOf, FramesRise, n
<1>4. \A x \in 0 .. p : ChunksOver(fr, x) => ChunksOver(v, x)
  BY <1>1, <1>2 DEF ChunksOver, n
<1>5. FramesOf(v, p)
  BY <1>1, <1>2, <1>3, <1>4 DEF FramesOf, n
<1> QED
  BY <1>4, <1>5 DEF v

\* Frames stay in order when a snapshot is rendered behind the pending chunks.
LEMMA RenderedInOrder ==
  ASSUME NEW fr \in Seq(Msg), NEW p \in Nat, NEW q \in Nat, p <= q, FramesOf(fr, p), NEW v,
         RenderedOf(v, fr, p, q)
  PROVE  /\ v \in Seq(Msg) /\ FramesOf(v, q)
         /\ \A x \in 0 .. p : ChunksOver(fr, x) => ChunksOver(v, x)
<1> DEFINE n == Len(fr)
           k == q - p
<1>0. /\ n \in Nat /\ k \in Nat /\ q = p + k
      /\ v \in Seq(Msg) /\ Len(v) = n + k + 1 /\ v[n + k + 1] = Snapshot(q)
      /\ \A i \in 1 .. n : v[i] = fr[i]
      /\ \A i \in 1 .. n + k + 1 : i > n /\ i <= n + k => v[i] = Chunk(p + (i - n))
  <2>1. n \in Nat /\ k \in Nat /\ q = p + k
    BY LenProperties
  <2>2. v \in Seq(Msg) /\ Len(v) = n + k + 1
    BY <2>1 DEF RenderedOf
  <2>3. v[n + k + 1] = Snapshot(q) /\ \A i \in 1 .. n : v[i] = fr[i]
    BY <2>2 DEF RenderedOf
  <2>4. \A i \in 1 .. n + k + 1 : i > n /\ i <= n + k => v[i] = Chunk(p + (i - n))
    BY <2>2 DEF RenderedOf
  <2> QED
    BY <2>1, <2>2, <2>3, <2>4
<1> HIDE DEF n, k
<1>1. \A i \in 1 .. n : fr[i].n \in Nat
  <2>1. \A i \in 1 .. n : fr[i] \in Msg
    BY ElementOfSeq DEF n
  <2> QED
    BY <2>1, MsgFields
<1>2. ASSUME NEW i \in 1 .. n + k + 1
      PROVE  \/ i \in 1 .. n /\ v[i] = fr[i]
             \/ /\ i > n /\ i <= n + k /\ v[i].kind = "output" /\ Drawn(v[i])
                /\ v[i].n = p + (i - n) /\ v[i].n \in Nat /\ p < v[i].n /\ v[i].n <= q
             \/ i = n + k + 1 /\ v[i].kind = "snapshot" /\ v[i].n = q
  <2>1. CASE i > n /\ i <= n + k
    <3>1. v[i] = Chunk(p + (i - n)) /\ p + (i - n) \in Nat
      BY <1>0, <2>1
    <3>2. v[i].kind = "output" /\ Drawn(v[i]) /\ v[i].n = p + (i - n)
      BY <3>1, MsgShapes
    <3> QED
      BY <1>0, <2>1, <3>1, <3>2
  <2>2. CASE i = n + k + 1
    BY <1>0, <2>2, MsgShapes
  <2> QED
    BY <1>0, <2>1, <2>2
<1>3. \A i \in 1 .. n : Drawn(fr[i]) => fr[i].n <= p
  BY DEF FramesOf, n
<1>4. FramesRise(fr) /\ ChunksOver(fr, 0)
  BY DEF FramesOf
<1>5. FramesRise(v)
  <2> SUFFICES ASSUME NEW i \in 1 .. n + k + 1, NEW j \in 1 .. n + k + 1, i < j,
                      Drawn(v[i]), v[j].kind = "output"
               PROVE  v[i].n < v[j].n
    BY <1>0 DEF FramesRise
  <2>1. CASE j \in 1 .. n
    <3>1. i \in 1 .. n /\ v[i] = fr[i] /\ v[j] = fr[j]
      BY <1>0, <2>1
    <3> QED
      BY <1>4, <3>1, <2>1 DEF FramesRise, n
  <2>2. CASE i \in 1 .. n /\ j > n
    <3>1. v[i] = fr[i] /\ p < v[j].n /\ v[j].n \in Nat
      BY <1>0, <1>2, <2>2
    <3> QED
      BY <1>0, <1>1, <1>3, <2>2, <3>1
  <2>3. CASE i > n /\ j > n
    BY <1>0, <1>2, <2>3
  <2> QED
    BY <1>0, <2>1, <2>2, <2>3
<1>6. ASSUME NEW x \in 0 .. p, ChunksOver(fr, x)
      PROVE  ChunksOver(v, x)
  <2> SUFFICES ASSUME NEW i \in 1 .. n + k + 1, v[i].kind = "output"
               PROVE  x < v[i].n
    BY <1>0 DEF ChunksOver
  <2>1. CASE i \in 1 .. n /\ v[i] = fr[i]
    BY <1>6, <2>1 DEF ChunksOver, n
  <2> QED
    BY <1>0, <1>2, <2>1
<1>7. \A i \in 1 .. n + k + 1 : Drawn(v[i]) => v[i].n <= q
  BY <1>0, <1>1, <1>2, <1>3
<1>8. ChunksOver(v, 0)
  BY <1>4, <1>6
<1> QED
  BY <1>0, <1>5, <1>6, <1>7, <1>8 DEF FramesOf

\* What was behind a bound stays behind it.
KeepsOver(fr, v, p) == \A x \in 0 .. p : ChunksOver(fr, x) => ChunksOver(v, x)

\* A frame is read: the chunks behind it are beyond it.
LEMMA FrameTaken ==
  ASSUME NEW fr \in Seq(Msg), fr # <<>>, NEW p \in Nat, FramesOf(fr, p)
  PROVE  /\ FramesOf(Tail(fr), p) /\ KeepsOver(fr, Tail(fr), p)
         /\ Drawn(Head(fr)) => Head(fr).n <= p /\ ChunksOver(Tail(fr), Head(fr).n)
         /\ Head(fr).kind = "output" => \A x \in 0 .. p : ChunksOver(fr, x) => x < Head(fr).n
<1> DEFINE v == Tail(fr)
           n == Len(v)
<1>1. /\ n \in Nat /\ Len(fr) = n + 1 /\ Head(fr) = fr[1]
      /\ \A i \in 1 .. n : v[i] = fr[i + 1]
  <2>1. Len(fr) \in Nat /\ Len(fr) >= 1 /\ Len(v) = Len(fr) - 1 /\ Head(fr) = fr[1]
    BY HeadTailProperties, LenProperties, EmptySeq
  <2>2. \A i \in 1 .. n : v[i] = fr[i + 1]
    BY HeadTailProperties
  <2> HIDE DEF v
  <2> QED
    BY <2>1, <2>2
<1> HIDE DEF v, n
<1>2. \A i \in 1 .. n : i + 1 \in 1 .. Len(fr) /\ v[i] = fr[i + 1] /\ 1 < i + 1
  BY <1>1
<1>3. 1 \in 1 .. Len(fr)
  BY <1>1
<1>4. FramesRise(fr) /\ ChunksOver(fr, 0) /\ \A i \in 1 .. Len(fr) : Drawn(fr[i]) => fr[i].n <= p
  BY DEF FramesOf
<1>5. FramesRise(v)
  <2> SUFFICES ASSUME NEW i \in 1 .. n, NEW j \in 1 .. n, i < j, Drawn(v[i]), v[j].kind = "output"
               PROVE  v[i].n < v[j].n
    BY DEF FramesRise, n
  <2>1. i + 1 \in 1 .. Len(fr) /\ j + 1 \in 1 .. Len(fr) /\ i + 1 < j + 1
    BY <1>2
  <2>2. v[i] = fr[i + 1] /\ v[j] = fr[j + 1]
    BY <1>2
  <2> QED
    BY <1>4, <2>1, <2>2 DEF FramesRise
<1>6. \A x : ChunksOver(fr, x) => ChunksOver(v, x)
  BY <1>2 DEF ChunksOver, n
<1>7. FramesOf(v, p)
  BY <1>2, <1>4, <1>5, <1>6 DEF FramesOf, n
<1>8. Drawn(Head(fr)) => Head(fr).n <= p /\ ChunksOver(v, Head(fr).n)
  BY <1>1, <1>2, <1>3, <1>4 DEF FramesRise, ChunksOver, n
<1>9. Head(fr).kind = "output" => \A x \in 0 .. p : ChunksOver(fr, x) => x < Head(fr).n
  BY <1>1, <1>3 DEF ChunksOver
<1> QED
  BY <1>6, <1>7, <1>8, <1>9 DEF KeepsOver, v

\* The line stays when frames are added or read, and when the task ends.
LEMMA LineStays ==
  ASSUME NEW sc \in Nat, NEW ib, NEW tc, NEW q, NEW fr, NEW v, NEW p \in Nat, NEW r \in Nat,
         NEW ah \in BOOLEAN, NEW on \in BOOLEAN,
         Lined(sc, ib, tc, q, fr, p, ah), p <= r, on => ah /\ KeepsOver(fr, v, p)
  PROVE  Lined(sc, ib, tc, q, v, r, on)
<1>1. PICK a \in 0 .. p, b \in 0 .. p, c \in 0 .. p :
         /\ sc <= a /\ a <= b /\ b <= c
         /\ Between(ib, sc, a) /\ Between(tc, a, b) /\ Between(q, b, c)
         /\ ah => ChunksOver(fr, c)
  BY DEF Lined
<1>2. a \in 0 .. r /\ b \in 0 .. r /\ c \in 0 .. r
  OBVIOUS
<1>3. on => ChunksOver(v, c)
  BY <1>1 DEF KeepsOver
<1> QED
  BY <1>1, <1>2, <1>3 DEF Lined

\* The devenv adds frames: everything on the way is before them.
LEMMA FramesGrow ==
  ASSUME TermTypes, TermOrder, pumped' \in Nat, pumped <= pumped', FramesOf(frames', pumped'),
         KeepsOver(frames, frames', pumped),
         UNCHANGED <<attachTaskVars, toControl, toNode, controlSide>>
  PROVE  TermOrder'
<1>0. UNCHANGED <<task, rendered, queue, toControl, toNode, stream, inbox, tab, screen>>
  BY DEF attachTaskVars, controlSide
<1>1. screen \in Nat /\ pumped \in Nat /\ rendered \in Nat /\ Beyond \in BOOLEAN /\ Beyond' = Beyond
  BY <1>0 DEF TermTypes, Beyond
<1>2. Lined(screen, inbox, toControl, queue, frames, pumped, Beyond) /\ AttachesOnce
  BY DEF TermOrder
<1>3. Lined(screen, inbox, toControl, queue, frames', pumped', Beyond)
  BY <1>1, <1>2, LineStays
<1>4. task = "snapped" => rendered <= pumped' /\ ChunksOver(frames', rendered)
  BY <1>1, <1>2 DEF AttachesOnce, KeepsOver
<1>5. AttachesOnce'
  BY <1>0, <1>2, <1>4 DEF AttachesOnce, Unseen
<1> QED
  BY <1>0, <1>1, <1>3, <1>5 DEF TermOrder

\* The shell and the pump.
LEMMA DevenvSteps ==
  ASSUME TermInv, ShellPrints \/ ShellEnds \/ Pump \/ Render \/ ReportExit
  PROVE  TermInv'
<1>0. TermTypes /\ TermOrder
  BY DEF TermInv
<1>1. /\ printed \in 0 .. MaxChunk /\ MaxChunk \in Nat /\ pumped \in Nat /\ printed \in Nat
      /\ pumped <= printed /\ frames \in Seq(Msg) /\ FramesOf(frames, pumped)
  BY <1>0, TerminalAssumption DEF TermTypes, TermOrder
<1>2. ASSUME printed' \in 0 .. MaxChunk, pumped' \in 0 .. printed', frames' \in Seq(Msg),
             shell' \in {"running", "exited", "reported"}, asked' \in BOOLEAN,
             UNCHANGED <<attachTaskVars, toControl, toNode, controlSide, linked>>
      PROVE  TermTypes'
  BY <1>0, <1>2 DEF TermTypes, attachTaskVars, controlSide
<1>3. CASE ShellPrints \/ ShellEnds
  <2>1. UNCHANGED <<pumped, frames, attachTaskVars, toControl, toNode, controlSide>>
    BY <1>3 DEF ShellPrints, ShellEnds
  <2>2. TermTypes'
    BY <1>0, <1>1, <1>2, <1>3 DEF ShellPrints, ShellEnds, TermTypes
  <2>3. KeepsOver(frames, frames', pumped) /\ FramesOf(frames', pumped') /\ pumped' \in Nat
        /\ pumped <= pumped'
    BY <1>1, <2>1 DEF KeepsOver
  <2> QED
    BY <1>0, <2>1, <2>2, <2>3, FramesGrow DEF TermInv
<1>4. CASE Pump
  <2>1. /\ frames' = Append(frames, Chunk(pumped + 1)) /\ pumped' = pumped + 1
        /\ pumped + 1 <= printed /\ printed' = printed
        /\ UNCHANGED <<shell, asked, attachTaskVars, toControl, toNode, controlSide, linked>>
    BY <1>1, <1>4 DEF Pump
  <2>2. frames' \in Seq(Msg)
    BY <1>1, <2>1, PutLast, MsgShapes
  <2>3. TermTypes'
    BY <1>0, <1>1, <1>2, <2>1, <2>2 DEF TermTypes
  <2>4. FramesOf(frames', pumped') /\ KeepsOver(frames, frames', pumped)
    BY <1>1, <2>1, PumpedFrames DEF KeepsOver
  <2> QED
    BY <1>0, <1>1, <2>1, <2>3, <2>4, FramesGrow DEF TermInv
<1>5. CASE Render
  <2>0. UNCHANGED <<printed, shell, attachTaskVars, toControl, toNode, controlSide, linked>>
        /\ asked' = FALSE
    BY <1>5 DEF Render
  <2>1. /\ frames' \in Seq(Msg) /\ FramesOf(frames', pumped') /\ KeepsOver(frames, frames', pumped)
        /\ pumped' \in Nat /\ pumped <= pumped' /\ pumped' <= printed
    <3>1. CASE shell = "reported"
      <4>1. frames' = Append(frames, Snapshot(0)) /\ pumped' = pumped
        BY <1>5, <3>1 DEF Render
      <4>2. Snapshot(0) \in Msg /\ Snapshot(0).kind # "output" /\ Snapshot(0).n <= pumped
        BY <1>1, MsgShapes
      <4>3. FramesOf(Append(frames, Snapshot(0)), pumped)
            /\ KeepsOver(frames, Append(frames, Snapshot(0)), pumped)
        BY <1>1, <4>2, FramesGoOn DEF KeepsOver
      <4> QED
        BY <1>1, <4>1, <4>2, <4>3, PutLast
    <3>2. CASE shell # "reported"
      <4>1. /\ frames' = frames \o [i \in 1 .. printed - pumped |-> Chunk(pumped + i)]
                                \o <<Snapshot(printed)>>
            /\ pumped' = printed
        BY <1>5, <3>2 DEF Render
      <4>2. RenderedOf(frames', frames, pumped, printed)
        BY <1>1, <4>1, RenderedFrames
      <4>3. frames' \in Seq(Msg) /\ FramesOf(frames', printed) /\ KeepsOver(frames, frames', pumped)
        BY <1>1, <4>2, RenderedInOrder DEF KeepsOver
      <4>4. pumped' = printed
        BY <4>1
      <4> QED
        BY <1>1, <4>3, <4>4
    <3> QED
      BY <3>1, <3>2
  <2>2. TermTypes'
    <3>1. pumped' \in 0 .. printed' /\ printed' \in 0 .. MaxChunk
      BY <1>1, <2>0, <2>1
    <3>2. shell' \in {"running", "exited", "reported"} /\ asked' \in BOOLEAN
      BY <1>0, <2>0 DEF TermTypes
    <3> QED
      BY <1>2, <2>0, <2>1, <3>1, <3>2
  <2> QED
    BY <1>0, <1>1, <2>0, <2>1, <2>2, FramesGrow DEF TermInv
<1>6. CASE ReportExit
  <2>1. /\ frames' = Append(frames, Exit) /\ shell' = "reported"
        /\ UNCHANGED <<printed, pumped, asked, attachTaskVars, toControl, toNode, controlSide, linked>>
    BY <1>6 DEF ReportExit
  <2>2. Exit \in Msg /\ Exit.kind # "output" /\ Exit.n <= pumped
    BY <1>1, MsgShapes DEF Exit
  <2>3. frames' \in Seq(Msg) /\ FramesOf(frames', pumped) /\ KeepsOver(frames, frames', pumped)
    BY <1>1, <2>1, <2>2, FramesGoOn, PutLast DEF KeepsOver
  <2>4. TermTypes'
    BY <1>0, <1>1, <1>2, <2>1, <2>3 DEF TermTypes
  <2> QED
    BY <1>0, <1>1, <2>1, <2>3, <2>4, FramesGrow DEF TermInv
<1> QED
  BY <1>3, <1>4, <1>5, <1>6

\* The link reads a frame.
LEMMA LinkStep ==
  ASSUME TermInv, LinkReads
  PROVE  TermInv'
<1> DEFINE m == Head(frames)
<1>0. TermTypes /\ FramesOf(frames, pumped) /\ AttachesOnce
      /\ Lined(screen, inbox, toControl, queue, frames, pumped, Beyond)
  BY DEF TermInv, TermOrder
<1>1. /\ frames \in Seq(Msg) /\ frames # <<>> /\ frames' = Tail(frames)
      /\ pumped \in Nat /\ pumped' = pumped /\ screen \in Nat /\ Beyond \in BOOLEAN
      /\ queue \in Seq(Msg)
      /\ UNCHANGED <<printed, shell, asked, canceled, toControl, toNode, stream, inbox, tab, screen, linked>>
  BY <1>0 DEF LinkReads, TermTypes, Beyond, controlSide
<1>2. /\ FramesOf(frames', pumped) /\ KeepsOver(frames, frames', pumped)
      /\ Drawn(m) => m.n <= pumped /\ ChunksOver(frames', m.n)
      /\ m.kind = "output" => \A x \in 0 .. pumped : ChunksOver(frames, x) => x < m.n
  BY <1>0, <1>1, FrameTaken
<1>3. m \in Msg /\ m.n \in Nat /\ frames' \in Seq(Msg)
  BY <1>1, TakeFirst, MsgFields
<1>4. task = "snapped" => rendered <= pumped /\ ChunksOver(frames', rendered)
  BY <1>0, <1>2 DEF AttachesOnce, KeepsOver, TermTypes
<1>5. ASSUME UNCHANGED <<task, rendered, queue>>, holders' \subseteq holders
      PROVE  TermInv'
  <2>1. TermTypes'
    BY <1>0, <1>1, <1>3, <1>5 DEF TermTypes
  <2>2. Lined(screen, inbox, toControl, queue, frames', pumped, Beyond)
    BY <1>0, <1>1, <1>2, LineStays
  <2>3. AttachesOnce'
    BY <1>0, <1>1, <1>4, <1>5 DEF AttachesOnce, Unseen
  <2>4. Beyond' = Beyond
    BY <1>5 DEF Beyond
  <2> QED
    BY <1>1, <1>2, <1>5, <2>1, <2>2, <2>3, <2>4 DEF TermInv, TermOrder
<1>6. CASE m.kind = "output" /\ Subscribed /\ queue' = Append(queue, m) /\ UNCHANGED <<holders, task, rendered>>
  <2>1. task = "streaming" /\ Beyond /\ Beyond' = Beyond /\ Drawn(m)
    BY <1>6 DEF Subscribed, Beyond, Drawn
  <2>2. queue' \in Seq(Msg)
    BY <1>1, <1>3, <1>6, PutLast
  <2>3. TermTypes'
    BY <1>0, <1>1, <1>3, <1>6, <2>2 DEF TermTypes
  <2>4. AttachesOnce'
    BY <1>0, <1>1, <1>6, <2>1 DEF AttachesOnce, Unseen
  <2>5. Lined(screen, inbox, toControl, queue', frames', pumped, TRUE)
    <3>1. PICK a \in 0 .. pumped, b \in 0 .. pumped, c \in 0 .. pumped :
             /\ screen <= a /\ a <= b /\ b <= c
             /\ Between(inbox, screen, a) /\ Between(toControl, a, b) /\ Between(queue, b, c)
             /\ Beyond => ChunksOver(frames, c)
      BY <1>0 DEF Lined
    <3>2. c < m.n /\ m.n \in 0 .. pumped /\ ChunksOver(frames', m.n) /\ b <= m.n
      BY <1>1, <1>2, <1>3, <1>6, <2>1, <3>1
    <3>3. Rising(inbox) /\ Rising(toControl) /\ Rising(queue)
      BY <1>0 DEF Lined
    <3>4. Between(queue', b, m.n) /\ Rising(queue')
      BY <1>1, <1>3, <1>6, <3>1, <3>2, <3>3, PutBehind
    <3> QED
      BY <3>1, <3>2, <3>3, <3>4 DEF Lined
  <2> QED
    BY <1>1, <1>2, <2>1, <2>3, <2>4, <2>5 DEF TermInv, TermOrder
<1>7. CASE /\ m.kind = "snapshot" /\ task = "asking" /\ task' = "snapped" /\ rendered' = m.n
           /\ UNCHANGED <<holders, queue>>
  <2>1. Drawn(m) /\ ~Beyond /\ ~Beyond' /\ Beyond' \in BOOLEAN
    BY <1>7 DEF Drawn, Beyond
  <2>2. TermTypes'
    BY <1>0, <1>1, <1>3, <1>7 DEF TermTypes, TaskState
  <2>3. AttachesOnce'
    BY <1>0, <1>1, <1>2, <1>7, <2>1 DEF AttachesOnce, Unseen
  <2>4. Lined(screen, inbox, toControl, queue, frames', pumped, Beyond')
    BY <1>0, <1>1, <2>1, LineStays
  <2> QED
    BY <1>1, <1>2, <1>7, <2>2, <2>3, <2>4 DEF TermInv, TermOrder
<1> QED
  BY <1>5, <1>6, <1>7 DEF LinkReads

\* The manager drops its session, and the node obeys attach and detach.
LEMMA NodeSteps ==
  ASSUME TermInv, ManagerDrops \/ NodeCommand
  PROVE  TermInv'
<1>0. TermTypes /\ FramesOf(frames, pumped) /\ AttachesOnce
      /\ Lined(screen, inbox, toControl, queue, frames, pumped, Beyond)
  BY DEF TermInv, TermOrder
<1>1. screen \in Nat /\ pumped \in Nat /\ Beyond \in BOOLEAN /\ KeepsOver(frames, frames, pumped)
  BY <1>0 DEF TermTypes, Beyond, KeepsOver
<1>2. CASE ManagerDrops
  <2>1. /\ holders' \subseteq holders
        /\ UNCHANGED <<printed, shell, pumped, frames, asked, task, rendered, queue, canceled>>
        /\ UNCHANGED <<toControl, toNode, stream, inbox, tab, screen, linked>>
    BY <1>2 DEF ManagerDrops, wireVars, controlSide
  <2>2. TermTypes'
    BY <1>0, <2>1 DEF TermTypes
  <2>3. AttachesOnce' /\ Beyond' = Beyond
    BY <1>0, <2>1 DEF AttachesOnce, Unseen, Beyond
  <2> QED
    BY <1>0, <2>1, <2>2, <2>3 DEF TermInv, TermOrder
<1>3. CASE NodeCommand
  <2>1. /\ toNode \in Seq({"attach", "detach"}) /\ toNode # <<>> /\ toNode' = Tail(toNode)
        /\ UNCHANGED <<printed, shell, pumped, frames, rendered, queue, toControl>>
        /\ UNCHANGED <<stream, inbox, tab, screen, linked>>
    BY <1>0, <1>3 DEF NodeCommand, TermTypes, controlSide
  <2>2. /\ toNode' \in Seq({"attach", "detach"}) /\ Len(toNode) \in Nat /\ Head(toNode) = toNode[1]
        /\ Len(toNode) >= 1 /\ Len(toNode') = Len(toNode) - 1
        /\ \A i \in 1 .. Len(toNode') : toNode'[i] = toNode[i + 1]
    BY <2>1, HeadTailProperties, LenProperties, EmptySeq
  <2>3. \A i \in 1 .. Len(toNode') : toNode'[i] # "attach"
    <3> SUFFICES ASSUME NEW i \in 1 .. Len(toNode'), toNode[i + 1] = "attach"
                 PROVE  FALSE
      BY <2>2
    <3>1. i + 1 \in 1 .. Len(toNode) /\ i + 1 # 1
      BY <2>2
    <3> QED
      BY <1>0, <3>1 DEF AttachesOnce
  <2>4. tab # "new"
    BY <1>0, <2>1 DEF AttachesOnce
  <2>5. CASE Head(toNode) = "attach" /\ task' = "asking" /\ asked' = TRUE
             /\ holders' = holders \cup {"task"} /\ UNCHANGED canceled
    <3>1. 1 \in 1 .. Len(toNode)
      BY <2>2
    <3>2. task = "none" /\ Unseen
      BY <1>0, <2>2, <2>5, <3>1 DEF AttachesOnce
    <3>3. TermTypes'
      BY <1>0, <2>1, <2>2, <2>5 DEF TermTypes, TaskState
    <3>4. AttachesOnce'
      BY <1>0, <2>1, <2>3, <2>4, <2>5, <3>2 DEF AttachesOnce, Unseen
    <3>5. ~Beyond' /\ ~Beyond
      BY <2>5, <3>2 DEF Beyond
    <3>6. Lined(screen, inbox, toControl, queue, frames, pumped, Beyond')
      BY <1>0, <3>5 DEF Lined
    <3> QED
      BY <1>0, <2>1, <3>3, <3>4, <3>6 DEF TermInv, TermOrder
  <2>6. CASE UNCHANGED <<task, asked, holders>> /\ canceled' \in BOOLEAN
    <3>1. TermTypes'
      BY <1>0, <2>1, <2>2, <2>6 DEF TermTypes
    <3>2. AttachesOnce' /\ Beyond' = Beyond
      BY <1>0, <2>1, <2>3, <2>4, <2>6 DEF AttachesOnce, Unseen, Beyond
    <3> QED
      BY <1>0, <2>1, <3>1, <3>2 DEF TermInv, TermOrder
  <2>7. canceled \in BOOLEAN /\ CancelSeen \in BOOLEAN
    BY <1>0 DEF TermTypes, CancelSeen
  <2> QED
    BY <1>3, <2>5, <2>6, <2>7 DEF NodeCommand
<1> QED
  BY <1>2, <1>3

\* The task ends: its subscription goes, nothing more is ahead.
LEMMA TaskEndStep ==
  ASSUME TermInv, TaskEnds, toControl' \in Seq(Msg), Rising(toControl'),
         \A lo, hi : Between(toControl, lo, hi) => Between(toControl', lo, hi),
         Undrawn(toControl) => Undrawn(toControl'),
         task # "none", UNCHANGED <<wireVars, toNode, controlSide, linked>>
  PROVE  TermInv'
<1>0. TermTypes /\ FramesOf(frames, pumped) /\ AttachesOnce
      /\ Lined(screen, inbox, toControl, queue, frames, pumped, Beyond)
  BY DEF TermInv, TermOrder
<1>1. /\ task' = "none" /\ rendered' = 0 /\ queue' = <<>> /\ canceled' = FALSE
      /\ holders' \subseteq holders
      /\ UNCHANGED <<printed, shell, pumped, frames, asked, toNode, stream, inbox, tab, screen, linked>>
  BY DEF TaskEnds, wireVars, controlSide
<1>2. TermTypes'
  BY <1>0, <1>1, EmptySeq DEF TermTypes, TaskState
<1>3. AttachesOnce'
  BY <1>0, <1>1 DEF AttachesOnce, Unseen
<1>4. Lined(screen, inbox, toControl', <<>>, frames, pumped, FALSE)
  <2>1. PICK a \in 0 .. pumped, b \in 0 .. pumped, c \in 0 .. pumped :
           /\ screen <= a /\ a <= b /\ b <= c
           /\ Between(inbox, screen, a) /\ Between(toControl, a, b) /\ Between(queue, b, c)
    BY <1>0 DEF Lined
  <2>2. Between(toControl', a, b)
    BY <2>1
  <2>3. Rising(<<>>) /\ Between(<<>>, b, c)
    BY UndrawnIsLined, EmptyIsUndrawn
  <2>4. Rising(inbox)
    BY <1>0 DEF Lined
  <2> QED
    BY <2>1, <2>2, <2>3, <2>4 DEF Lined
<1>5. ~Beyond'
  BY <1>1 DEF Beyond
<1> QED
  BY <1>0, <1>1, <1>2, <1>3, <1>4, <1>5 DEF TermInv, TermOrder, Lined

\* The attachment task: the snapshot, "ready", and the loop.
LEMMA TaskSteps ==
  ASSUME TermInv, SendSnapshot \/ SendReady \/ StreamStep \/ SnapshotTimeout
  PROVE  TermInv'
<1>0. TermTypes /\ FramesOf(frames, pumped) /\ AttachesOnce
      /\ Lined(screen, inbox, toControl, queue, frames, pumped, Beyond)
  BY DEF TermInv, TermOrder
<1>1. /\ UNCHANGED <<printed, shell, pumped, frames, asked, toNode, stream, inbox, tab, screen, linked>>
      /\ UNCHANGED <<wireVars, toNode, controlSide, linked>>
  BY DEF SendSnapshot, SendReady, StreamStep, SnapshotTimeout, wireVars, controlSide
<1>2. /\ screen \in Nat /\ pumped \in Nat /\ rendered \in Nat
      /\ toControl \in Seq(Msg) /\ queue \in Seq(Msg)
      /\ Rising(inbox) /\ Rising(toControl) /\ Rising(queue) /\ ChunksOver(frames, 0)
  BY <1>0 DEF TermTypes, Lined, FramesOf
<1>3. ASSUME TaskEnds, UNCHANGED toControl, task # "none"
      PROVE  TermInv'
  BY <1>1, <1>2, <1>3, TaskEndStep
<1>4. ASSUME task = "snapped", task' = "ready", UNCHANGED <<holders, rendered, queue, canceled>>,
             toControl' = IF rendered = 0 THEN toControl ELSE Append(toControl, Snapshot(rendered))
      PROVE  TermInv'
  <2>1. Unseen /\ rendered <= pumped /\ ChunksOver(frames, rendered) /\ queue = <<>>
    BY <1>0, <1>4 DEF AttachesOnce
  <2>2. /\ Between(toControl, 0, 0) /\ Between(inbox, 0, 0) /\ Between(queue, rendered, rendered)
    BY <2>1, UndrawnIsLined, EmptyIsUndrawn DEF Unseen
  <2>3. toControl' \in Seq(Msg) /\ Between(toControl', 0, rendered) /\ Rising(toControl')
    <3>1. CASE rendered = 0
      BY <1>2, <1>4, <2>2, <3>1
    <3>2. CASE rendered # 0
      <4>1. /\ Snapshot(rendered) \in Msg /\ Snapshot(rendered).n = rendered
            /\ 0 < Snapshot(rendered).n /\ toControl' = Append(toControl, Snapshot(rendered))
        BY <1>2, <1>4, <3>2, MsgShapes
      <4>2. 0 \in Nat /\ 0 <= 0 /\ 0 <= rendered /\ rendered <= rendered
        BY <1>2
      <4>3. Between(Append(toControl, Snapshot(rendered)), 0, rendered)
            /\ Rising(Append(toControl, Snapshot(rendered)))
        BY <1>2, <2>2, <4>1, <4>2, PutBehind
      <4> QED
        BY <1>2, <4>1, <4>3, PutLast
    <3> QED
      BY <3>1, <3>2
  <2>4. screen = 0 /\ 0 \in 0 .. pumped /\ rendered \in 0 .. pumped /\ 0 <= rendered
    BY <1>2, <2>1 DEF Unseen
  <2>5. Lined(screen, inbox, toControl', queue, frames, pumped, TRUE)
    BY <1>2, <2>1, <2>2, <2>3, <2>4 DEF Lined
  <2>6. TermTypes'
    BY <1>0, <1>1, <1>4, <2>3 DEF TermTypes, TaskState
  <2>7. \A i \in 1 .. Len(toNode) : toNode[i] # "attach"
    BY <1>0, <1>4 DEF AttachesOnce
  <2>8. AttachesOnce' /\ Beyond'
    BY <1>0, <1>1, <1>4, <2>1, <2>7 DEF AttachesOnce, Unseen, Beyond
  <2> QED
    BY <1>0, <1>1, <1>4, <2>5, <2>6, <2>8 DEF TermInv, TermOrder, Lined
<1>5. ASSUME task = "ready", toControl' = Append(toControl, Ready), task' = "streaming",
             UNCHANGED <<holders, rendered, queue, canceled>>
      PROVE  TermInv'
  <2>1. Ready \in Msg /\ ~Drawn(Ready)
    BY MsgShapes
  <2>2. toControl' \in Seq(Msg) /\ Rising(toControl')
    BY <1>2, <1>5, <2>1, PutLast
  <2>3. PICK a \in 0 .. pumped, b \in 0 .. pumped, c \in 0 .. pumped :
           /\ screen <= a /\ a <= b /\ b <= c
           /\ Between(inbox, screen, a) /\ Between(toControl, a, b) /\ Between(queue, b, c)
           /\ Beyond => ChunksOver(frames, c)
    BY <1>0 DEF Lined
  <2>4. Between(toControl', a, b)
    BY <1>2, <1>5, <2>1, <2>3, PutBehind
  <2>5. Beyond /\ Beyond'
    BY <1>5 DEF Beyond
  <2>6. Lined(screen, inbox, toControl', queue, frames, pumped, Beyond')
    BY <1>2, <2>2, <2>3, <2>4, <2>5 DEF Lined
  <2>7. TermTypes'
    BY <1>0, <1>1, <1>5, <2>2 DEF TermTypes, TaskState
  <2>8. \A i \in 1 .. Len(toNode) : toNode[i] # "attach"
    BY <1>0, <1>5 DEF AttachesOnce
  <2>9. AttachesOnce'
    BY <1>0, <1>1, <1>5, <2>8 DEF AttachesOnce, Unseen
  <2> QED
    BY <1>0, <1>1, <1>5, <2>6, <2>7, <2>9 DEF TermInv, TermOrder
<1>6. ASSUME task = "streaming", TaskEnds, toControl' = Append(toControl, Dead)
      PROVE  TermInv'
  <2>1. Dead \in Msg /\ ~Drawn(Dead)
    BY MsgShapes
  <2>2. /\ toControl' \in Seq(Msg) /\ Rising(toControl')
        /\ Undrawn(toControl) => Undrawn(toControl')
    BY <1>2, <1>6, <2>1, PutLast
  <2>3. /\ Len(toControl') = Len(toControl) + 1 /\ Len(toControl) \in Nat
        /\ toControl'[Len(toControl) + 1] = Dead
        /\ \A i \in 1 .. Len(toControl) : toControl'[i] = toControl[i]
    BY <1>2, <1>6, <2>1, AppendProperties, LenProperties
  <2>4. \A lo, hi : Between(toControl, lo, hi) => Between(toControl', lo, hi)
    BY <2>1, <2>3 DEF Between
  <2> QED
    BY <1>1, <1>6, <2>2, <2>4, TaskEndStep
<1>7. ASSUME task = "streaming", queue # <<>>, toControl' = Append(toControl, Head(queue)),
             queue' = Tail(queue), UNCHANGED <<task, rendered, holders, canceled>>
      PROVE  TermInv'
  <2>1. /\ Head(queue) \in Msg /\ Head(queue).n \in Nat /\ queue' \in Seq(Msg) /\ Rising(queue')
    BY <1>2, <1>7, TakeFirst, MsgFields
  <2>2. PICK a \in 0 .. pumped, b \in 0 .. pumped, c \in 0 .. pumped :
           /\ screen <= a /\ a <= b /\ b <= c
           /\ Between(inbox, screen, a) /\ Between(toControl, a, b) /\ Between(queue, b, c)
           /\ Beyond => ChunksOver(frames, c)
    BY <1>0 DEF Lined
  <2>3. /\ Between(queue', b, c)
        /\ Drawn(Head(queue)) => /\ b < Head(queue).n /\ Head(queue).n <= c
                                 /\ Between(queue', Head(queue).n, c)
    BY <1>2, <1>7, <2>2, TakeLeaves
  <2>4. \E d \in b .. c : /\ Between(queue', d, c)
                          /\ Drawn(Head(queue)) => b < Head(queue).n /\ Head(queue).n <= d
    BY <2>1, <2>2, <2>3
  <2>5. PICK d \in b .. c : /\ Between(queue', d, c)
                            /\ Drawn(Head(queue)) => b < Head(queue).n /\ Head(queue).n <= d
    BY <2>4
  <2>6. Between(toControl', a, d) /\ Rising(toControl') /\ toControl' \in Seq(Msg)
    <3>1. a \in Nat /\ b \in Nat /\ d \in Nat /\ b <= d
      BY <1>2, <2>2
    <3> QED
      BY <1>2, <1>7, <2>1, <2>2, <2>5, <3>1, PutBehind, PutLast
  <2>7. d \in 0 .. pumped /\ a <= d /\ d <= c
    BY <1>2, <2>2
  <2>8. Lined(screen, inbox, toControl', queue', frames, pumped, Beyond)
    BY <1>2, <2>1, <2>2, <2>5, <2>6, <2>7 DEF Lined
  <2>9. TermTypes'
    BY <1>0, <1>1, <1>7, <2>1, <2>6 DEF TermTypes
  <2>10. \A i \in 1 .. Len(toNode) : toNode[i] # "attach"
    BY <1>0, <1>7 DEF AttachesOnce
  <2>11. AttachesOnce' /\ Beyond' = Beyond
    BY <1>0, <1>1, <1>7, <2>10 DEF AttachesOnce, Unseen, Beyond
  <2> QED
    BY <1>0, <1>1, <1>7, <2>8, <2>9, <2>11 DEF TermInv, TermOrder
<1>8. CASE SnapshotTimeout
  <2>1. /\ task = "asking" /\ task' = "snapped" /\ rendered' = 0
        /\ UNCHANGED <<holders, queue, canceled, toControl>>
    BY <1>8 DEF SnapshotTimeout
  <2>2. TermTypes'
    BY <1>0, <1>1, <2>1 DEF TermTypes, TaskState
  <2>3. \A i \in 1 .. Len(toNode) : toNode[i] # "attach"
    BY <1>0, <2>1 DEF AttachesOnce
  <2>4. AttachesOnce' /\ ~Beyond /\ ~Beyond'
    BY <1>0, <1>1, <1>2, <2>1, <2>3 DEF AttachesOnce, Unseen, Beyond
  <2> QED
    BY <1>0, <1>1, <2>1, <2>2, <2>4 DEF TermInv, TermOrder, Lined
<1>9. CASE SendSnapshot
  BY <1>3, <1>4, <1>9 DEF SendSnapshot
<1>10. CASE SendReady
  BY <1>3, <1>5, <1>10 DEF SendReady, Emit
<1>11. CASE StreamStep
  BY <1>3, <1>6, <1>7, <1>11 DEF StreamStep, Emit
<1> QED
  BY <1>8, <1>9, <1>10, <1>11

\* Commands to the node: a detach may be added behind what is there.
LEMMA DetachAdded ==
  ASSUME TermTypes, toNode' = Append(toNode, "detach") \/ toNode' = toNode
  PROVE  /\ toNode' \in Seq({"attach", "detach"})
         /\ \A i \in 1 .. Len(toNode') : toNode'[i] = "attach" =>
              i \in 1 .. Len(toNode) /\ toNode[i] = "attach"
<1>1. toNode \in Seq({"attach", "detach"}) /\ "detach" \in {"attach", "detach"}
  BY DEF TermTypes
<1>2. CASE toNode' = Append(toNode, "detach")
  <2>1. /\ toNode' \in Seq({"attach", "detach"}) /\ Len(toNode') = Len(toNode) + 1
        /\ Len(toNode) \in Nat /\ toNode'[Len(toNode) + 1] = "detach"
        /\ \A i \in 1 .. Len(toNode) : toNode'[i] = toNode[i]
    BY <1>1, <1>2, AppendProperties, LenProperties
  <2> QED
    BY <2>1
<1> QED
  BY <1>1, <1>2

\* Control and the browser change the end of the line: what they leave of the
\* inbox and of the connection lies as before.
LEMMA BrowserEnd ==
  ASSUME TermInv, UNCHANGED <<wireVars, attachTaskVars>>,
         toNode' \in Seq({"attach", "detach"}), tab' \in {"new", "open", "closed"},
         tab' = "new" => tab = "new" /\ toNode' = <<>> /\ toControl' = <<>> /\ ~stream',
         stream' \in BOOLEAN, linked' \in BOOLEAN, screen' \in Nat,
         inbox' \in Seq(Msg), toControl' \in Seq(Msg), Len(inbox') <= QueueCap,
         \A i \in 1 .. Len(toNode') : toNode'[i] = "attach" => i = 1 /\ task = "none" /\ Unseen,
         Unseen => Unseen',
         Lined(screen', inbox', toControl', queue, frames, pumped, Beyond)
  PROVE  TermInv'
<1>0. TermTypes /\ FramesOf(frames, pumped) /\ AttachesOnce
  BY DEF TermInv, TermOrder
<1>1. UNCHANGED <<printed, shell, pumped, frames, asked, holders, task, rendered, queue, canceled>>
  BY DEF wireVars, attachTaskVars
<1>2. TermTypes'
  BY <1>0, <1>1 DEF TermTypes
<1>3. AttachesOnce' /\ Beyond' = Beyond
  BY <1>0, <1>1 DEF AttachesOnce, Beyond
<1> QED
  BY <1>0, <1>1, <1>2, <1>3 DEF TermInv, TermOrder

\* The tab opens.
LEMMA OpenStep ==
  ASSUME TermInv, OpenTab
  PROVE  TermInv'
<1>0. TermTypes /\ AttachesOnce /\ Lined(screen, inbox, toControl, queue, frames, pumped, Beyond)
  BY DEF TermInv, TermOrder
<1>1. /\ tab = "new" /\ tab' = "open" /\ stream' = TRUE /\ toNode' = Append(toNode, "attach")
      /\ UNCHANGED <<wireVars, attachTaskVars, toControl, inbox, screen, linked>>
  BY DEF OpenTab
<1>2. toNode = <<>> /\ task = "none" /\ Unseen
  BY <1>0, <1>1 DEF AttachesOnce
<1>3. toNode' = <<"attach">>
  BY <1>1, <1>2
<1>4. toNode' \in Seq({"attach", "detach"}) /\ Len(toNode') = 1
  BY <1>3
<1>5. Unseen'
  BY <1>1, <1>2 DEF Unseen
<1> QED
  BY <1>0, <1>1, <1>2, <1>4, <1>5, BrowserEnd DEF TermTypes

\* Control takes an event off the connection.
LEMMA ReceiveStep ==
  ASSUME TermInv, ControlReceives
  PROVE  TermInv'
<1> DEFINE m == Head(toControl)
<1>0. TermTypes /\ AttachesOnce /\ Lined(screen, inbox, toControl, queue, frames, pumped, Beyond)
  BY DEF TermInv, TermOrder
<1>1. /\ toControl \in Seq(Msg) /\ inbox \in Seq(Msg) /\ toControl # <<>> /\ toControl' = Tail(toControl)
      /\ UNCHANGED <<wireVars, attachTaskVars, tab, screen, linked>>
      /\ screen \in Nat /\ pumped \in Nat /\ QueueCap \in Nat
  BY <1>0, TerminalAssumption DEF ControlReceives, TermTypes
<1>2. /\ m \in Msg /\ m.n \in Nat /\ toControl' \in Seq(Msg)
      /\ Undrawn(toControl) => Undrawn(toControl') /\ ~Drawn(m)
      /\ Rising(inbox) /\ Rising(toControl) /\ Rising(queue) /\ Rising(toControl')
  BY <1>0, <1>1, TakeFirst, MsgFields DEF Lined
<1>3. /\ stream' \in BOOLEAN /\ linked' \in BOOLEAN
      /\ toNode' = Append(toNode, "detach") \/ toNode' = toNode
      /\ inbox' = inbox \/ (stream /\ Len(inbox) < QueueCap /\ inbox' = Append(inbox, m))
  BY <1>0, <1>1 DEF ControlReceives, SendDetach, TermTypes
<1>4. /\ toNode' \in Seq({"attach", "detach"})
      /\ \A i \in 1 .. Len(toNode') : toNode'[i] = "attach" => i = 1 /\ task = "none" /\ Unseen
  BY <1>0, <1>3, DetachAdded DEF AttachesOnce
<1>5. tab # "new" /\ tab' \in {"open", "closed"}
  BY <1>0, <1>1 DEF AttachesOnce, TermTypes
<1>6. PICK a \in 0 .. pumped, b \in 0 .. pumped, c \in 0 .. pumped :
         /\ screen <= a /\ a <= b /\ b <= c
         /\ Between(inbox, screen, a) /\ Between(toControl, a, b) /\ Between(queue, b, c)
         /\ Beyond => ChunksOver(frames, c)
  BY <1>0 DEF Lined
<1>7. /\ Between(toControl', a, b)
      /\ Drawn(m) => a < m.n /\ m.n <= b /\ Between(toControl', m.n, b)
  BY <1>1, <1>2, <1>6, TakeLeaves
<1>8. CASE inbox' = inbox
  <2>1. Lined(screen, inbox, toControl', queue, frames, pumped, Beyond)
    BY <1>2, <1>6, <1>7 DEF Lined
  <2>2. Unseen => Unseen'
    BY <1>1, <1>2, <1>8 DEF Unseen
  <2> QED
    BY <1>0, <1>1, <1>2, <1>3, <1>4, <1>5, <1>8, <2>1, <2>2, BrowserEnd DEF TermTypes
<1>9. CASE Len(inbox) < QueueCap /\ inbox' = Append(inbox, m)
  <2>1. PICK d \in a .. b : /\ Between(toControl', d, b)
                            /\ Drawn(m) => a < m.n /\ m.n <= d
    <3>1. CASE Drawn(m)
      <4>1. m.n \in a .. b
        BY <1>1, <1>2, <1>6, <1>7, <3>1
      <4> QED
        BY <1>2, <1>7, <3>1, <4>1
    <3>2. CASE ~Drawn(m)
      <4>1. a \in a .. b
        BY <1>1, <1>6
      <4> QED
        BY <1>7, <3>2, <4>1
    <3> QED
      BY <3>1, <3>2
  <2>2. Between(inbox', screen, d) /\ Rising(inbox') /\ inbox' \in Seq(Msg)
        /\ Len(inbox') = Len(inbox) + 1 /\ Len(inbox) \in Nat
        /\ (Undrawn(inbox) /\ ~Drawn(m) => Undrawn(inbox'))
    <3>1. a \in Nat /\ d \in Nat /\ a <= d
      BY <1>1, <1>6
    <3> QED
      BY <1>1, <1>2, <1>6, <1>9, <2>1, <3>1, PutBehind, PutLast, LenProperties
  <2>3. d \in 0 .. pumped /\ screen <= d /\ d <= b
    BY <1>1, <1>6
  <2>4. Lined(screen, inbox', toControl', queue, frames, pumped, Beyond)
    BY <1>2, <1>6, <2>1, <2>2, <2>3 DEF Lined
  <2>5. Unseen => Unseen'
    BY <1>1, <1>2, <2>2 DEF Unseen
  <2>6. Len(inbox') <= QueueCap
    BY <1>1, <1>9, <2>2
  <2> QED
    BY <1>0, <1>1, <1>2, <1>3, <1>4, <1>5, <2>2, <2>4, <2>5, <2>6, BrowserEnd DEF TermTypes
<1> QED
  BY <1>3, <1>8, <1>9

\* The tab draws what comes, or closes.
LEMMA TabStep ==
  ASSUME TermInv, TabReads \/ TabGone
  PROVE  TermInv' /\ (screen' # screen => screen' > screen)
<1>0. TermTypes /\ AttachesOnce /\ Lined(screen, inbox, toControl, queue, frames, pumped, Beyond)
  BY DEF TermInv, TermOrder
<1>1. /\ toControl \in Seq(Msg) /\ inbox \in Seq(Msg) /\ tab = "open" /\ toControl' = toControl
      /\ UNCHANGED <<wireVars, attachTaskVars, linked>>
      /\ screen \in Nat /\ pumped \in Nat /\ QueueCap \in Nat
      /\ Rising(inbox) /\ Rising(toControl) /\ Rising(queue)
  BY <1>0, TerminalAssumption DEF TabReads, TabGone, TermTypes, Lined
<1>2. PICK a \in 0 .. pumped, b \in 0 .. pumped, c \in 0 .. pumped :
         /\ screen <= a /\ a <= b /\ b <= c
         /\ Between(inbox, screen, a) /\ Between(toControl, a, b) /\ Between(queue, b, c)
         /\ Beyond => ChunksOver(frames, c)
  BY <1>0 DEF Lined
<1>3. ASSUME CloseTab, screen' = screen
      PROVE  TermInv'
  <2>1. /\ tab' = "closed" /\ stream' = FALSE /\ inbox' = <<>>
        /\ toNode' = Append(toNode, "detach") \/ toNode' = toNode
    BY <1>3 DEF CloseTab, SendDetach
  <2>2. /\ toNode' \in Seq({"attach", "detach"})
        /\ \A i \in 1 .. Len(toNode') : toNode'[i] = "attach" => i = 1 /\ task = "none" /\ Unseen
    BY <1>0, <2>1, DetachAdded DEF AttachesOnce
  <2>3. Undrawn(inbox') /\ inbox' \in Seq(Msg) /\ Len(inbox') <= QueueCap
    BY <1>1, <2>1, EmptyIsUndrawn, EmptySeq
  <2>4. Lined(screen, inbox', toControl, queue, frames, pumped, Beyond)
    BY <1>1, <1>2, <2>3, UndrawnIsLined DEF Lined
  <2>5. Unseen => Unseen'
    BY <1>1, <1>3, <2>3 DEF Unseen
  <2> QED
    BY <1>0, <1>1, <1>3, <2>1, <2>2, <2>3, <2>4, <2>5, BrowserEnd DEF TermTypes
<1>4. ASSUME inbox # <<>>, Head(inbox).kind \in {"snapshot", "output", "ready"}, inbox' = Tail(inbox),
             screen' = (IF Head(inbox).kind = "ready" THEN screen ELSE Head(inbox).n),
             UNCHANGED <<tab, stream, toNode>>
      PROVE  TermInv' /\ (screen' # screen => screen' > screen)
  <2> DEFINE m == Head(inbox)
  <2>1. /\ m \in Msg /\ m.n \in Nat /\ inbox' \in Seq(Msg) /\ Len(inbox') = Len(inbox) - 1
        /\ Undrawn(inbox) => Undrawn(inbox') /\ ~Drawn(m)
        /\ Rising(inbox') /\ Len(inbox) \in Nat
    BY <1>1, <1>4, TakeFirst, MsgFields, LenProperties
  <2>2. /\ Between(inbox', screen, a)
        /\ Drawn(m) => screen < m.n /\ m.n <= a /\ Between(inbox', m.n, a)
    BY <1>1, <1>2, <1>4, TakeLeaves
  <2>3. (screen' = screen /\ ~Drawn(m)) \/ (Drawn(m) /\ screen' = m.n)
    BY <1>4 DEF Drawn
  <2>4. screen' \in Nat /\ screen' <= a /\ Between(inbox', screen', a)
        /\ (screen' # screen => screen' > screen)
    BY <1>1, <1>2, <2>1, <2>2, <2>3
  <2>5. Lined(screen', inbox', toControl, queue, frames, pumped, Beyond)
    BY <1>1, <1>2, <2>1, <2>4 DEF Lined
  <2>6. Unseen => Unseen'
    BY <1>1, <2>1, <2>3 DEF Unseen
  <2>7. Len(inbox') <= QueueCap
    BY <1>0, <1>1, <2>1 DEF TermTypes
  <2>8. \A i \in 1 .. Len(toNode') : toNode'[i] = "attach" => i = 1 /\ task = "none" /\ Unseen
    BY <1>0, <1>4 DEF AttachesOnce
  <2> QED
    BY <1>0, <1>1, <1>4, <2>1, <2>4, <2>5, <2>6, <2>7, <2>8, BrowserEnd DEF TermTypes
<1>5. CASE TabGone
  BY <1>3, <1>5 DEF TabGone
<1>6. CASE TabReads
  BY <1>3, <1>4, <1>6 DEF TabReads
<1> QED
  BY <1>5, <1>6

\* The connection ends, or an older one is taken down late.
LEMMA UnlinkSteps ==
  ASSUME TermInv, Unlink \/ StaleTeardown
  PROVE  TermInv'
<1>0. TermTypes /\ AttachesOnce /\ Lined(screen, inbox, toControl, queue, frames, pumped, Beyond)
  BY DEF TermInv, TermOrder
<1>1. /\ toControl \in Seq(Msg) /\ inbox \in Seq(Msg)
      /\ UNCHANGED <<wireVars, attachTaskVars, tab, screen>>
      /\ screen \in Nat /\ pumped \in Nat /\ QueueCap \in Nat
      /\ Rising(inbox) /\ Rising(toControl) /\ Rising(queue)
  BY <1>0, TerminalAssumption DEF Unlink, StaleTeardown, TermTypes, Lined
<1>2. PICK a \in 0 .. pumped, b \in 0 .. pumped, c \in 0 .. pumped :
         /\ screen <= a /\ a <= b /\ b <= c
         /\ Between(inbox, screen, a) /\ Between(toControl, a, b) /\ Between(queue, b, c)
         /\ Beyond => ChunksOver(frames, c)
  BY <1>0 DEF Lined
<1>3. /\ linked' \in BOOLEAN
      /\ \/ toControl' = <<>> /\ toNode' = <<>>
         \/ toControl' = toControl /\ toNode' = toNode
  BY <1>0 DEF Unlink, StaleTeardown, TermTypes
<1>4. /\ toControl' \in Seq(Msg) /\ toNode' \in Seq({"attach", "detach"}) /\ Rising(toControl')
      /\ Between(toControl', a, b) /\ (Undrawn(toControl) => Undrawn(toControl'))
      /\ \A i \in 1 .. Len(toNode') : toNode'[i] = "attach" => i = 1 /\ task = "none" /\ Unseen
      /\ tab = "new" => toNode' = <<>> /\ toControl' = <<>>
  <2>1. CASE toControl' = <<>> /\ toNode' = <<>>
    BY <2>1, EmptySeq, EmptyIsUndrawn, UndrawnIsLined
  <2>2. CASE toControl' = toControl /\ toNode' = toNode
    BY <1>0, <1>1, <1>2, <2>2 DEF AttachesOnce, TermTypes
  <2> QED
    BY <1>3, <2>1, <2>2
<1>5. /\ TellStreams /\ stream' \in BOOLEAN
      /\ ~stream => ~stream'
      /\ inbox' = inbox \/ (Len(inbox) < QueueCap /\ inbox' = Append(inbox, Disconnected))
  BY <1>0 DEF Unlink, StaleTeardown, TellStreams, TermTypes
<1>6. /\ inbox' \in Seq(Msg) /\ Rising(inbox') /\ Between(inbox', screen, a)
      /\ Len(inbox') <= QueueCap /\ (Undrawn(inbox) => Undrawn(inbox'))
  <2>1. CASE inbox' = inbox
    BY <1>0, <1>1, <1>2, <2>1 DEF TermTypes
  <2>2. CASE Len(inbox) < QueueCap /\ inbox' = Append(inbox, Disconnected)
    <3>1. Disconnected \in Msg /\ ~Drawn(Disconnected) /\ Len(inbox) \in Nat
      BY <1>1, MsgShapes, LenProperties
    <3>2. /\ inbox' \in Seq(Msg) /\ Rising(inbox') /\ Len(inbox') = Len(inbox) + 1
          /\ (Undrawn(inbox) => Undrawn(inbox'))
      BY <1>1, <2>2, <3>1, PutLast
    <3>3. Between(inbox', screen, a)
      BY <1>1, <1>2, <2>2, <3>1, PutBehind
    <3> QED
      BY <1>1, <2>2, <3>1, <3>2, <3>3
  <2> QED
    BY <1>5, <2>1, <2>2
<1>7. Lined(screen, inbox', toControl', queue, frames, pumped, Beyond)
  BY <1>1, <1>2, <1>4, <1>6 DEF Lined
<1>8. Unseen => Unseen'
  BY <1>1, <1>4, <1>6 DEF Unseen
<1>9. tab' = "new" => tab = "new" /\ toNode' = <<>> /\ toControl' = <<>> /\ ~stream'
  BY <1>0, <1>1, <1>4, <1>5 DEF AttachesOnce
<1> QED
  BY <1>0, <1>1, <1>3, <1>4, <1>5, <1>6, <1>7, <1>8, <1>9, BrowserEnd DEF TermTypes

\* Every step of a terminal keeps the line, and only a tab that reads draws.
LEMMA TermStep ==
  ASSUME TermInv, [TermNext]_termVars
  PROVE  TermInv' /\ (screen' # screen => screen' > screen)
<1>1. ASSUME ShellPrints \/ ShellEnds \/ Pump \/ Render \/ ReportExit \/ LinkReads \/ ManagerDrops
             \/ NodeCommand \/ SendSnapshot \/ SendReady \/ StreamStep \/ SnapshotTimeout
             \/ ControlReceives \/ OpenTab \/ Unlink \/ StaleTeardown
      PROVE  screen' = screen
  BY <1>1 DEF ShellPrints, ShellEnds, Pump, Render, ReportExit, LinkReads, ManagerDrops,
     NodeCommand, SendSnapshot, SendReady, StreamStep, SnapshotTimeout, ControlReceives, OpenTab,
     Unlink, StaleTeardown, controlSide
<1>2. CASE ShellPrints \/ ShellEnds \/ Pump \/ Render \/ ReportExit
  BY <1>1, <1>2, DevenvSteps
<1>3. CASE LinkReads
  BY <1>1, <1>3, LinkStep
<1>4. CASE ManagerDrops \/ NodeCommand
  BY <1>1, <1>4, NodeSteps
<1>5. CASE SendSnapshot \/ SendReady \/ StreamStep \/ SnapshotTimeout
  BY <1>1, <1>5, TaskSteps
<1>6. CASE ControlReceives
  BY <1>1, <1>6, ReceiveStep
<1>7. CASE OpenTab
  BY <1>1, <1>7, OpenStep
<1>8. CASE TabReads \/ TabGone
  BY <1>8, TabStep
<1>9. CASE Unlink \/ StaleTeardown
  BY <1>1, <1>9, UnlinkSteps
<1>10. CASE UNCHANGED termVars
  <2>1. /\ UNCHANGED <<printed, shell, pumped, frames, asked, holders, task, rendered, queue, canceled>>
        /\ UNCHANGED <<toControl, toNode, stream, inbox, tab, screen, linked>>
    BY <1>10 DEF termVars, wireVars, attachTaskVars, controlSide
  <2> QED
    BY <2>1 DEF TermInv, TermTypes, TermOrder, AttachesOnce, Unseen, Beyond
<1> QED
  BY <1>2, <1>3, <1>4, <1>5, <1>6, <1>7, <1>8, <1>9, <1>10 DEF TermNext, TermWork

\* TerminalFaithful: keystrokes reach the shell in the order they were typed and
\* none is skipped, however envelopes are fragmented and whatever requests run
\* beside them; and a tab that joins a running shell draws nothing twice
\* (node_protocol/client.rs, node_runtime/mod.rs).
THEOREM TerminalsAreFaithful == Spec => TerminalFaithful
<1>1. Init => WireInv /\ TermInv
  BY WireStarts, TermStarts DEF Init
<1>2. [Next]_workbenchVars => [WireNext]_wireState /\ [TermNext]_termVars
  BY DEF Next, OthersRest, workbenchVars
<1>3. WireInv /\ TermInv /\ [Next]_workbenchVars => WireInv' /\ TermInv'
  BY <1>2, WireStep, TermStep
<1>4. WireInv => InputInOrder
  BY LenProperties DEF WireInv, WireTypes, WireOrder, InputInOrder
<1>5. TermInv /\ [Next]_workbenchVars => [screen' # screen => screen' > screen]_termVars
  BY <1>2, TermStep
<1> QED
  BY <1>1, <1>3, <1>4, <1>5, PTL DEF Spec, TerminalFaithful, NothingDrawnTwice

-----------------------------------------------------------------------------
(***************************************************************************)
(* Types.  Those of most parts are in their invariants; the five below     *)
(* need more: bounds that hold because of the order of the steps.          *)
(***************************************************************************)

\* What is granted names a scope and a secret, and an edit a secret's variables.
GrantRow(g) == g.scope \in Scope /\ g.secret \in Secret
GrantRows ==
  /\ stored \in [Secret -> SUBSET EnvVar] /\ repo \in Repo
  /\ editing = NoEdit \/ (editing.secret \in Secret /\ editing.vars \in SUBSET EnvVar)
  /\ \A g \in grants \cup unlocking : GrantRow(g)

\* Unlocks, edits and expiries keep the rows typed.
LEMMA GrantRowsStep == GrantRows /\ [GrantsNext]_grantVars => GrantRows'
<1> SUFFICES ASSUME GrantRows, [GrantsNext]_grantVars PROVE GrantRows'
  OBVIOUS
<1>0. GrantRows
  OBVIOUS
<1>1. ASSUME NEW s \in Secret, DeleteSecret(s) PROVE GrantRows'
  BY <1>0, <1>1 DEF GrantRows, DeleteSecret
<1>2. ASSUME NEW s \in Secret, NEW named \in SUBSET EnvVar, NEW blank \in SUBSET named,
             UpsertRead(s, named, blank)
      PROVE  GrantRows'
  <2>1. editing'.secret = s /\ editing'.vars = named
    BY <1>2 DEF UpsertRead
  <2> QED
    BY <1>0, <1>2, <2>1 DEF GrantRows, UpsertRead
<1>3. ASSUME UpsertWrite PROVE GrantRows'
  BY <1>0, <1>3 DEF GrantRows, UpsertWrite
<1>4. ASSUME NEW c \in Scope, NEW s \in Secret, UnlockRevokes(c, s) PROVE GrantRows'
  <2> DEFINE u == [id |-> unlocks + 1, scope |-> c, secret |-> s, replaced |-> Addressed(c, s)]
  <2>1. GrantRow(u)
    BY DEF GrantRow
  <2>2. unlocking' = unlocking \cup {u} /\ UNCHANGED <<stored, editing, grants, repo>>
    BY <1>4 DEF UnlockRevokes
  <2> HIDE DEF u
  <2> QED
    BY <1>0, <2>1, <2>2 DEF GrantRows
<1>5. ASSUME NEW u \in unlocking, UnlockCommits(u) PROVE GrantRows'
  <2> DEFINE given == [id |-> u.id, scope |-> u.scope, secret |-> u.secret]
  <2>1. GrantRow(given)
    BY <1>0 DEF GrantRow, GrantRows
  <2>2. /\ grants' \subseteq grants \cup {given} /\ unlocking' \subseteq unlocking
        /\ UNCHANGED <<stored, editing, repo>>
    BY <1>5 DEF UnlockCommits
  <2> HIDE DEF given
  <2> QED
    BY <1>0, <2>1, <2>2 DEF GrantRows
<1>6. ASSUME NEW c \in Scope, NEW s \in Secret, RevokeGrant(c, s) PROVE GrantRows'
  BY <1>0, <1>6 DEF GrantRows, RevokeGrant
<1>7. ASSUME NEW g \in grants, Expire(g) PROVE GrantRows'
  BY <1>0, <1>7 DEF GrantRows, Expire
<1>8. ASSUME NEW r \in Repo, RegisterRepo(r) PROVE GrantRows'
  BY <1>0, <1>8 DEF GrantRows, RegisterRepo
<1>9. ASSUME UNCHANGED <<stored, editing, grants, unlocking, repo>> PROVE GrantRows'
  BY <1>0, <1>9 DEF GrantRows
<1>10. CASE RevokeCredential \/ UseReads \/ UseAnswers \/ RedeemEnds
  BY <1>9, <1>10 DEF RevokeCredential, UseReads, UseAnswers, RedeemEnds
<1>11. ASSUME NEW p \in Programs, UseBegin(p) PROVE GrantRows'
  BY <1>9, <1>11 DEF UseBegin
<1>12. ASSUME NEW s \in Secret, UseAudits(s) PROVE GrantRows'
  BY <1>9, <1>12 DEF UseAudits
<1>13. CASE UNCHANGED grantVars
  BY <1>9, <1>13 DEF grantVars
<1> QED
  BY <1>1, <1>2, <1>3, <1>4, <1>5, <1>6, <1>7, <1>8, <1>10, <1>11, <1>12, <1>13 DEF GrantsNext

\* A row is matched with a turn that is shown, and only turns taken are shown.
Matched ==
  /\ sent \in Seq(PromptRow) /\ shown \in Nat /\ Len(took) \in Nat /\ shown <= Len(took)
  /\ DOMAIN took = 1 .. Len(took)
  /\ \A i \in Prompts : sent[i].turn <= shown

\* A row rewritten with the turn it had.
LEMMA TurnsKept ==
  ASSUME sent \in Seq(PromptRow), sent' \in Seq(PromptRow), NEW i \in Prompts, NEW entry, entry.turn = sent[i].turn,
         DOMAIN sent' = DOMAIN sent, \A j \in DOMAIN sent : sent'[j] = IF j = i THEN entry ELSE sent[j],
         Matched, shown' = shown, Len(took') \in Nat, Len(took') >= Len(took), DOMAIN took' = 1 .. Len(took')
  PROVE  Matched'
<1>1. Len(sent) \in Nat /\ Len(sent') \in Nat /\ DOMAIN sent = 1 .. Len(sent) /\ DOMAIN sent' = 1 .. Len(sent')
  OBVIOUS
<1>2. Len(sent') = Len(sent)
  BY <1>1
<1>3. \A j \in Prompts : sent'[j].turn = sent[j].turn
  BY <1>1 DEF Prompts
<1> QED
  BY <1>2, <1>3 DEF Matched, Prompts

\* Turns are only added, and shown one by one.
LEMMA MatchedStep == PromptInv /\ PromptInv' /\ Matched /\ [PromptNext]_promptVars => Matched'
<1> SUFFICES ASSUME PromptInv, PromptInv', Matched, [PromptNext]_promptVars PROVE Matched'
  OBVIOUS
<1>0. /\ sent \in Seq(PromptRow) /\ sent' \in Seq(PromptRow) /\ shown \in Nat
      /\ Len(took) \in Nat /\ shown <= Len(took) /\ Len(took') \in Nat /\ shown' \in Nat
      /\ DOMAIN took = 1 .. Len(took)
      /\ \A i \in Prompts : sent[i].turn <= shown
  BY DEF PromptInv, Matched
<1>r. \A i \in Prompts : sent[i] \in PromptRow /\ sent[i].turn \in Nat
  <2>1. \A i \in 1 .. Len(sent) : sent[i] \in PromptRow
    BY <1>0
  <2>2. \A x \in PromptRow : x.turn \in Nat
    BY DEF PromptRow
  <2> QED
    BY <2>1, <2>2 DEF Prompts
<1>1. ASSUME NEW t \in Text, Record(t) PROVE Matched'
  BY <1>0, <1>1 DEF Record, Matched, Prompts
<1>2. ASSUME NEW i \in Prompts, Paste(i) PROVE Matched'
  <2> DEFINE entry == [sent[i] EXCEPT !.at = "enter"]
  <2>1. entry.turn = sent[i].turn
    BY <1>r DEF PromptRow
  <2>2. DOMAIN sent' = DOMAIN sent /\ (\A j \in DOMAIN sent : sent'[j] = IF j = i THEN entry ELSE sent[j]) /\ shown' = shown
    BY <1>2 DEF Paste
  <2>3. Len(took') \in Nat /\ Len(took') >= Len(took) /\ DOMAIN took' = 1 .. Len(took')
    BY <1>0, <1>2 DEF Paste
  <2> HIDE DEF entry
  <2> QED
    BY <1>0, <2>1, <2>2, <2>3, TurnsKept
<1>3. ASSUME NEW i \in Prompts, Enter(i) PROVE Matched'
  <2> DEFINE entry == [sent[i] EXCEPT !.at = "done"]
  <2>1. entry.turn = sent[i].turn
    BY <1>r DEF PromptRow
  <2>2. DOMAIN sent' = DOMAIN sent /\ (\A j \in DOMAIN sent : sent'[j] = IF j = i THEN entry ELSE sent[j]) /\ shown' = shown
    BY <1>3 DEF Enter
  <2>3. Len(took') \in Nat /\ Len(took') >= Len(took) /\ DOMAIN took' = 1 .. Len(took')
    BY <1>0, <1>3 DEF Enter
  <2> HIDE DEF entry
  <2> QED
    BY <1>0, <2>1, <2>2, <2>3, TurnsKept
<1>4. ASSUME NEW i \in Prompts, DeliveryFails(i) PROVE Matched'
  <2> DEFINE entry == [sent[i] EXCEPT !.at = "done", !.failed = TRUE]
  <2>1. entry.turn = sent[i].turn
    BY <1>r DEF PromptRow
  <2>2. DOMAIN sent' = DOMAIN sent /\ (\A j \in DOMAIN sent : sent'[j] = IF j = i THEN entry ELSE sent[j]) /\ shown' = shown
    BY <1>4 DEF DeliveryFails
  <2>3. Len(took') \in Nat /\ Len(took') >= Len(took) /\ DOMAIN took' = 1 .. Len(took')
    BY <1>0, <1>4 DEF DeliveryFails
  <2> HIDE DEF entry
  <2> QED
    BY <1>0, <2>1, <2>2, <2>3, TurnsKept
<1>5. ASSUME NEW i \in Prompts, Dismiss(i) PROVE Matched'
  <2> DEFINE entry == [sent[i] EXCEPT !.dismissed = TRUE]
  <2>1. entry.turn = sent[i].turn
    BY <1>r DEF PromptRow
  <2>2. DOMAIN sent' = DOMAIN sent /\ (\A j \in DOMAIN sent : sent'[j] = IF j = i THEN entry ELSE sent[j]) /\ shown' = shown
    BY <1>5 DEF Dismiss
  <2>3. Len(took') \in Nat /\ Len(took') >= Len(took) /\ DOMAIN took' = 1 .. Len(took')
    BY <1>0, <1>5 DEF Dismiss
  <2> HIDE DEF entry
  <2> QED
    BY <1>0, <2>1, <2>2, <2>3, TurnsKept
<1>6. ASSUME NEW t \in Text, Typed(t) PROVE Matched'
  BY <1>0, <1>6 DEF Typed, Matched, Prompts
<1>7. CASE Project
  BY <1>0, <1>7, <1>r DEF Project, Matched, Prompts
<1>8. CASE Reconcile
  <2> DEFINE won(i) == \E t \in 1 .. shown : Wins(i, t)
             turn(i) == CHOOSE t \in 1 .. shown : Wins(i, t)
  <2>1. /\ sent' = [i \in Prompts |-> IF won(i) THEN [sent[i] EXCEPT !.turn = turn(i)] ELSE sent[i]]
        /\ UNCHANGED <<took, shown>>
    BY <1>8 DEF Reconcile
  <2>2. \A i \in Prompts : won(i) => turn(i) \in 1 .. shown
    OBVIOUS
  <2> HIDE DEF won, turn
  <2>3. \A i \in Prompts : sent'[i].turn = IF won(i) THEN turn(i) ELSE sent[i].turn
    BY <2>1, <1>r DEF PromptRow
  <2>4. \A i \in Prompts : sent'[i].turn <= shown
    BY <1>0, <1>r, <2>2, <2>3
  <2>5. Prompts' = Prompts
    BY <1>0, <2>1 DEF Prompts
  <2> QED
    BY <1>0, <2>1, <2>4, <2>5 DEF Matched
<1>9. CASE UNCHANGED promptVars
  BY <1>0, <1>9 DEF promptVars, Matched, Prompts
<1> QED
  BY <1>1, <1>2, <1>3, <1>4, <1>5, <1>6, <1>7, <1>8, <1>9 DEF PromptNext

\* A print or a reading in hand is one of the states of the tree, none newer
\* than its successor, and revisions count the prints.
Newer(x, y) == x.tree <= y.tree /\ (x.tree = y.tree => x = y)
TreeState == [tree : -1 .. MaxChange, branch : HeadBranch \cup {Off}]
StatusRows ==
  /\ changes \in 0 .. MaxChange
  /\ work \in TreeState /\ work.tree = changes /\ work.branch \in HeadBranch
  /\ seen \in TreeState /\ row.print \in TreeState
  /\ Newer(seen, work) /\ Newer(row.print, work)
  /\ seen # Nothing => Newer(row.print, seen) /\ seen.tree >= 0
  /\ row.revision \in 0 .. row.print.tree + 1
  /\ dirty \in -1 .. MaxChange /\ checking \in HeadBranch \cup {Off}
  /\ client.revision >= -1 /\ loading >= -1

\* A pass stores a newer state of the tree or none.
LEMMA StatusRowsStep == StatusInv /\ StatusRows /\ [StatusNext]_statusVars => StatusRows'
<1> SUFFICES ASSUME StatusInv, StatusRows, [StatusNext]_statusVars PROVE StatusRows'
  OBVIOUS
<1>0. StatusInv /\ StatusRows /\ MaxChange \in Nat
  BY StatusAssumption
<1>1. ASSUME NEW b \in HeadBranch, Work(b) PROVE StatusRows'
  BY <1>0, <1>1 DEF Work, StatusRows, TreeState, Newer, Nothing
<1>2. ASSUME ReadStatus PROVE StatusRows'
  BY <1>0, <1>2 DEF ReadStatus, StatusRows, TreeState, Newer, Nothing
<1>3. ASSUME StoreStatus PROVE StatusRows'
  <2>1. Nothing \in TreeState /\ Newer(Nothing, work)
    BY <1>0 DEF Nothing, TreeState, StatusRows, Newer
  <2>2. CASE seen = row.print
    BY <1>0, <1>3, <2>1, <2>2 DEF StoreStatus, StatusRows
  <2>3. CASE seen # row.print
    <3>1. row'.print = seen /\ row'.revision = row.revision + 1 /\ dirty' = seen.tree /\ seen' = Nothing
      BY <1>0, <1>3, <2>3 DEF StoreStatus, StatusInv
    <3>2. row.print.tree < seen.tree /\ seen.tree \in 0 .. MaxChange /\ row.print.tree \in -1 .. MaxChange
      BY <1>0, <1>3, <2>3 DEF StoreStatus, StatusRows, Newer, TreeState
    <3> QED
      BY <1>0, <1>3, <2>1, <3>1, <3>2 DEF StoreStatus, StatusRows
  <2> QED
    BY <2>2, <2>3
<1>4. ASSUME StatusFails PROVE StatusRows'
  BY <1>0, <1>4 DEF StatusFails, StatusRows, TreeState, Newer, Nothing
<1>5. ASSUME Rename PROVE StatusRows'
  BY <1>0, <1>5 DEF Rename, StatusRows
<1>6. ASSUME LoadRevision \/ LoadPaths \/ CheckCi PROVE StatusRows'
  BY <1>0, <1>6 DEF LoadRevision, LoadPaths, CheckCi, StatusRows, StatusInv, TreeState, Off
<1>7. ASSUME StoreRun PROVE StatusRows'
  <2>1. row'.print = row.print /\ row'.revision = row.revision
    BY <1>0, <1>7 DEF StoreRun, StatusInv
  <2> QED
    BY <1>0, <1>7, <2>1 DEF StoreRun, StatusRows
<1>8. CASE UNCHANGED statusVars
  BY <1>0, <1>8 DEF statusVars, StatusRows
<1> QED
  BY <1>1, <1>2, <1>3, <1>4, <1>5, <1>6, <1>7, <1>8 DEF StatusNext

\* Attempts are marked with their deployment, and credit goes to counted ones.
DoraRows ==
  /\ deployed = checkedRuns /\ counted \subseteq deployed /\ uncounted \subseteq deployed
  /\ credit \in [Commit -> Deploy \cup {0}]
  /\ \A c \in Commit : credit[c] = 0 \/ credit[c] \in counted

\* A pass cut short leaves deployments and attempts in step.
LEMMA DoraRowsStep == DoraInv' /\ DoraRows /\ [DoraNext]_doraVars => DoraRows'
<1> SUFFICES ASSUME DoraInv', DoraRows, [DoraNext]_doraVars PROVE DoraRows'
  OBVIOUS
<1>0. DoraRows /\ credit' \in [Commit -> Deploy \cup {0}]
  BY DEF DoraInv
<1>1. ASSUME NEW d \in Deploy, NEW c \in Commit, Ship(d, c) PROVE DoraRows'
  BY <1>0, <1>1 DEF Ship, DoraRows
<1>2. ASSUME NEW d \in Deploy, RunCompletes(d) \/ StoreDeployment(d) PROVE DoraRows'
  BY <1>0, <1>2 DEF RunCompletes, StoreDeployment, DoraRows
<1>3. CASE RequestFails \/ PauseEnds \/ CountBegins \/ CountFails
  BY <1>0, <1>3 DEF RequestFails, PauseEnds, CountBegins, CountFails, DoraRows
<1>4. ASSUME Count PROVE DoraRows'
  <2>1. PICK d \in uncounted :
          /\ credit' = [c \in Commit |->
                IF c \in Since(d) /\ (credit[c] = 0 \/ credit[c] > d) THEN d ELSE credit[c]]
          /\ counted' = counted \cup {d} /\ uncounted' = uncounted \ {d}
          /\ UNCHANGED <<checkedRuns, deployed>>
    BY <1>4 DEF Count
  <2> QED
    BY <1>0, <2>1 DEF DoraRows
<1>5. CASE UNCHANGED doraVars
  BY <1>0, <1>5 DEF doraVars, DoraRows
<1> QED
  BY <1>1, <1>2, <1>3, <1>4, <1>5 DEF DoraNext

\* The files and the attempt of the node name processes and certificates.
Slip == [digest : 0 .. MaxRelease, by : Ctl \cup {NoCtl}]
Attempt == [step : TryStep, peer : Ctl \cup {NoCtl}, cert : Cert \cup {NoCert}]
EnrollFiles ==
  /\ pinKey \in Ctl \cup {NoCtl}
  /\ pinCert \in Cert \cup {NoCert} /\ runCopy \in Cert \cup {NoCert}
  /\ delivered \in Slip /\ envDigest \in 0 .. MaxRelease
  /\ try \in Attempt /\ (try.step # "idle" => try.peer \in Ctl)
  /\ mishaps \in 0 .. MaxCrash

\* An attempt takes what it writes from the process it dialed.
LEMMA EnrollFilesStep == EnrollInv /\ EnrollFiles /\ [EnrollNext]_enrollVars => EnrollFiles'
<1> SUFFICES ASSUME EnrollInv, EnrollFiles, [EnrollNext]_enrollVars PROVE EnrollFiles'
  OBVIOUS
<1>0. EnrollFiles /\ MaxCrash \in Nat /\ MaxRelease \in Nat
  BY EnrollAssumption
<1>c. /\ ctl \in [Ctl -> CtlRow]
      /\ \A p \in Ctl : /\ ctl[p].key \in Ctl \cup {NoCtl} /\ ctl[p].cert \in Cert \cup {NoCert}
                        /\ ctl[p].rel \in 0 .. MaxRelease
  <2>1. ctl \in [Ctl -> CtlRow]
    BY DEF EnrollInv, EnrollTypes
  <2>2. \A x \in CtlRow : /\ x.key \in Ctl \cup {NoCtl} /\ x.cert \in Cert \cup {NoCert}
                          /\ x.rel \in 0 .. MaxRelease
    BY DEF CtlRow
  <2> QED
    BY <2>1, <2>2
<1>n. NoTry \in Attempt /\ NoTry.step = "idle"
  BY DEF NoTry, Attempt, TryStep
<1>s. ASSUME NEW st \in TryStep, try.peer \in Ctl
      PROVE  /\ [try EXCEPT !.step = st] \in Attempt
             /\ [try EXCEPT !.step = st].peer \in Ctl
  BY <1>0, <1>s DEF EnrollFiles, Attempt
<1>1. ASSUME NEW p \in Ctl, ControlStep(p) PROVE EnrollFiles'
  <2>1. UNCHANGED <<fileVars, try, mishaps>>
    BY <1>1 DEF ControlStep, StartControl, MakeIdentity, LoadTls, MakeTls, RereadTls
  <2> QED
    BY <1>0, <2>1 DEF EnrollFiles, fileVars
<1>2. ASSUME NewRelease PROVE EnrollFiles'
  BY <1>0, <1>2, <1>n DEF NewRelease, EnrollFiles, fileVars
<1>3. CASE Redeploy \/ Reinstall
  BY <1>2, <1>3 DEF Redeploy, Reinstall
<1>4. ASSUME NEW p \in Ctl, ControlCrash(p) PROVE EnrollFiles'
  <2>1. mishaps' \in 0 .. MaxCrash /\ UNCHANGED fileVars /\ try' \in {try, NoTry}
    BY <1>0, <1>4 DEF ControlCrash, EnrollFault, EnrollFiles
  <2> QED
    BY <1>0, <1>n, <2>1 DEF EnrollFiles, fileVars
<1>5. ASSUME UNCHANGED <<fileVars, try, mishaps>> PROVE EnrollFiles'
  BY <1>0, <1>5 DEF EnrollFiles, fileVars
<1>6. CASE Approve
  BY <1>5, <1>6 DEF Approve
<1>7. ASSUME NEW p \in Ctl, DialControl(p) PROVE EnrollFiles'
  <2>1. try' \in Attempt /\ try'.peer = p
    BY <1>7, <1>c DEF DialControl, Attempt, TryStep
  <2> QED
    BY <1>0, <1>7, <2>1 DEF DialControl, EnrollFiles, fileVars
<1>8. ASSUME VerifyPin PROVE EnrollFiles'
  <2>1. try.peer \in Ctl
    BY <1>0, <1>8 DEF VerifyPin, EnrollFiles
  <2>2. pinKey' \in {pinKey, ctl[try.peer].key} /\ try' \in {NoTry, [try EXCEPT !.step = "paired"]}
    BY <1>8 DEF VerifyPin
  <2>3. UNCHANGED <<pinCert, runCopy, delivered, envDigest, mishaps>>
    BY <1>8 DEF VerifyPin
  <2>4. "paired" \in TryStep
    BY DEF TryStep
  <2> QED
    BY <1>0, <1>c, <1>n, <1>s, <2>1, <2>2, <2>3, <2>4 DEF EnrollFiles
<1>9. ASSUME BindTls PROVE EnrollFiles'
  <2>1. try.peer \in Ctl /\ try.cert \in Cert \cup {NoCert}
    BY <1>0, <1>9 DEF BindTls, EnrollFiles, Attempt
  <2>2. /\ pinCert' \in {pinCert, try.cert}
        /\ \/ try' = NoTry
           \/ \E st \in {"certified", "bound"} : try' = [try EXCEPT !.step = st]
    BY <1>9 DEF BindTls
  <2>3. UNCHANGED <<pinKey, runCopy, delivered, envDigest, mishaps>>
    BY <1>9 DEF BindTls
  <2>4. "certified" \in TryStep /\ "bound" \in TryStep
    BY DEF TryStep
  <2> QED
    BY <1>0, <1>n, <1>s, <2>1, <2>2, <2>3, <2>4 DEF EnrollFiles
<1>10. ASSUME CopyCert PROVE EnrollFiles'
  <2>1. try.peer \in Ctl /\ try.cert \in Cert \cup {NoCert}
    BY <1>0, <1>10 DEF CopyCert, EnrollFiles, Attempt
  <2>2. "bound" \in TryStep
    BY DEF TryStep
  <2> QED
    BY <1>0, <1>10, <1>s, <2>1, <2>2 DEF EnrollFiles, CopyCert
<1>11. ASSUME TakeConfig PROVE EnrollFiles'
  <2>1. try.peer \in Ctl
    BY <1>0, <1>11 DEF TakeConfig, EnrollFiles
  <2>2. [digest |-> ctl[try.peer].rel, by |-> ctl[try.peer].key] \in Slip
    BY <1>c, <2>1 DEF Slip
  <2>3. /\ delivered' = delivered \/ delivered' = [digest |-> ctl[try.peer].rel, by |-> ctl[try.peer].key]
        /\ \/ try' = NoTry
           \/ \E st \in {"ready", "waiting"} : try' = [try EXCEPT !.step = st]
    BY <1>11 DEF TakeConfig
  <2>4. "ready" \in TryStep /\ "waiting" \in TryStep
    BY DEF TryStep
  <2>5. UNCHANGED <<pinKey, pinCert, runCopy, envDigest, mishaps>>
    BY <1>11 DEF TakeConfig
  <2> QED
    BY <1>0, <1>n, <1>s, <2>1, <2>2, <2>3, <2>4, <2>5 DEF EnrollFiles
<1>12. ASSUME ConfigTimeout PROVE EnrollFiles'
  <2>1. try.peer \in Ctl
    BY <1>0, <1>12 DEF ConfigTimeout, EnrollFiles
  <2>2. "ready" \in TryStep
    BY DEF TryStep
  <2>3. mishaps' \in 0 .. MaxCrash
    BY <1>0, <1>12 DEF ConfigTimeout, EnrollFault, EnrollFiles
  <2> QED
    BY <1>0, <1>12, <1>s, <2>1, <2>2, <2>3 DEF EnrollFiles, ConfigTimeout, fileVars
<1>13. CASE PollAgain
  BY <1>0, <1>n, <1>13 DEF PollAgain, EnrollFiles, fileVars
<1>14. ASSUME Activate PROVE EnrollFiles'
  <2>1. envDigest' \in 0 .. MaxRelease
    BY <1>0, <1>14 DEF Activate, EnrollFiles, Slip
  <2> QED
    BY <1>0, <1>n, <1>14, <2>1 DEF Activate, EnrollFiles
<1>15. ASSUME NodeCrash \/ Unpin PROVE EnrollFiles'
  <2>1. mishaps' \in 0 .. MaxCrash
    BY <1>0, <1>15 DEF NodeCrash, Unpin, EnrollFault, EnrollFiles
  <2> QED
    BY <1>0, <1>n, <1>15, <2>1 DEF NodeCrash, Unpin, EnrollFiles, fileVars
<1>16. CASE UNCHANGED enrollVars
  BY <1>5, <1>16 DEF enrollVars
<1> QED
  BY <1>1, <1>3, <1>4, <1>6, <1>7, <1>8, <1>9, <1>10, <1>11, <1>12, <1>13, <1>14, <1>15, <1>16
     DEF EnrollNext, NodeStep

\* What the wire and the tab know gives their types.
LEMMA TerminalTypes ==
  /\ WireInv => WireTypeOK
  /\ TermInv => TermTypeOK
<1>1. ASSUME WireInv PROVE WireTypeOK
  <2>0. WireTypes /\ Whole(wire) /\ Gathered(wire, groups)
    BY <1>1 DEF WireInv, WireOrder
  <2>1. Sent \subseteq Envelope
    BY WireAssumption DEF Sent, Envelope
  <2>2. outbound \in Seq(Envelope)
    BY <2>0, <2>1 DEF WireTypes
  <2>3. \A i \in 1 .. Len(wire) : wire[i] \in FrameSet
    BY <2>0 DEF WireTypes
  <2>4. \A i \in DOMAIN wire : wire[i].e \in Sent /\ wire[i].index \in Nat /\ wire[i].index < wire[i].e.parts
    <3>1. DOMAIN wire = 1 .. Len(wire)
      BY <2>0 DEF WireTypes
    <3> QED
      BY <2>0, <2>3, <3>1 DEF FrameSet, Whole
  <2>5. \A g \in groups : g.e \in Envelope /\ g.have \subseteq 0 .. g.e.parts - 1
    <3> SUFFICES ASSUME NEW g \in groups PROVE g.e \in Envelope /\ g.have \subseteq 0 .. g.e.parts - 1
      OBVIOUS
    <3>1. wire # <<>> /\ g = [e |-> wire[1].e, have |-> 0 .. wire[1].index - 1]
      BY <2>0 DEF Gathered
    <3>2. 1 \in DOMAIN wire
      BY <2>0, <3>1 DEF WireTypes
    <3>3. g.e = wire[1].e /\ g.have = 0 .. wire[1].index - 1 /\ wire[1].e \in Sent
          /\ wire[1].index \in Nat /\ wire[1].index < wire[1].e.parts
      BY <2>4, <3>1, <3>2
    <3>4. wire[1].e.parts \in Nat
      BY <3>3, SentFields
    <3> QED
      BY <2>1, <3>3, <3>4
  <2> QED
    BY <2>0, <2>1, <2>2, <2>4, <2>5 DEF WireTypes, WireTypeOK
<1>2. ASSUME TermInv PROVE TermTypeOK
  <2>0. TermTypes /\ MaxChunk \in Nat /\ Lined(screen, inbox, toControl, queue, frames, pumped, Beyond)
    BY <1>2, TerminalAssumption DEF TermInv, TermOrder
  <2>1. screen <= pumped
    BY <2>0 DEF Lined, TermTypes
  <2> QED
    BY <2>0, <2>1 DEF TermTypes, TermTypeOK
<1> QED
  BY <1>1, <1>2

\* So do the plans.
LEMMA PlansTyped == PlansInv => PlansTypeOK
<1> SUFFICES ASSUME PlansInv PROVE PlansTypeOK
  OBVIOUS
<1>1. ASSUME NEW p \in PlanIds
      PROVE  /\ plan[p].status \in OpenStatus \cup ClosedStatus \cup {"none"}
             /\ plan[p].parent \in 0 .. (p - 1) /\ plan[p].depth \in 0 .. MaxBranchDepth
             /\ \A i \in Phases(p) : phase[p][i].status \in PhaseStatus
             /\ plan[p].parent # 0 => anchor[p] \subseteq Phases(plan[p].parent)
  <2>1. plan[p] \in PlanRow /\ plan[p].parent < p /\ p \in Nat
    BY <1>1, PlansAssumption DEF PlansInv, PlanTree, PlanIds
  <2>2. PICK n \in Nat : Numbered(phase[p], n)
    BY <1>1 DEF PlansInv, PlanPhases
  <2>3. \A i \in Phases(p) : phase[p][i].status \in PhaseStatus
    BY <2>2 DEF Numbered, Phases, PhaseRow
  <2> QED
    BY <1>1, <2>1, <2>3 DEF PlanRow, PlansInv, PlanAnchors
<1> QED
  BY <1>1 DEF PlansInv, PlanTerminals, PlansTypeOK

\* And the parts whose invariants name their types.
LEMMA PartsTyped ==
  /\ AuthInv => AuthTypeOK
  /\ UseInv => UseTypeOK
  /\ BindingInv => BindingTypeOK
  /\ GuardInv => GuardTypeOK
  /\ RepoInv => RepoTypeOK
  /\ PgInv => PgTypeOK
<1>1. AuthInv => AuthTypeOK
  BY DEF AuthInv, AuthTypes, AuthTypeOK
<1>2. UseInv => UseTypeOK
  BY DEF UseInv, UseTypes, UseTypeOK
<1>3. BindingInv => BindingTypeOK
  BY DEF BindingInv, BindingTypes, BindingTypeOK, ActivityRow
<1>4. GuardInv => GuardTypeOK
  BY DEF GuardInv, GuardTypeOK
<1>5. RepoInv => RepoTypeOK
  BY DEF RepoInv, RepoTypes, RepoTypeOK, RepoTree, RepoSession
<1>6. PgInv => PgTypeOK
  BY DEF PgInv, PgInvOf, PgTypes, PgTypeOK, BoxSet, CallSet
<1> QED
  BY <1>1, <1>2, <1>3, <1>4, <1>5, <1>6

\* And those that needed more.
LEMMA RowsTyped ==
  /\ GrantsInv /\ GrantRows => GrantsTypeOK
  /\ PromptInv /\ Matched => PromptTypeOK
  /\ StatusInv /\ StatusRows => StatusTypeOK
  /\ DoraInv /\ DoraRows => DoraTypeOK
  /\ EnrollInv /\ EnrollFiles => EnrollTypeOK
<1>1. GrantsInv /\ GrantRows => GrantsTypeOK
  BY DEF GrantsInv, UseRows, GrantRows, GrantRow, GrantsTypeOK
<1>2. PromptInv /\ Matched => PromptTypeOK
  <2>1. \A x \in PromptRow : x.turn \in Nat /\ x.at \in {"paste", "enter", "done"}
    BY DEF PromptRow
  <2> QED
    BY <2>1 DEF Matched, PromptTypeOK, Prompts
<1>3. StatusInv /\ StatusRows => StatusTypeOK
  BY StatusAssumption DEF StatusInv, StatusRows, StatusTypeOK, TreeState
<1>4. DoraInv /\ DoraRows => DoraTypeOK
  BY DEF DoraRows, DoraTypeOK
<1>5. EnrollInv /\ EnrollFiles => EnrollTypeOK
  BY DEF EnrollInv, EnrollTypes, CtlRow, EnrollFiles, Slip, Attempt, EnrollTypeOK
<1> QED
  BY <1>1, <1>2, <1>3, <1>4, <1>5

\* The rows are typed at first.
LEMMA RowsStart ==
  /\ GrantsInit => GrantsInv /\ GrantRows
  /\ PromptInit => PromptInv /\ Matched
  /\ StatusInit => StatusInv /\ StatusRows
  /\ DoraInit => DoraInv /\ DoraRows
  /\ EnrollInit => EnrollInv /\ EnrollFiles
<1>1. GrantsInit => GrantsInv /\ GrantRows
  BY DEF GrantsInit, GrantsInv, UseRows, AuditFollows, NoUse, GrantRows, Repo
<1>2. PromptInit => PromptInv /\ Matched
  BY PromptStarts DEF PromptInit, Matched, Prompts
<1>3. StatusInit => StatusInv /\ StatusRows
  BY StatusStarts, StatusAssumption DEF StatusInit, StatusRows, TreeState, Newer, Nothing
<1>4. DoraInit => DoraInv /\ DoraRows
  BY DoraStarts DEF DoraInit, DoraRows
<1>5. EnrollInit => EnrollInv /\ EnrollFiles
  BY EnrollStarts, EnrollAssumption DEF EnrollInit, EnrollFiles, Slip, Attempt, NoTry, TryStep
<1> QED
  BY <1>1, <1>2, <1>3, <1>4, <1>5

\* WorkbenchTypeOK: the variables of every part stay within their types, with
\* the bounds that follow from the order of the steps: a listing's revision
\* counts the states of the tree, no prompt is matched with a turn that is not
\* shown, a commit is credited to a deployment that was counted.
THEOREM WorkbenchIsTyped == Spec => []WorkbenchTypeOK
<1> DEFINE Inv ==
      /\ WireInv /\ TermInv /\ PgInv /\ EnrollInv /\ EnrollFiles
      /\ focus = "plans" => PlansInv
      /\ focus = "binding" => BindingInv
      /\ focus = "guard" => GuardInv
      /\ focus = "prompts" => PromptInv /\ Matched
      /\ focus = "repos" => RepoInv
      /\ focus = "status" => StatusInv /\ StatusRows
      /\ focus = "dora" => DoraInv /\ DoraRows
      /\ focus = "grants" => GrantsInv /\ GrantRows
      /\ focus = "use" => UseInv
      /\ focus = "auth" => AuthInv
<1>1. Init => Inv
  BY WireStarts, TermStarts, PgStarts, PlansStart, BindingStarts, GuardStarts, RepoStarts,
     UseStarts, AuthStarts, RowsStart DEF Init
<1>2. Inv /\ [Next]_workbenchVars => Inv'
  <2> SUFFICES ASSUME Inv, [Next]_workbenchVars PROVE Inv'
    OBVIOUS
  <2>1. WireInv' /\ TermInv'
    <3>1. [WireNext]_wireState /\ [TermNext]_termVars
      BY DEF Next, OthersRest, workbenchVars
    <3> QED
      BY <3>1, WireStep, TermStep
  <2>2. PgInv'
    BY PgFocus, PgStepKeeps
  <2>3. EnrollInv' /\ EnrollFiles'
    BY EnrollAlone, EnrollStep, EnrollFilesStep
  <2>4. focus' = "plans" => PlansInv'
    BY PlansFocus, PlansStep
  <2>5. focus' = "binding" => BindingInv'
    BY BindingFocus, BindingStep
  <2>6. focus' = "guard" => GuardInv'
    BY GuardFocus, GuardStep
  <2>7. focus' = "prompts" => PromptInv' /\ Matched'
    BY PromptFocus, PromptStep, MatchedStep
  <2>8. focus' = "repos" => RepoInv'
    BY RepoFocus, RepoStep
  <2>9. focus' = "status" => StatusInv' /\ StatusRows'
    BY StatusFocus, StatusStep, StatusRowsStep
  <2>10. focus' = "dora" => DoraInv' /\ DoraRows'
    BY DoraFocus, DoraStep, DoraRowsStep
  <2>11. focus' = "grants" => GrantsInv' /\ GrantRows'
    <3> SUFFICES ASSUME focus' = "grants" PROVE GrantsInv' /\ GrantRows'
      OBVIOUS
    <3>1. focus = "grants" /\ [GrantsNext]_grantVars
      BY DEF Next, OthersRest, workbenchVars
    <3> QED
      BY <3>1, GrantsStep, GrantRowsStep
  <2>12. focus' = "use" => UseInv'
    BY UseFocus, UseStep
  <2>13. focus' = "auth" => AuthInv'
    BY AuthFocus, AuthStep
  <2> QED
    BY <2>1, <2>2, <2>3, <2>4, <2>5, <2>6, <2>7, <2>8, <2>9, <2>10, <2>11, <2>12, <2>13
<1>3. Inv => WorkbenchTypeOK
  BY TerminalTypes, PlansTyped, PartsTyped, RowsTyped DEF WorkbenchTypeOK
<1> QED
  BY <1>1, <1>2, <1>3, PTL DEF Spec

=============================================================================
