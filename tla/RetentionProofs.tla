--------------------------- MODULE RetentionProofs ---------------------------
(***************************************************************************)
(* Proofs about Retention, for every number of sessions, lines, crashes,   *)
(* refused statements, cycles and requests.                                *)
(***************************************************************************)
EXTENDS Retention, FiniteSetTheorems, TLAPS

-----------------------------------------------------------------------------
(* Sets of lines.                                                          *)

\* Sets of line numbers are finite, so the COUNT(*) of a session is a number.
LEMMA LinesFinite ==
    ASSUME NEW S \in SUBSET Line
    PROVE  IsFiniteSet(S) /\ Cardinality(S) \in Nat
<1>1. IsFiniteSet(Line)
  BY FS_Interval, StoreAssumption DEF Line
<1> QED
  BY <1>1, FS_Subset, FS_CardinalityType

\* Equal counts of a part and the whole mean the part is the whole: what
\* purge_session's comparison of archive_events with COUNT(*) rests on.
LEMMA SameCount ==
    ASSUME NEW S \in SUBSET Line, NEW T \in SUBSET S, Cardinality(T) = Cardinality(S)
    PROVE  T = S
BY LinesFinite, FS_Subset

\* A replay always has a next line.
LEMMA SmallestIn ==
    ASSUME NEW S \in SUBSET Nat, S # {}
    PROVE  Smallest(S) \in S
<1> DEFINE R == OpToRel(<, Nat)
<1>1. PICK x \in S : \A y \in S : <<y, x>> \notin R
  <2>1. IsWellFoundedOn(R, Nat)
    BY NatLessThanWellFounded
  <2> QED
    BY <2>1, WFMin
<1>2. \A y \in S : x <= y
  <2> SUFFICES ASSUME NEW y \in S PROVE x <= y
    OBVIOUS
  <2>1. ~(y < x)
    BY <1>1 DEF OpToRel
  <2> QED
    BY <2>1
<1> QED
  BY <1>2 DEF Smallest

\* A batch that loaded events has a last one.
LEMMA LastIn ==
    ASSUME NEW S \in SUBSET Line, S # {}
    PROVE  Last(S) \in S
<1> DEFINE R == OpToRel(<, Nat)
           D == {d \in Nat : \E n \in S : d = MaxLines - n}
<1>0. MaxLines \in Nat
  BY StoreAssumption
<1>1. PICK x \in D : \A y \in D : <<y, x>> \notin R
  <2>1. IsWellFoundedOn(R, Nat)
    BY NatLessThanWellFounded
  <2>2. D # {}
    <3>1. PICK n \in S : TRUE
      OBVIOUS
    <3>2. MaxLines - n \in Nat
      BY <1>0 DEF Line
    <3> QED
      BY <3>2
  <2>3. D \subseteq Nat
    OBVIOUS
  <2> HIDE DEF D, R
  <2> QED
    BY <2>1, <2>2, <2>3, WFMin
<1>2. PICK n \in S : x = MaxLines - n
  OBVIOUS
<1>3. \A m \in S : m <= n
  <2> SUFFICES ASSUME NEW m \in S PROVE m <= n
    OBVIOUS
  <2>1. MaxLines - m \in D
    BY <1>0 DEF Line
  <2>2. ~(MaxLines - m < x)
    BY <1>1, <2>1 DEF OpToRel
  <2> QED
    BY <1>0, <1>2, <2>2 DEF Line
<1> QED
  BY <1>3 DEF Last

-----------------------------------------------------------------------------
(* Type correctness.                                                       *)

\* One batch leaves the session's timeline state well-typed.
LEMMA BatchType ==
    ASSUME NEW s \in Session, StoreType, ProjectBatch(s)
    PROVE  /\ turns' \in [Session -> SUBSET Line]
           /\ through' \in [Session -> 0 .. MaxLines]
           /\ version' \in [Session -> Versions]
<1>0. MaxLines \in Nat
  BY StoreAssumption
<1>1. BatchLoaded(s) \in SUBSET Line
  BY DEF BatchLoaded, NextEvents, StoreType
<1>2. BatchBase(s) \in SUBSET Line
  BY DEF BatchBase, StoreType
<1>3. BatchCursor(s) \in 0 .. MaxLines
  BY <1>0 DEF BatchCursor, StoreType
<1>4. BatchLoaded(s) # {} => Last(BatchLoaded(s)) \in 0 .. MaxLines
  BY <1>0, <1>1, LastIn DEF Line
<1> QED
  BY <1>1, <1>2, <1>3, <1>4 DEF ProjectBatch, StoreType, Versions

\* Line by line, an insert keeps rows and history well-typed.
LEMMA InsertType ==
    ASSUME NEW s \in Session, NEW n \in Line, StoreType, InsertEvent(s, n)
    PROVE  /\ events' \in [Session -> SUBSET Line]
           /\ exposed' \in [Session -> SUBSET Windows]
BY DEF InsertEvent, StoreType, Windows

\* Recording a window keeps the history well-typed.
LEMMA ExposeType ==
    ASSUME NEW s \in Session, NEW w \in Windows, StoreType, Expose(s, w)
    PROVE  exposed' \in [Session -> SUBSET Windows]
BY DEF Expose, StoreType

\* Recovery appends distinct sessions.
LEMMA RecoverType ==
    ASSUME queue \in Seq(Session), NEW q \in WithOwed(queue)
    PROVE  q \in Seq(Session)
<1> DEFINE new == {s \in Owed : ~\E i \in DOMAIN queue : queue[i] = s}
<1>1. new \subseteq Session
  BY DEF Owed
<1>2. Cardinality(new) \in Nat
  BY <1>1, StoreAssumption, FS_Subset, FS_CardinalityType
<1>3. PICK p \in [1 .. Cardinality(new) -> new] : q = queue \o p
  BY DEF WithOwed
<1>4. p \in Seq(Session)
  BY <1>1, <1>2, <1>3
<1> QED
  BY <1>3, <1>4

\* ProjectionQueue::push keeps a queue of sessions.
LEMMA PushType ==
    ASSUME NEW q \in Seq(Session), NEW s \in Session
    PROVE  Push(q, s) \in Seq(Session)
BY DEF Push

USE DEF dbVars, rowVars, archiveVars, usageVars, timelineVars, requestVars,
        nodeVars, workerVars, boundVars

\* A step that leaves the store alone leaves it well-typed.
LEMMA StoreFrame ==
    ASSUME StoreType, UNCHANGED <<dbVars, requestVars, faults>>
    PROVE  StoreType'
BY DEF StoreType

\* The same when a refusal is counted.
LEMMA StoreFault ==
    ASSUME StoreType, Fault, UNCHANGED <<rowVars, requestVars>>,
           exposed' \in [Session -> SUBSET Windows]
    PROVE  StoreType'
BY StoreAssumption DEF StoreType, Fault

\* The local state of a tick.
TickRecord == [pc : IngestPc, s : Session \cup {NoSession},
               next : 0 .. MaxLines, len : 0 .. MaxLines, first : 0 .. MaxLines]

\* The tick's part of the worker's type, when the rest is untouched.
LEMMA TickFrame ==
    ASSUME WorkerType, UNCHANGED <<prj, queue>>,
           ing' \in TickRecord, ing'.pc # "idle", ing'.s \in Session,
           missed' \in [Session -> SUBSET Line]
    PROVE  WorkerType'
BY DEF WorkerType, TickRecord

\* The end of a tick.
LEMMA TickEnds ==
    ASSUME WorkerType, UNCHANGED <<prj, missed>>, queue' \in Seq(Session), ing' = IngIdle
    PROVE  WorkerType'
BY StoreAssumption DEF WorkerType, IngIdle, IngestPc

\* The projection loop's part of it.
LEMMA ProjectionFrame ==
    ASSUME WorkerType, UNCHANGED <<ing, missed>>, queue' \in Seq(Session),
           \/ prj' = PrjIdle
           \/ \E s \in Session : prj' = [pc |-> "batch", s |-> s]
    PROVE  WorkerType'
BY StoreAssumption DEF WorkerType, PrjIdle

\* The ingest loop's steps.
LEMMA IngestTypeStep ==
    ASSUME StoreType, WorkerType, IngestStep
    PROVE  StoreType' /\ WorkerType'
<1> USE StoreAssumption
<1>1. ASSUME NEW s \in Session, ScanFile(s) PROVE StoreType' /\ WorkerType'
  <2>1. /\ ing' \in TickRecord /\ ing'.pc # "idle" /\ ing'.s \in Session
    BY <1>1 DEF ScanFile, TickRecord, IngestPc, StoreType
  <2>2. missed' \in [Session -> SUBSET Line]
    BY <1>1 DEF ScanFile, WorkerType
  <2> QED
    BY <1>1, <2>1, <2>2, StoreFrame, TickFrame DEF ScanFile
<1>2. ASSUME CheckPurged PROVE StoreType' /\ WorkerType'
  <2>1. /\ ing' \in TickRecord /\ ing'.pc # "idle" /\ ing'.s \in Session
    BY <1>2 DEF CheckPurged, TickRecord, IngestPc, WorkerType
  <2>2. missed' \in [Session -> SUBSET Line]
    BY <1>2 DEF CheckPurged, WorkerType
  <2> QED
    BY <1>2, <2>1, <2>2, StoreFrame, TickFrame DEF CheckPurged
<1>3. ASSUME DeferPurged PROVE StoreType' /\ WorkerType'
  <2>1. [scope |-> ing.s, again |-> FALSE] \in Request
    BY <1>3 DEF DeferPurged, WorkerType, Request
  <2>2. pending' \in Seq(Request)
    BY <1>3, <2>1 DEF DeferPurged, StoreType
  <2>3. StoreType'
    BY <1>3, <2>2 DEF DeferPurged, StoreType
  <2>4. queue' \in Seq(Session)
    BY <1>3 DEF DeferPurged, WorkerType
  <2> QED
    BY <1>3, <2>3, <2>4, TickEnds DEF DeferPurged
<1>4. ASSUME InsertLine PROVE StoreType' /\ WorkerType'
  <2>1. ing.s \in Session /\ ing.next + 1 \in Line /\ InsertEvent(ing.s, ing.next + 1)
    BY <1>4 DEF InsertLine, WorkerType, Line
  <2>2. events' \in [Session -> SUBSET Line] /\ exposed' \in [Session -> SUBSET Windows]
    BY <2>1, InsertType
  <2>3. StoreType'
    BY <1>4, <2>2 DEF InsertLine, StoreType
  <2>4. missed' \in [Session -> SUBSET Line]
    BY <1>4, <2>1 DEF InsertLine, WorkerType
  <2>5. ing.next + 1 \in 0 .. MaxLines
    BY <2>1 DEF Line
  <2>6. /\ ing' \in TickRecord /\ ing'.pc # "idle" /\ ing'.s \in Session
    BY <1>4, <2>1, <2>5 DEF InsertLine, WorkerType, TickRecord, IngestPc
  <2> QED
    BY <1>4, <2>3, <2>4, <2>6, TickFrame DEF InsertLine
<1>5. ASSUME CommitOffset PROVE StoreType' /\ WorkerType'
  <2>1. StoreType'
    BY <1>5 DEF CommitOffset, StoreType, WorkerType
  <2>2. /\ ing' \in TickRecord /\ ing'.pc # "idle" /\ ing'.s \in Session
    BY <1>5 DEF CommitOffset, TickRecord, IngestPc, WorkerType
  <2>3. missed' \in [Session -> SUBSET Line]
    BY <1>5 DEF CommitOffset, WorkerType
  <2> QED
    BY <1>5, <2>1, <2>2, <2>3, TickFrame DEF CommitOffset
<1>6. ASSUME FinishFile PROVE StoreType' /\ WorkerType'
  <2>1. ing.s \in Session
    BY <1>6 DEF FinishFile, WorkerType
  <2>2. queue' \in Seq(Session)
    BY <1>6, <2>1, PushType DEF FinishFile, WorkerType
  <2>3. Marked(ing.s) \in Versions
    BY DEF Marked, Versions
  <2>4. version' \in [Session -> Versions]
    BY <1>6, <2>1, <2>3 DEF FinishFile, StoreType, RequestRebuild
  <2>5. StoreType'
    BY <1>6, <2>4 DEF FinishFile, StoreType
  <2> QED
    BY <1>6, <2>2, <2>5, TickEnds DEF FinishFile
<1> QED
  BY <1>1, <1>2, <1>3, <1>4, <1>5, <1>6 DEF IngestStep

\* The projection loop's steps.
LEMMA ProjectionTypeStep ==
    ASSUME StoreType, WorkerType, ProjectionStep
    PROVE  StoreType' /\ WorkerType'
<1>1. ASSUME Recover PROVE StoreType' /\ WorkerType'
  <2>1. queue' \in Seq(Session)
    BY <1>1, RecoverType DEF Recover, WorkerType
  <2> QED
    BY <1>1, <2>1, StoreFrame, ProjectionFrame DEF Recover
<1>2. ASSUME TakeProjection PROVE StoreType' /\ WorkerType'
  <2>1. Head(queue) \in Session /\ queue' \in Seq(Session)
    BY <1>2 DEF TakeProjection, WorkerType
  <2> QED
    BY <1>2, <2>1, StoreFrame, ProjectionFrame DEF TakeProjection
<1>3. ASSUME RunBatch PROVE StoreType' /\ WorkerType'
  <2>1. prj.s \in Session /\ ProjectBatch(prj.s)
    BY <1>3 DEF RunBatch, WorkerType
  <2>2. StoreType'
    BY <1>3, <2>1, BatchType DEF RunBatch, StoreType
  <2>3. queue' \in Seq(Session)
    BY <1>3, <2>1, PushType DEF RunBatch, WorkerType
  <2> QED
    BY <1>3, <2>2, <2>3, ProjectionFrame DEF RunBatch
<1> QED
  BY <1>1, <1>2, <1>3 DEF ProjectionStep

\* A tick that is abandoned.
LEMMA AbandonType ==
    ASSUME StoreType, WorkerType, Abandon
    PROVE  exposed' \in [Session -> SUBSET Windows]
<1>1. CASE ing.first # 0
  <2>1. ing.s \in Session
    BY <1>1 DEF WorkerType, IngIdle
  <2> QED
    BY <1>1, <2>1, ExposeType DEF Abandon, Windows
<1>2. CASE ing.first = 0
  BY <1>2 DEF Abandon, StoreType
<1> QED
  BY <1>1, <1>2

\* Refusals and the death of the ingester.
LEMMA WorkerFaultTypeStep ==
    ASSUME StoreType, WorkerType, IngestFault \/ ProjectionFault \/ NodeCrash
    PROVE  StoreType' /\ WorkerType'
<1> USE StoreAssumption
<1>0. /\ exposed \in [Session -> SUBSET Windows]
      /\ queue \in Seq(Session)
  BY DEF StoreType, WorkerType
<1>1. ASSUME InsertRefused PROVE StoreType' /\ WorkerType'
  <2>1. ing.s \in Session /\ ing.next + 1 \in Line
    BY <1>1 DEF InsertRefused, WorkerType, Line
  <2>2. missed' \in [Session -> SUBSET Line]
    BY <1>1, <2>1 DEF InsertRefused, WorkerType
  <2>3. ing.next + 1 \in 0 .. MaxLines
    BY <2>1 DEF Line
  <2>4. /\ ing' \in TickRecord /\ ing'.pc # "idle" /\ ing'.s \in Session
    BY <1>1, <2>1, <2>3 DEF InsertRefused, WorkerType, TickRecord, IngestPc
  <2> QED
    BY <1>0, <1>1, <2>2, <2>4, StoreFault, TickFrame DEF InsertRefused
<1>2. ASSUME FileRefused PROVE StoreType' /\ WorkerType'
  BY <1>0, <1>2, AbandonType, StoreFault, TickEnds DEF FileRefused
<1>3. ASSUME RecoverRefused PROVE StoreType' /\ WorkerType'
  BY <1>0, <1>3, StoreFault, ProjectionFrame DEF RecoverRefused
<1>4. ASSUME BatchRefused PROVE StoreType' /\ WorkerType'
  BY <1>0, <1>4, StoreFault, ProjectionFrame DEF BatchRefused
<1>5. ASSUME NodeCrash PROVE StoreType' /\ WorkerType'
  <2>1. exposed' \in [Session -> SUBSET Windows]
    BY <1>5, AbandonType DEF NodeCrash
  <2>2. StoreType'
    BY <1>5, <2>1 DEF NodeCrash, StoreType
  <2>3. WorkerType'
    BY <1>5 DEF NodeCrash, WorkerType, IngIdle, IngestPc, PrjStart
  <2> QED
    BY <2>2, <2>3
<1> QED
  BY <1>1, <1>2, <1>3, <1>4, <1>5 DEF IngestFault, ProjectionFault

\* The archive loop's record, between two sessions and at one.
LEMMA LoopBetween ==
    ASSUME NEW pc \in {"start", "poll", "restore", "dump", "export", "purge"},
           NEW todo \in SUBSET Session, NEW again \in BOOLEAN,
           loop' = [pc |-> pc, todo |-> todo, s |-> NoSession, lines |-> {}, again |-> again]
    PROVE  LoopType'
BY DEF LoopType, LoopPc

\* The archive loop back between two requests.
LEMMA LoopIdles ==
    ASSUME NEW pc \in {"start", "poll", "restore"}, loop' = LoopAt(pc)
    PROVE  LoopType'
BY LoopBetween DEF LoopAt

\* The archive loop done with one session of its list.
LEMMA LoopGoesOn ==
    ASSUME LoopType, NEW pc \in {"restore", "export"}, loop' = NextOf(pc)
    PROVE  LoopType'
BY DEF LoopType, LoopPc, NextOf

\* withdraw_and_clear leaves the store well-typed; GREATEST(.., 0) keeps the rollup natural.
LEMMA WithdrawType ==
    ASSUME StoreType, NEW s \in Session, WithdrawAndClear(s), UNCHANGED <<requestVars, faults>>
    PROVE  StoreType'
<1>1. Cardinality(contrib[s]) \in Nat
  BY LinesFinite DEF StoreType
<1>2. rollup' \in Nat
  BY <1>1 DEF WithdrawAndClear, StoreType
<1>3. Marked(s) \in Versions
  BY DEF Marked, Versions
<1>4. version' \in [Session -> Versions]
  BY <1>3 DEF WithdrawAndClear, StoreType
<1>5. /\ contrib' \in [Session -> SUBSET Line]
      /\ turns' \in [Session -> SUBSET Line]
      /\ events' \in [Session -> SUBSET Line]
      /\ purged' \in [Session -> BOOLEAN]
  BY DEF WithdrawAndClear, StoreType
<1> QED
  BY <1>2, <1>4, <1>5 DEF WithdrawAndClear, StoreType

\* purge_session leaves the store well-typed.
LEMMA PurgeType ==
    ASSUME StoreType, NEW s \in Session, PurgeSession(s), UNCHANGED <<requestVars, faults>>
    PROVE  StoreType'
<1>1. contrib[s] \cup events[s] \in SUBSET Line
  BY DEF StoreType
<1>2. rollup' \in Nat
  <2>1. Cardinality(contrib[s] \cup events[s]) \in Nat
    BY <1>1, LinesFinite
  <2> QED
    BY <2>1 DEF PurgeSession, StoreType
<1>3. /\ contrib' \in [Session -> SUBSET Line]
      /\ events' \in [Session -> SUBSET Line]
      /\ purged' \in [Session -> BOOLEAN]
  BY <1>1 DEF PurgeSession, StoreType
<1> QED
  BY <1>2, <1>3 DEF PurgeSession, StoreType

\* Requests of the archive loop.
LEMMA RequestTypeStep ==
    ASSUME StoreType, LoopType, RequestStep
    PROVE  StoreType' /\ LoopType'
<1>1. ASSUME StartLoop PROVE StoreType' /\ LoopType'
  <2>1. <<>> \in Seq(Request)
    OBVIOUS
  <2>2. StoreType'
    BY <1>1, <2>1 DEF StartLoop, StoreType
  <2> QED
    BY <1>1, <2>2, LoopIdles DEF StartLoop
<1>2. ASSUME TakeRequest PROVE StoreType' /\ LoopType'
  <2>1. Head(pending) \in Request
    BY <1>2 DEF TakeRequest, StoreType
  <2>2. pending' \in Seq(Request) /\ running' \in Seq(Request)
    BY <1>2, <2>1 DEF TakeRequest, StoreType
  <2>3. StoreType'
    BY <1>2, <2>2 DEF TakeRequest, StoreType
  <2>4. LoopType'
    BY <1>2, <2>1, StoreAssumption DEF TakeRequest, LoopType, LoopPc, LoopAt, Request
  <2> QED
    BY <2>3, <2>4
<1>3. ASSUME FinishRequest PROVE StoreType' /\ LoopType'
  <2>1. running' \in Seq(Request)
    BY <1>3 DEF FinishRequest, StoreType
  <2> QED
    BY <1>3, <2>1, LoopIdles DEF FinishRequest, StoreType
<1> QED
  BY <1>1, <1>2, <1>3 DEF RequestStep

\* Restores.
LEMMA RestoreTypeStep ==
    ASSUME StoreType, LoopType, RestoreStep
    PROVE  StoreType' /\ LoopType'
<1> USE StoreAssumption
<1>0. loop.pc \in {"withdraw", "replay", "project", "repurge"} => loop.s \in Session
  BY DEF LoopType
<1>1. ASSUME NEW s \in Session, OpenArchive(s) PROVE StoreType' /\ LoopType'
  <2>1. LoopType'
    BY <1>1 DEF OpenArchive, LoopType, LoopPc, StoreType
  <2> QED
    BY <1>1, <2>1, StoreFrame DEF OpenArchive
<1>2. ASSUME NEW s \in Session, CannotRestore(s) PROVE StoreType' /\ LoopType'
  <2>1. LoopType'
    BY <1>2 DEF CannotRestore, LoopType, LoopPc
  <2> QED
    BY <1>2, <2>1, StoreFrame DEF CannotRestore
<1>3. ASSUME Withdraw PROVE StoreType' /\ LoopType'
  <2>1. LoopType'
    BY <1>3 DEF Withdraw, LoopType, LoopPc
  <2> QED
    BY <1>0, <1>3, <2>1, WithdrawType DEF Withdraw
<1>4. ASSUME ReplayLine PROVE StoreType' /\ LoopType'
  <2>1. loop.lines \in SUBSET Line /\ loop.lines # {}
    BY <1>4 DEF ReplayLine, LoopType
  <2>2. Smallest(loop.lines) \in loop.lines
    BY <2>1, SmallestIn DEF Line
  <2>3. StoreType'
    BY <1>0, <1>4, <2>1, <2>2, InsertType DEF ReplayLine, StoreType
  <2>4. LoopType'
    BY <1>4 DEF ReplayLine, LoopType, LoopPc
  <2> QED
    BY <2>3, <2>4
<1>5. ASSUME RebuildReplayed PROVE StoreType' /\ LoopType'
  <2>1. Marked(loop.s) \in Versions
    BY DEF Marked, Versions
  <2>2. version' \in [Session -> Versions]
    BY <1>0, <1>5, <2>1 DEF RebuildReplayed, RequestRebuild, StoreType
  <2>3. StoreType'
    BY <1>5, <2>2 DEF RebuildReplayed, StoreType
  <2>4. LoopType'
    BY <1>5 DEF RebuildReplayed, LoopType, LoopPc
  <2> QED
    BY <2>3, <2>4
<1>6. ASSUME ProjectReplayed PROVE StoreType' /\ LoopType'
  <2>1. StoreType'
    BY <1>0, <1>6, BatchType DEF ProjectReplayed, StoreType
  <2>2. \/ UNCHANGED loop
        \/ loop' = [loop EXCEPT !.pc = "repurge"]
        \/ loop' = NextOf("restore")
    BY <1>6 DEF ProjectReplayed
  <2>3. LoopType'
    BY <1>6, <2>2, LoopGoesOn DEF ProjectReplayed, LoopType, LoopPc
  <2> QED
    BY <2>1, <2>3
<1>7. ASSUME PurgeAgain PROVE StoreType' /\ LoopType'
  BY <1>0, <1>7, PurgeType, LoopGoesOn DEF PurgeAgain
<1>8. ASSUME PurgeAgainSkipped PROVE StoreType' /\ LoopType'
  BY <1>8, StoreFrame, LoopGoesOn DEF PurgeAgainSkipped
<1> QED
  BY <1>1, <1>2, <1>3, <1>4, <1>5, <1>6, <1>7, <1>8 DEF RestoreStep

\* The archive cycle.
LEMMA CycleTypeStep ==
    ASSUME StoreType, LoopType, CycleStep \/ StartCycle
    PROVE  StoreType' /\ LoopType'
<1> USE StoreAssumption
<1>1. ASSUME DumpDurableTables PROVE StoreType' /\ LoopType'
  <2>1. LoopType'
    BY <1>1 DEF DumpDurableTables, LoopType, LoopPc
  <2> QED
    BY <1>1, <2>1, StoreFrame DEF DumpDurableTables
<1>2. ASSUME NEW s \in Session, ReadEvents(s) PROVE StoreType' /\ LoopType'
  <2>1. LoopType'
    BY <1>2 DEF ReadEvents, LoopType, LoopPc, StoreType
  <2> QED
    BY <1>2, <2>1, StoreFrame DEF ReadEvents
<1>3. ASSUME NEW s \in Session, PurgeOne(s) PROVE StoreType' /\ LoopType'
  <2>1. LoopType'
    BY <1>3 DEF PurgeOne, LoopType, LoopPc
  <2> QED
    BY <1>3, <2>1, PurgeType DEF PurgeOne
<1>4. ASSUME NEW s \in Session, PurgeSkipped(s) PROVE StoreType' /\ LoopType'
  <2>1. LoopType'
    BY <1>4 DEF PurgeSkipped, LoopType, LoopPc
  <2> QED
    BY <1>4, <2>1, StoreFrame DEF PurgeSkipped
<1>5. ASSUME PutObject PROVE StoreType' /\ LoopType'
  <2>1. object' \in [Session -> SUBSET Line]
    BY <1>5 DEF PutObject, LoopType, StoreType
  <2>2. StoreType'
    BY <1>5, <2>1 DEF PutObject, StoreType
  <2>3. LoopType'
    BY <1>5 DEF PutObject, LoopType, LoopPc
  <2> QED
    BY <2>2, <2>3
<1>6. ASSUME MarkArchived PROVE StoreType' /\ LoopType'
  <2>1. archived' \in [Session -> SUBSET Line] /\ aged' \in [Session -> BOOLEAN]
    BY <1>6 DEF MarkArchived, LoopType, StoreType
  <2>2. StoreType'
    BY <1>6, <2>1 DEF MarkArchived, StoreType
  <2> QED
    BY <1>6, <2>2, LoopGoesOn DEF MarkArchived
<1>7. ASSUME SelectPurge PROVE StoreType' /\ LoopType'
  <2>1. LoopType'
    BY <1>7 DEF SelectPurge, LoopType, LoopPc, LoopAt
  <2> QED
    BY <1>7, <2>1, StoreFrame DEF SelectPurge
<1>8. ASSUME EndCycle PROVE StoreType' /\ LoopType'
  BY <1>8, StoreFrame, LoopIdles DEF EndCycle
<1>9. ASSUME StartCycle PROVE StoreType' /\ LoopType'
  <2>1. LoopType'
    BY <1>9 DEF StartCycle, LoopType, LoopPc, LoopAt
  <2> QED
    BY <1>9, <2>1, StoreFrame DEF StartCycle
<1> QED
  BY <1>1, <1>2, <1>3, <1>4, <1>5, <1>6, <1>7, <1>8, <1>9 DEF CycleStep

\* Refusals and the death of control.
LEMMA LoopFaultTypeStep ==
    ASSUME StoreType, LoopType, LoopFault \/ ControlCrash
    PROVE  StoreType' /\ LoopType'
<1> USE StoreAssumption
<1>0. exposed \in [Session -> SUBSET Windows]
  BY DEF StoreType
<1>1. ASSUME CutReplay PROVE exposed' \in [Session -> SUBSET Windows]
  <2>1. CASE loop.pc = "replay"
    <3>1. loop.s \in Session
      BY <2>1 DEF LoopType
    <3> QED
      BY <1>1, <2>1, <3>1, ExposeType DEF CutReplay, Windows
  <2>2. CASE loop.pc # "replay"
    BY <1>0, <1>1, <2>2 DEF CutReplay
  <2> QED
    BY <2>1, <2>2
<1>2. ASSUME StartRefused PROVE StoreType' /\ LoopType'
  BY <1>0, <1>2, StoreFault, LoopIdles DEF StartRefused
<1>3. ASSUME TakeRefused PROVE StoreType' /\ LoopType'
  <2>1. pending' \in Seq(Request) /\ running' \in Seq(Request)
    BY <1>3 DEF TakeRefused, StoreType
  <2>2. StoreType'
    BY <1>3, <2>1 DEF TakeRefused, StoreType, Fault
  <2> QED
    BY <1>3, <2>2, LoopIdles DEF TakeRefused
<1>4. ASSUME FinishRefused PROVE StoreType' /\ LoopType'
  BY <1>0, <1>4, StoreFault, LoopIdles DEF FinishRefused
<1>5. ASSUME RestoreRefused PROVE StoreType' /\ LoopType'
  BY <1>1, <1>5, StoreFault, LoopGoesOn DEF RestoreRefused
<1>6. ASSUME DumpRefused PROVE StoreType' /\ LoopType'
  BY <1>0, <1>6, StoreFault, LoopIdles DEF DumpRefused
<1>7. ASSUME ExportRefused PROVE StoreType' /\ LoopType'
  BY <1>0, <1>7, StoreFault, LoopGoesOn DEF ExportRefused
<1>8. ASSUME ControlCrash PROVE StoreType' /\ LoopType'
  <2>1. StoreType'
    BY <1>1, <1>8 DEF ControlCrash, StoreType
  <2> QED
    BY <1>8, <2>1, LoopIdles DEF ControlCrash
<1> QED
  BY <1>2, <1>3, <1>4, <1>5, <1>6, <1>7, <1>8 DEF LoopFault

-----------------------------------------------------------------------------
\* The bounds of a run, and the parts a step of one process leaves alone.
BoundsOK == crashes \in 0 .. MaxCrashes /\ cycles \in 0 .. MaxCycles /\ asks \in 0 .. MaxAsks

\* Every step of either process keeps every variable in its set.
LEMMA TypeStep == TypeOK /\ [Next]_vars => TypeOK'
<1> SUFFICES ASSUME TypeOK, [Next]_vars PROVE TypeOK'
  OBVIOUS
<1> USE StoreAssumption, RetentionAssumption
<1>0. StoreType /\ WorkerType /\ LoopType /\ BoundsOK
  BY DEF TypeOK, BoundsOK
<1>a. ASSUME UNCHANGED loop PROVE LoopType'
  BY <1>0, <1>a DEF LoopType
<1>b. ASSUME UNCHANGED workerVars PROVE WorkerType'
  BY <1>0, <1>b DEF WorkerType
<1>c. ASSUME UNCHANGED boundVars PROVE BoundsOK'
  BY <1>0, <1>c DEF BoundsOK
<1>1. ASSUME NEW s \in Session, AppendLine(s) PROVE TypeOK'
  <2>1. StoreType'
    BY <1>0, <1>1 DEF AppendLine, StoreType
  <2> QED
    BY <1>1, <1>a, <1>b, <1>c, <2>1 DEF AppendLine, TypeOK, BoundsOK
<1>2. ASSUME NEW s \in Session, GracePasses(s) PROVE TypeOK'
  <2>1. StoreType'
    BY <1>0, <1>2 DEF GracePasses, StoreType
  <2> QED
    BY <1>2, <1>a, <1>b, <1>c, <2>1 DEF GracePasses, TypeOK, BoundsOK
<1>3. ASSUME NEW r \in Request, AskRestore(r) PROVE TypeOK'
  <2>1. StoreType'
    BY <1>0, <1>3 DEF AskRestore, StoreType
  <2>2. BoundsOK'
    BY <1>0, <1>3 DEF AskRestore, BoundsOK
  <2> QED
    BY <1>3, <1>a, <1>b, <2>1, <2>2 DEF AskRestore, TypeOK, BoundsOK
<1>4. ASSUME BeginCycle PROVE TypeOK'
  <2>1. BoundsOK'
    BY <1>0, <1>4 DEF BeginCycle, BoundsOK
  <2> QED
    BY <1>0, <1>4, <1>b, <2>1, CycleTypeStep DEF BeginCycle, TypeOK, BoundsOK
<1>5. ASSUME Worker(IngestStep \/ IngestFault \/ ProjectionStep \/ ProjectionFault) PROVE TypeOK'
  BY <1>0, <1>5, <1>a, <1>c, IngestTypeStep, ProjectionTypeStep, WorkerFaultTypeStep
  DEF Worker, TypeOK, BoundsOK
<1>6. ASSUME Control(RequestStep \/ RestoreStep \/ CycleStep \/ LoopFault) PROVE TypeOK'
  BY <1>0, <1>6, <1>b, <1>c, RequestTypeStep, RestoreTypeStep, CycleTypeStep, LoopFaultTypeStep
  DEF Control, TypeOK, BoundsOK
<1>7. ASSUME Die(NodeCrash, <<loop>>) PROVE TypeOK'
  <2>1. BoundsOK'
    BY <1>0, <1>7 DEF Die, BoundsOK
  <2> QED
    BY <1>0, <1>7, <1>a, <2>1, WorkerFaultTypeStep DEF Die, TypeOK, BoundsOK
<1>8. ASSUME Die(ControlCrash, workerVars) PROVE TypeOK'
  <2>1. BoundsOK'
    BY <1>0, <1>8 DEF Die, BoundsOK
  <2> QED
    BY <1>0, <1>8, <1>b, <2>1, LoopFaultTypeStep DEF Die, TypeOK, BoundsOK
<1>9. ASSUME UNCHANGED vars PROVE TypeOK'
  BY <1>0, <1>9, <1>a, <1>b, <1>c, StoreFrame DEF vars, TypeOK, BoundsOK
<1> QED
  BY <1>1, <1>2, <1>3, <1>4, <1>5, <1>6, <1>7, <1>8, <1>9 DEF Next, Worker, Control

\* Every behaviour of the two processes stays well-typed.
THEOREM TypeCorrect == Spec => []TypeOK
<1>1. Init => TypeOK
  <2> SUFFICES ASSUME Init PROVE TypeOK
    OBVIOUS
  <2>1. StoreType
    BY StoreAssumption DEF Init, InitStore, StoreType, Versions
  <2>2. WorkerType
    BY StoreAssumption DEF Init, InitWorker, WorkerType, IngIdle, IngestPc, PrjStart
  <2>3. LoopType
    BY LoopIdles DEF Init, InitLoop, LoopType, LoopPc, LoopAt
  <2> QED
    BY <2>1, <2>2, <2>3, RetentionAssumption DEF Init, TypeOK
<1> QED
  BY <1>1, TypeStep, PTL DEF Spec

-----------------------------------------------------------------------------
(* The inductive invariant.                                                *)

\* What the steps of the ingester that insert nothing leave alone.
LEMMA BookkeepingKeeps ==
    ASSUME StoreType, LoopType, Accounted, IngestPlace',
           UNCHANGED <<events, purged, archived, object, loop>>,
           \A s \in Session : exposed[s] \subseteq exposed'[s],
           \A s \in Session : Had(s)' \subseteq Had(s)
    PROVE  Accounted'
<1>1. ASSUME NEW s \in Session, Guarded(s)' PROVE Guarded(s)
  BY <1>1 DEF Guarded
<1>2. LoopPlace'
  <2>1. loop.pc \in {"put", "mark"} => loop.s \in Session
    BY DEF LoopType
  <2> QED
    BY <1>1, <2>1 DEF Accounted, LoopPlace
<1>3. ASSUME NEW s \in Session, Guarded(s)' PROVE Kept(s)'
  <2>1. Kept(s) /\ Had(s)' \subseteq Had(s)
    BY <1>1, <1>3 DEF Accounted
  <2> QED
    BY <2>1 DEF Kept, KeptInObject, KeptByReplay, KeptInRows, Replaying
<1> QED
  BY <1>2, <1>3 DEF Accounted

\* Nothing of the ingester moves.
LEMMA HadFrame ==
    ASSUME UNCHANGED <<ing, offset, missed>>
    PROVE  (\A s \in Session : Had(s)' = Had(s)) /\ (IngestPlace => IngestPlace')
BY DEF Had, Walked, IngestPlace

\* A tick between two inserts: scanning, checking, committing, finishing.
LEMMA IngestKeeps ==
    ASSUME StoreType, WorkerType, LoopType, Accounted, IngestStep, UNCHANGED loop
    PROVE  Accounted'
<1>0. IngestPlace
  BY DEF Accounted
<1>1. ASSUME NEW s \in Session, ScanFile(s) PROVE Accounted'
  <2>1. IngestPlace'
    BY <1>1 DEF ScanFile, IngestPlace
  <2>2. \A t \in Session : Had(t)' = Had(t)
    BY <1>1 DEF ScanFile, Had, Walked
  <2> QED
    BY <1>1, <2>1, <2>2, BookkeepingKeeps DEF ScanFile
<1>2. ASSUME CheckPurged PROVE Accounted'
  <2>1. IngestPlace' /\ \A t \in Session : Had(t)' = Had(t)
    BY <1>0, <1>2 DEF CheckPurged, IngestPlace, Had, Walked, WorkerType, StoreType
  <2> QED
    BY <1>2, <2>1, BookkeepingKeeps DEF CheckPurged
<1>3. ASSUME DeferPurged PROVE Accounted'
  <2>1. IngestPlace' /\ \A t \in Session : Had(t)' = Had(t)
    BY <1>0, <1>3 DEF DeferPurged, IngestPlace, Had, Walked, IngIdle
  <2> QED
    BY <1>3, <2>1, BookkeepingKeeps DEF DeferPurged
<1>4. ASSUME InsertLine PROVE Accounted'
  <2> DEFINE s == ing.s
             n == ing.next + 1
  <2>1. s \in Session /\ ing.next \in 0 .. MaxLines /\ n \in Nat
    BY <1>4, StoreAssumption DEF InsertLine, WorkerType
  <2>2. IngestPlace'
    BY <1>0, <1>4, <2>1 DEF InsertLine, IngestPlace, StoreType, WorkerType
  <2>3. /\ events' = [events EXCEPT ![s] = @ \cup {n}]
        /\ \A t \in Session : events[t] \subseteq events'[t]
        /\ n \in events'[s]
    BY <1>4, <2>1 DEF InsertLine, InsertEvent, StoreType
  <2>4. ASSUME NEW t \in Session, Guarded(t)'
        PROVE  Guarded(t) /\ (t = s => n \in events[s] \/ ~purged[s])
    BY <1>4, <2>1, <2>4 DEF InsertLine, InsertEvent, StoreType, Guarded
  <2>5. Had(s)' \subseteq Had(s) \cup {n}
    BY <1>4, <2>1 DEF InsertLine, Had, Walked, WorkerType
  <2>6. \A t \in Session : t # s => Had(t)' = Had(t) /\ events'[t] = events[t]
    BY <1>4, <2>1, <2>3 DEF InsertLine, Had, Walked, WorkerType, StoreType
  <2>7. LoopPlace'
    <3>1. loop.pc \in {"put", "mark"} => loop.s \in Session
      BY DEF LoopType
    <3> QED
      BY <1>4, <2>3, <2>4, <3>1 DEF InsertLine, Accounted, LoopPlace
  <2>8. ASSUME NEW t \in Session, Guarded(t)' PROVE Kept(t)'
    <3>1. Kept(t)
      BY <2>4, <2>8 DEF Accounted
    <3>2. CASE t # s
      BY <1>4, <2>6, <3>1, <3>2 DEF InsertLine, Kept, KeptInObject, KeptByReplay, KeptInRows, Replaying
    <3>3. CASE t = s
      <4>1. ~purged[s]
        BY <2>4, <2>8, <3>1, <3>3 DEF Kept, KeptInObject
      <4> QED
        BY <1>4, <2>3, <2>5, <3>1, <3>3, <4>1
        DEF InsertLine, Kept, KeptByReplay, KeptInRows, Replaying
    <3> QED
      BY <3>2, <3>3
  <2> QED
    BY <2>2, <2>7, <2>8 DEF Accounted
<1>5. ASSUME CommitOffset PROVE Accounted'
  <2>1. IngestPlace' /\ \A t \in Session : Had(t)' = Had(t)
    BY <1>0, <1>5 DEF CommitOffset, IngestPlace, Had, Walked, WorkerType, StoreType
  <2> QED
    BY <1>5, <2>1, BookkeepingKeeps DEF CommitOffset
<1>6. ASSUME FinishFile PROVE Accounted'
  <2>1. IngestPlace' /\ \A t \in Session : Had(t)' = Had(t)
    BY <1>0, <1>6 DEF FinishFile, IngestPlace, Had, Walked, IngIdle
  <2> QED
    BY <1>6, <2>1, BookkeepingKeeps DEF FinishFile
<1> QED
  BY <1>1, <1>2, <1>3, <1>4, <1>5, <1>6 DEF IngestStep

\* The projection loop touches neither rows nor archive.
LEMMA ProjectionKeeps ==
    ASSUME StoreType, LoopType, Accounted, ProjectionStep \/ ProjectionFault, UNCHANGED loop
    PROVE  Accounted'
<1>1. UNCHANGED <<events, purged, archived, object, exposed, ing, offset, missed>>
  BY DEF ProjectionStep, ProjectionFault, Recover, TakeProjection, RunBatch, RecoverRefused, BatchRefused
<1>2. IngestPlace' /\ \A s \in Session : Had(s)' = Had(s)
  BY <1>1, HadFrame DEF Accounted
<1> QED
  BY <1>1, <1>2, BookkeepingKeeps

\* Refusals and the death of the ingester.
LEMMA WorkerFaultKeeps ==
    ASSUME StoreType, WorkerType, LoopType, Accounted, IngestFault \/ NodeCrash, UNCHANGED loop
    PROVE  Accounted'
<1>0. IngestPlace
  BY DEF Accounted
<1>1. ASSUME InsertRefused PROVE Accounted'
  <2> DEFINE s == ing.s
             n == ing.next + 1
  <2>1. s \in Session /\ ing.next \in 0 .. MaxLines /\ n \in Nat
    BY <1>1, StoreAssumption DEF InsertRefused, WorkerType
  <2>2. IngestPlace'
    BY <1>0, <1>1, <2>1 DEF InsertRefused, IngestPlace, StoreType, WorkerType
  <2>3. \A t \in Session : Had(t)' \subseteq Had(t) \cup events[t]
    BY <1>1, <2>1 DEF InsertRefused, Had, Walked, WorkerType
  <2>4. ASSUME NEW t \in Session, Guarded(t)' PROVE Kept(t)'
    <3>1. Kept(t) /\ Had(t)' \subseteq Had(t) \cup events[t]
      BY <1>1, <2>3, <2>4 DEF InsertRefused, Guarded, Accounted
    <3> QED
      BY <1>1, <3>1 DEF InsertRefused, Kept, KeptInObject, KeptByReplay, KeptInRows, Replaying
  <2>5. LoopPlace'
    BY <1>1 DEF InsertRefused, Accounted, LoopPlace, Guarded
  <2> QED
    BY <2>2, <2>4, <2>5 DEF Accounted
<1>2. ASSUME UNCHANGED <<rowVars, missed>>, ing' = IngIdle, Abandon PROVE Accounted'
  <2>1. IngestPlace'
    BY <1>2 DEF IngestPlace, IngIdle
  <2>2. \A t \in Session : Had(t)' \subseteq Had(t)
    BY <1>0, <1>2 DEF IngestPlace, Had, Walked, IngIdle, WorkerType, StoreType
  <2>3. \A t \in Session : exposed[t] \subseteq exposed'[t]
    BY <1>2 DEF Abandon, Expose, StoreType
  <2> QED
    BY <1>2, <2>1, <2>2, <2>3, BookkeepingKeeps
<1>3. ASSUME FileRefused PROVE Accounted'
  BY <1>2, <1>3 DEF FileRefused
<1>4. ASSUME NodeCrash PROVE Accounted'
  BY <1>2, <1>4 DEF NodeCrash
<1> QED
  BY <1>1, <1>3, <1>4 DEF IngestFault

\* What the archive loop's steps that change no row and no object leave alone.
LEMMA LoopBookkeepingKeeps ==
    ASSUME StoreType, Accounted, LoopPlace',
           UNCHANGED <<events, purged, archived, object, exposed, ing, offset, missed>>,
           loop.pc # "replay", loop'.pc # "replay"
    PROVE  Accounted'
<1>1. IngestPlace' /\ \A s \in Session : Had(s)' = Had(s)
  BY HadFrame DEF Accounted
<1>2. ASSUME NEW s \in Session, Guarded(s)' PROVE Kept(s)'
  <2>1. Kept(s) /\ Had(s)' = Had(s)
    BY <1>1, <1>2 DEF Accounted, Guarded
  <2> QED
    BY <2>1 DEF Kept, KeptInObject, KeptInRows, Replaying
<1> QED
  BY <1>1, <1>2 DEF Accounted

\* Between two sessions the loop holds nothing that could go stale.
LEMMA PlaceBetween ==
    ASSUME loop'.pc \in {"start", "poll", "restore", "project", "repurge", "purge"}
    PROVE  LoopPlace'
BY DEF LoopPlace

\* Taking and finishing requests touches neither rows nor archive.
LEMMA RequestKeeps ==
    ASSUME StoreType, LoopType, Accounted, RequestStep, UNCHANGED workerVars
    PROVE  Accounted'
<1>1. /\ loop.pc # "replay"
      /\ loop'.pc \in {"poll", "restore"}
      /\ UNCHANGED <<events, purged, archived, object, exposed, offset>>
  <2>1. CASE StartLoop
    BY <2>1 DEF StartLoop, LoopAt
  <2>2. CASE TakeRequest
    BY <2>2 DEF TakeRequest, LoopAt
  <2>3. CASE FinishRequest
    BY <2>3 DEF FinishRequest, LoopAt
  <2> QED
    BY <2>1, <2>2, <2>3 DEF RequestStep
<1> QED
  BY <1>1, PlaceBetween, LoopBookkeepingKeeps

\* A purge finds the object complete: the counts agree, the exported lines
\* are a part of the rows, so they are all of them.
LEMMA PurgeFindsAll ==
    ASSUME StoreType, NEW s \in Session, Guarded(s), Kept(s), PurgeAllowed(s), ~Replaying(s)
    PROVE  /\ ~purged[s] /\ archived[s] # {}
           /\ archived[s] = events[s] /\ object[s] = events[s]
           /\ Had(s) \subseteq events[s]
<1>1. ~purged[s] /\ archived[s] # {} /\ Cardinality(archived[s]) = Cardinality(events[s])
  BY DEF PurgeAllowed, PurgeCandidate, CountMatches
<1>2. archived[s] \subseteq object[s] /\ object[s] \subseteq events[s] /\ Had(s) \subseteq events[s]
  BY <1>1 DEF Kept, KeptInRows
<1>3. events[s] \in SUBSET Line
  BY DEF StoreType
<1>4. archived[s] = events[s]
  BY <1>1, <1>2, <1>3, SameCount
<1> QED
  BY <1>1, <1>2, <1>4

\* purge_session leaves the session in its object and the others alone.
LEMMA PurgeKeeps ==
    ASSUME StoreType, Accounted, NEW s \in Session, PurgeAllowed(s), PurgeSession(s),
           UNCHANGED <<ing, missed>>, loop.pc # "replay",
           loop'.pc \in {"restore", "purge"}
    PROVE  Accounted'
<1>1. IngestPlace' /\ \A t \in Session : Had(t)' = Had(t)
  BY HadFrame DEF Accounted, PurgeSession
<1>2. LoopPlace'
  BY PlaceBetween
<1>3. ASSUME NEW t \in Session, Guarded(t)' PROVE Kept(t)'
  <2>1. Guarded(t) /\ Kept(t)
    BY <1>3 DEF Accounted, Guarded, PurgeSession
  <2>2. CASE t = s
    <3>1. /\ archived[s] # {} /\ object[s] = archived[s]
          /\ Had(s) \subseteq archived[s]
      BY <2>1, <2>2, PurgeFindsAll DEF Replaying
    <3>2. events'[s] = {} /\ purged'[s] = TRUE /\ UNCHANGED <<archived, object>>
      BY DEF PurgeSession, StoreType
    <3> QED
      BY <1>1, <2>2, <3>1, <3>2 DEF Kept, KeptInObject, Replaying
  <2>3. CASE t # s
    <3>1. events'[t] = events[t] /\ purged'[t] = purged[t] /\ UNCHANGED <<archived, object>>
      BY <2>3 DEF PurgeSession, StoreType
    <3> QED
      BY <1>1, <2>1, <3>1 DEF Kept, KeptInObject, KeptInRows, Replaying
  <2> QED
    BY <2>2, <2>3
<1> QED
  BY <1>1, <1>2, <1>3 DEF Accounted

\* Restores.
LEMMA RestoreKeeps ==
    ASSUME StoreType, LoopType, Accounted, RestoreStep, UNCHANGED workerVars
    PROVE  Accounted'
<1>0. loop.pc \in {"withdraw", "replay", "project", "repurge"} => loop.s \in Session
  BY DEF LoopType
<1>1. ASSUME NEW s \in Session, OpenArchive(s) PROVE Accounted'
  <2>1. LoopPlace'
    BY <1>1 DEF OpenArchive, Restorable, LoopPlace, LoopType
  <2> QED
    BY <1>1, <2>1, LoopBookkeepingKeeps DEF OpenArchive, LoopType
<1>2. ASSUME NEW s \in Session, CannotRestore(s) PROVE Accounted'
  <2>1. loop'.pc = "restore"
    BY <1>2 DEF CannotRestore, LoopType
  <2> QED
    BY <1>2, <2>1, PlaceBetween, LoopBookkeepingKeeps DEF CannotRestore
<1>3. ASSUME Withdraw PROVE Accounted'
  <2> DEFINE s == loop.s
  <2>1. s \in Session /\ purged[s] /\ loop.lines = object[s] /\ object[s] = archived[s]
    BY <1>0, <1>3 DEF Withdraw, Accounted, LoopPlace
  <2>2. IngestPlace' /\ \A t \in Session : Had(t)' = Had(t)
    BY <1>3, HadFrame DEF Accounted, Withdraw, WithdrawAndClear
  <2>3. /\ loop'.pc = "replay" /\ loop'.s = s /\ loop'.lines = loop.lines
        /\ ~purged'[s] /\ events'[s] = {}
        /\ UNCHANGED <<archived, object, exposed>>
        /\ \A t \in Session : t # s => events'[t] = events[t] /\ purged'[t] = purged[t]
    BY <1>3, <2>1 DEF Withdraw, WithdrawAndClear, LoopType, StoreType
  <2>4. LoopPlace'
    BY <2>3 DEF LoopPlace
  <2>5. ASSUME NEW t \in Session, Guarded(t)' PROVE Kept(t)'
    <3>1. Kept(t)
      BY <2>3, <2>5 DEF Accounted, Guarded
    <3>2. CASE t = s
      BY <2>1, <2>2, <2>3, <3>1, <3>2 DEF Kept, KeptInObject, KeptByReplay, Replaying
    <3>3. CASE t # s
      BY <1>3, <2>2, <2>3, <3>1, <3>3 DEF Withdraw, Kept, KeptInObject, KeptInRows, Replaying
    <3> QED
      BY <3>2, <3>3
  <2> QED
    BY <2>2, <2>4, <2>5 DEF Accounted
<1>4. ASSUME ReplayLine PROVE Accounted'
  <2> DEFINE s == loop.s
             n == Smallest(loop.lines)
  <2>1. s \in Session /\ ~purged[s]
    BY <1>0, <1>4 DEF ReplayLine, Accounted, LoopPlace
  <2>2. IngestPlace' /\ \A t \in Session : Had(t)' = Had(t)
    BY <1>4, HadFrame DEF Accounted, ReplayLine
  <2>3. /\ loop'.pc = "replay" /\ loop'.s = s /\ loop'.lines = loop.lines \ {n}
        /\ events'[s] = events[s] \cup {n}
        /\ UNCHANGED <<archived, object, purged, exposed>>
        /\ \A t \in Session : t # s => events'[t] = events[t]
    BY <1>4, <2>1 DEF ReplayLine, InsertEvent, LoopType, StoreType
  <2>4. LoopPlace'
    BY <2>1, <2>3 DEF LoopPlace
  <2>5. ASSUME NEW t \in Session, Guarded(t)' PROVE Kept(t)'
    <3>1. Kept(t)
      BY <2>3, <2>5 DEF Accounted, Guarded
    <3>2. CASE t = s
      BY <1>4, <2>1, <2>2, <2>3, <3>1, <3>2 DEF ReplayLine, Kept, KeptByReplay, Replaying
    <3>3. CASE t # s
      BY <2>2, <2>3, <3>1, <3>3 DEF Kept, KeptInObject, KeptInRows, Replaying
    <3> QED
      BY <3>2, <3>3
  <2> QED
    BY <2>2, <2>4, <2>5 DEF Accounted
<1>5. ASSUME RebuildReplayed PROVE Accounted'
  <2>1. /\ loop.lines = {} /\ loop'.pc = "project"
        /\ UNCHANGED <<events, purged, archived, object, exposed, offset>>
    BY <1>5 DEF RebuildReplayed, LoopType
  <2>2. IngestPlace' /\ \A t \in Session : Had(t)' = Had(t)
    BY <2>1, HadFrame DEF Accounted
  <2>3. ASSUME NEW t \in Session, Guarded(t)' PROVE Kept(t)'
    <3>1. Kept(t)
      BY <2>1, <2>3 DEF Accounted, Guarded
    <3> QED
      BY <2>1, <2>2, <3>1 DEF Kept, KeptInObject, KeptByReplay, KeptInRows, Replaying
  <2> QED
    BY <2>1, <2>2, <2>3, PlaceBetween DEF Accounted
<1>6. ASSUME ProjectReplayed PROVE Accounted'
  <2>1. loop.pc = "project" /\ loop'.pc \in {"project", "repurge", "restore"}
    BY <1>6 DEF ProjectReplayed, NextOf, LoopType
  <2> QED
    BY <1>6, <2>1, PlaceBetween, LoopBookkeepingKeeps DEF ProjectReplayed
<1>7. ASSUME PurgeAgain PROVE Accounted'
  <2>1. loop'.pc = "restore"
    BY <1>7 DEF PurgeAgain, NextOf, LoopType
  <2> QED
    BY <1>0, <1>7, <2>1, PurgeKeeps DEF PurgeAgain
<1>8. ASSUME PurgeAgainSkipped PROVE Accounted'
  <2>1. loop'.pc = "restore"
    BY <1>8 DEF PurgeAgainSkipped, NextOf, LoopType
  <2> QED
    BY <1>8, <2>1, PlaceBetween, LoopBookkeepingKeeps DEF PurgeAgainSkipped
<1> QED
  BY <1>1, <1>2, <1>3, <1>4, <1>5, <1>6, <1>7, <1>8 DEF RestoreStep

\* The archive cycle.
LEMMA CycleKeeps ==
    ASSUME StoreType, LoopType, Accounted, CycleStep \/ StartCycle, UNCHANGED workerVars
    PROVE  Accounted'
<1>0. /\ LoopPlace
      /\ loop.pc \in {"put", "mark"} => loop.s \in Session
  BY DEF LoopType, Accounted
<1>1. ASSUME DumpDurableTables PROVE Accounted'
  <2>1. LoopPlace' /\ loop'.pc = "export"
    BY <1>0, <1>1 DEF DumpDurableTables, LoopPlace, LoopType
  <2> QED
    BY <1>1, <2>1, LoopBookkeepingKeeps DEF DumpDurableTables
<1>2. ASSUME NEW s \in Session, ReadEvents(s) PROVE Accounted'
  <2>1. /\ loop.pc = "export" /\ loop'.pc = "put" /\ loop'.s = s /\ loop'.lines = events[s]
        /\ loop'.todo = loop.todo /\ s \in loop.todo
        /\ UNCHANGED <<events, purged, archived, object, exposed, offset>>
    BY <1>2 DEF ReadEvents, LoopType
  <2>2. ~purged[s] /\ (Guarded(s) => archived[s] \subseteq events[s])
    BY <1>0, <2>1 DEF LoopPlace, Accounted, Kept, KeptInRows, Replaying
  <2>3. LoopPlace'
    BY <1>0, <2>1, <2>2 DEF LoopPlace, Guarded
  <2> QED
    BY <2>1, <2>3, LoopBookkeepingKeeps
<1>3. ASSUME NEW s \in Session, PurgeOne(s) PROVE Accounted'
  <2>1. loop.pc = "purge" /\ loop'.pc = "purge"
    BY <1>3 DEF PurgeOne, LoopType
  <2> QED
    BY <1>3, <2>1, PurgeKeeps DEF PurgeOne
<1>4. ASSUME NEW s \in Session, PurgeSkipped(s) PROVE Accounted'
  <2>1. loop.pc = "purge" /\ loop'.pc = "purge"
    BY <1>4 DEF PurgeSkipped, LoopType
  <2> QED
    BY <1>4, <2>1, PlaceBetween, LoopBookkeepingKeeps DEF PurgeSkipped
<1>5. ASSUME PutObject PROVE Accounted'
  <2> DEFINE s == loop.s
  <2>1. /\ s \in Session /\ ~purged[s]
        /\ Guarded(s) => archived[s] \subseteq loop.lines /\ loop.lines \subseteq events[s]
    BY <1>0, <1>5 DEF PutObject, LoopPlace
  <2>2. /\ loop.pc = "put" /\ loop'.pc = "mark" /\ loop'.s = s /\ loop'.lines = loop.lines
        /\ loop'.todo = loop.todo
        /\ object'[s] = loop.lines
        /\ UNCHANGED <<events, purged, archived, exposed, offset>>
        /\ \A t \in Session : t # s => object'[t] = object[t]
    BY <1>5, <2>1 DEF PutObject, LoopType, StoreType
  <2>3. IngestPlace' /\ \A t \in Session : Had(t)' = Had(t)
    BY <2>2, HadFrame DEF Accounted
  <2>4. LoopPlace'
    BY <1>0, <2>1, <2>2 DEF LoopPlace, Guarded
  <2>5. ASSUME NEW t \in Session, Guarded(t)' PROVE Kept(t)'
    <3>1. Guarded(t) /\ Kept(t)
      BY <2>2, <2>5 DEF Accounted, Guarded
    <3> QED
      BY <2>1, <2>2, <2>3, <3>1 DEF Kept, KeptInObject, KeptInRows, Replaying
  <2> QED
    BY <2>3, <2>4, <2>5 DEF Accounted
<1>6. ASSUME MarkArchived PROVE Accounted'
  <2> DEFINE s == loop.s
  <2>1. /\ s \in Session /\ ~purged[s] /\ object[s] = loop.lines
        /\ Guarded(s) => archived[s] \subseteq loop.lines /\ loop.lines \subseteq events[s]
    BY <1>0, <1>6 DEF MarkArchived, LoopPlace
  <2>2. /\ loop.pc = "mark" /\ loop'.pc = "export" /\ loop'.todo \subseteq loop.todo
        /\ archived'[s] = loop.lines
        /\ UNCHANGED <<events, purged, object, exposed, offset>>
        /\ \A t \in Session : t # s => archived'[t] = archived[t]
    BY <1>6, <2>1 DEF MarkArchived, NextOf, LoopType, StoreType
  <2>3. IngestPlace' /\ \A t \in Session : Had(t)' = Had(t)
    BY <2>2, HadFrame DEF Accounted
  <2>4. LoopPlace'
    BY <1>0, <2>2 DEF LoopPlace
  <2>5. ASSUME NEW t \in Session, Guarded(t)' PROVE Kept(t)'
    <3>1. Guarded(t) /\ Kept(t)
      BY <2>2, <2>5 DEF Accounted, Guarded
    <3> QED
      BY <2>1, <2>2, <2>3, <3>1 DEF Kept, KeptInObject, KeptInRows, Replaying
  <2> QED
    BY <2>3, <2>4, <2>5 DEF Accounted
<1>7. ASSUME SelectPurge \/ EndCycle PROVE Accounted'
  <2>1. loop.pc # "replay" /\ loop'.pc \in {"purge", "poll"}
    BY <1>7 DEF SelectPurge, EndCycle, LoopAt
  <2> QED
    BY <1>7, <2>1, PlaceBetween, LoopBookkeepingKeeps DEF SelectPurge, EndCycle
<1>8. ASSUME StartCycle PROVE Accounted'
  <2>1. /\ loop.pc = "poll" /\ loop'.pc = "dump"
        /\ \A t \in loop'.todo : ~purged[t]
    BY <1>8 DEF StartCycle, LoopAt, NeedsExport
  <2>2. LoopPlace'
    BY <1>8, <2>1 DEF StartCycle, LoopPlace
  <2> QED
    BY <1>8, <2>1, <2>2, LoopBookkeepingKeeps DEF StartCycle
<1> QED
  BY <1>1, <1>2, <1>3, <1>4, <1>5, <1>6, <1>7, <1>8 DEF CycleStep

\* Refusals and the death of control.
LEMMA LoopFaultKeeps ==
    ASSUME StoreType, LoopType, Accounted, LoopFault \/ ControlCrash, UNCHANGED workerVars
    PROVE  Accounted'
<1>0. /\ LoopPlace
      /\ loop.pc = "replay" => loop.s \in Session
      /\ UNCHANGED <<events, purged, archived, object, offset>>
  BY DEF LoopType, Accounted, LoopFault, StartRefused, TakeRefused, FinishRefused, RestoreRefused,
         DumpRefused, ExportRefused, ControlCrash
<1>1. IngestPlace' /\ \A t \in Session : Had(t)' = Had(t)
  BY <1>0, HadFrame DEF Accounted
<1>2. ASSUME CutReplay, loop'.pc \in {"start", "restore"} PROVE Accounted'
  <2>1. \A t \in Session : /\ exposed[t] \subseteq exposed'[t]
                           /\ Replaying(t) /\ loop.lines # {} => "cut" \in exposed'[t]
    <3>1. CASE loop.pc # "replay"
      BY <1>2, <3>1 DEF CutReplay, Replaying
    <3>2. CASE loop.pc = "replay" /\ loop.lines # {}
      <4>1. exposed' = [exposed EXCEPT ![loop.s] = @ \cup {"cut"}]
        BY <1>2, <3>2 DEF CutReplay, Expose
      <4> QED
        BY <1>0, <3>2, <4>1 DEF Replaying, StoreType
    <3>3. CASE loop.pc = "replay" /\ loop.lines = {}
      <4>1. exposed' = [exposed EXCEPT ![loop.s] = @ \cup {"unbuilt"}]
        BY <1>2, <3>3 DEF CutReplay, Expose
      <4> QED
        BY <1>0, <3>3, <4>1 DEF Replaying, StoreType
    <3> QED
      BY <3>1, <3>2, <3>3
  <2>2. ASSUME NEW t \in Session, Guarded(t)' PROVE Kept(t)'
    <3>1. Guarded(t) /\ (Replaying(t) => loop.lines = {})
      BY <2>1, <2>2 DEF Guarded
    <3>2. Kept(t)
      BY <3>1 DEF Accounted
    <3> QED
      BY <1>0, <1>1, <1>2, <3>1, <3>2 DEF Kept, KeptInObject, KeptByReplay, KeptInRows, Replaying
  <2> QED
    BY <1>1, <1>2, <2>2, PlaceBetween DEF Accounted
<1>3. ASSUME StartRefused \/ TakeRefused \/ FinishRefused \/ DumpRefused PROVE Accounted'
  <2>1. /\ loop.pc # "replay" /\ loop'.pc \in {"poll", "restore"}
        /\ UNCHANGED exposed
    BY <1>3 DEF StartRefused, TakeRefused, FinishRefused, DumpRefused, LoopAt
  <2> QED
    BY <1>0, <2>1, PlaceBetween, LoopBookkeepingKeeps
<1>4. ASSUME RestoreRefused PROVE Accounted'
  BY <1>2, <1>4 DEF RestoreRefused, NextOf, LoopType
<1>5. ASSUME ExportRefused PROVE Accounted'
  <2>1. /\ loop.pc \in {"put", "mark"} /\ loop'.pc = "export" /\ loop'.todo \subseteq loop.todo
        /\ UNCHANGED exposed
    BY <1>5 DEF ExportRefused, NextOf, LoopType
  <2>2. LoopPlace'
    BY <1>0, <2>1 DEF LoopPlace
  <2> QED
    BY <1>0, <2>1, <2>2, LoopBookkeepingKeeps
<1>6. ASSUME ControlCrash PROVE Accounted'
  BY <1>2, <1>6 DEF ControlCrash, LoopAt
<1> QED
  BY <1>3, <1>4, <1>5, <1>6 DEF LoopFault

\* Every step of the system keeps the inductive invariant.
LEMMA AccountedStep == TypeOK /\ Accounted /\ [Next]_vars => Accounted'
<1> SUFFICES ASSUME TypeOK, Accounted, [Next]_vars PROVE Accounted'
  OBVIOUS
<1>0. StoreType /\ WorkerType /\ LoopType
  BY DEF TypeOK
<1>1. ASSUME UNCHANGED <<events, purged, archived, object, exposed, offset, workerVars, loop>>
      PROVE  Accounted'
  BY <1>0, <1>1, HadFrame, BookkeepingKeeps DEF Accounted
<1>2. ASSUME NEW s \in Session, AppendLine(s) \/ GracePasses(s) PROVE Accounted'
  BY <1>1, <1>2 DEF AppendLine, GracePasses
<1>3. ASSUME NEW r \in Request, AskRestore(r) PROVE Accounted'
  BY <1>1, <1>3 DEF AskRestore
<1>4. ASSUME BeginCycle PROVE Accounted'
  BY <1>0, <1>4, CycleKeeps DEF BeginCycle
<1>5. ASSUME Worker(IngestStep \/ IngestFault \/ ProjectionStep \/ ProjectionFault) PROVE Accounted'
  BY <1>0, <1>5, IngestKeeps, ProjectionKeeps, WorkerFaultKeeps DEF Worker
<1>6. ASSUME Control(RequestStep \/ RestoreStep \/ CycleStep \/ LoopFault) PROVE Accounted'
  BY <1>0, <1>6, RequestKeeps, RestoreKeeps, CycleKeeps, LoopFaultKeeps DEF Control
<1>7. ASSUME Die(NodeCrash, <<loop>>) PROVE Accounted'
  BY <1>0, <1>7, WorkerFaultKeeps DEF Die
<1>8. ASSUME Die(ControlCrash, workerVars) PROVE Accounted'
  BY <1>0, <1>8, LoopFaultKeeps DEF Die
<1>9. ASSUME UNCHANGED vars PROVE Accounted'
  BY <1>1, <1>9 DEF vars
<1> QED
  BY <1>2, <1>3, <1>4, <1>5, <1>6, <1>7, <1>8, <1>9 DEF Next, Worker, Control

\* The inductive invariant holds throughout.
THEOREM AlwaysAccounted == Spec => []Accounted
<1>1. Init => Accounted
  BY DEF Init, InitStore, InitWorker, InitLoop, Accounted, IngestPlace, LoopPlace, IngIdle, LoopAt,
         Kept, KeptInRows, Had, Walked, Replaying
<1> QED
  BY <1>1, AccountedStep, TypeCorrect, PTL DEF Spec

\* No line the ingester has passed is ever lost, outside the two windows.
THEOREM NoLineIsLost == Spec => []NothingLost
<1>1. TypeOK /\ Accounted => NothingLost
  <2> SUFFICES ASSUME TypeOK, Accounted, NEW s \in Session, Guarded(s)
               PROVE  /\ Passed(s) \subseteq events[s] \cup (IF purged[s] \/ Replaying(s) THEN object[s] ELSE {})
                      /\ purged[s] => Restorable(s)
    BY DEF NothingLost
  <2>1. Passed(s) \subseteq Had(s)
    <3>1. offset[s] \in 0 .. MaxLines /\ ing.next \in 0 .. MaxLines
      BY DEF TypeOK, StoreType, WorkerType
    <3>2. offset[s] <= Walked(s) /\ Walked(s) \in 0 .. MaxLines
      BY <3>1, StoreAssumption DEF Accounted, IngestPlace, Walked
    <3> QED
      BY <3>1, <3>2, StoreAssumption DEF Passed, Had
  <2>2. Kept(s)
    BY DEF Accounted
  <2> QED
    BY <2>1, <2>2 DEF Kept, KeptInObject, KeptByReplay, KeptInRows, Restorable
<1> QED
  BY <1>1, TypeCorrect, AlwaysAccounted, PTL

-----------------------------------------------------------------------------
(* What follows about usage and about deletions.                           *)

\* A step that deletes no row, and does not touch what UsageCountedOnce and
\* RollupExact read.
Quiet == /\ UNCHANGED <<contrib, rollup, purged, archived>>
         /\ \A s \in Session : events[s] \subseteq events'[s]

\* The purge of one session, by the cycle or after a restore.
Purges(s) == loop.pc # "replay" /\ PurgeAllowed(s) /\ PurgeSession(s)

\* Only a purge, a withdrawal and the recording of an export are not quiet,
\* and no step takes a session back out of a window.
LEMMA StepKinds ==
    ASSUME TypeOK, [Next]_vars
    PROVE  /\ \A s \in Session : exposed[s] \subseteq exposed'[s]
           /\ Quiet \/ (\E s \in Session : Purges(s)) \/ Withdraw \/ MarkArchived
<1> DEFINE Shown == \A s \in Session : exposed[s] \subseteq exposed'[s]
<1>0. /\ exposed \in [Session -> SUBSET Windows] /\ events \in [Session -> SUBSET Line]
      /\ loop.pc \in {"repurge", "replay"} => loop.s \in Session
  BY DEF TypeOK, StoreType, LoopType
<1>1. ASSUME UNCHANGED <<contrib, rollup, purged, archived, events, exposed>> PROVE Shown /\ Quiet
  BY <1>1 DEF Quiet
<1>2. ASSUME NEW s, NEW n, InsertEvent(s, n), UNCHANGED <<contrib, rollup, purged, archived>>
      PROVE  Shown /\ Quiet
  BY <1>0, <1>2 DEF InsertEvent, Quiet
<1>3. ASSUME Abandon \/ CutReplay, UNCHANGED rowVars PROVE Shown /\ Quiet
  <2>1. UNCHANGED exposed \/ \E s, w : Expose(s, w)
    BY <1>3 DEF Abandon, CutReplay
  <2>2. Shown
    BY <1>0, <2>1 DEF Expose
  <2> QED
    BY <1>3, <2>2 DEF Quiet
<1>4. ASSUME NEW s \in Session, Purges(s) PROVE Shown /\ \E t \in Session : Purges(t)
  BY <1>4 DEF Purges, PurgeSession
<1>5. CASE (\E s \in Session : AppendLine(s) \/ GracePasses(s)) \/ (\E r \in Request : AskRestore(r))
  BY <1>1, <1>5 DEF AppendLine, GracePasses, AskRestore
<1>6. CASE BeginCycle
  BY <1>1, <1>6 DEF BeginCycle, StartCycle
<1>7. CASE Worker(IngestStep)
  BY <1>1, <1>2, <1>7 DEF Worker, IngestStep, ScanFile, CheckPurged, DeferPurged, InsertLine,
     CommitOffset, FinishFile
<1>8. CASE Worker(IngestFault) \/ Die(NodeCrash, <<loop>>)
  BY <1>1, <1>3, <1>8 DEF Worker, Die, IngestFault, InsertRefused, FileRefused, NodeCrash
<1>9. CASE Worker(ProjectionStep) \/ Worker(ProjectionFault)
  BY <1>1, <1>9 DEF Worker, ProjectionStep, ProjectionFault, Recover, TakeProjection, RunBatch,
     RecoverRefused, BatchRefused
<1>10. CASE Control(RequestStep)
  BY <1>1, <1>10 DEF Control, RequestStep, StartLoop, TakeRequest, FinishRequest
<1>11. CASE Control(RestoreStep)
  <2>1. ASSUME NEW s \in Session, OpenArchive(s) \/ CannotRestore(s) PROVE Shown /\ Quiet
    BY <1>1, <2>1 DEF OpenArchive, CannotRestore
  <2>2. ASSUME Withdraw PROVE Shown
    BY <2>2 DEF Withdraw, WithdrawAndClear
  <2>3. ASSUME ReplayLine PROVE Shown /\ Quiet
    BY <1>2, <2>3 DEF ReplayLine
  <2>4. ASSUME RebuildReplayed \/ ProjectReplayed \/ PurgeAgainSkipped PROVE Shown /\ Quiet
    BY <1>1, <2>4 DEF RebuildReplayed, ProjectReplayed, PurgeAgainSkipped
  <2>5. ASSUME PurgeAgain PROVE Shown /\ \E s \in Session : Purges(s)
    <3>1. loop.s \in Session /\ Purges(loop.s)
      BY <1>0, <2>5 DEF PurgeAgain, Purges
    <3> QED
      BY <1>4, <3>1
  <2> QED
    BY <1>11, <2>1, <2>2, <2>3, <2>4, <2>5 DEF Control, RestoreStep
<1>12. CASE Control(CycleStep)
  <2>1. ASSUME NEW s \in Session, ReadEvents(s) \/ PurgeSkipped(s) PROVE Shown /\ Quiet
    BY <1>1, <2>1 DEF ReadEvents, PurgeSkipped
  <2>2. ASSUME NEW s \in Session, PurgeOne(s) PROVE Shown /\ \E t \in Session : Purges(t)
    BY <1>4, <2>2 DEF PurgeOne, Purges
  <2>3. ASSUME DumpDurableTables \/ PutObject \/ SelectPurge \/ EndCycle PROVE Shown /\ Quiet
    BY <1>1, <2>3 DEF DumpDurableTables, PutObject, SelectPurge, EndCycle
  <2>4. ASSUME MarkArchived PROVE Shown
    BY <2>4 DEF MarkArchived
  <2> QED
    BY <1>12, <2>1, <2>2, <2>3, <2>4 DEF Control, CycleStep
<1>13. CASE Control(LoopFault) \/ Die(ControlCrash, workerVars)
  <2>1. ASSUME StartRefused \/ TakeRefused \/ FinishRefused \/ DumpRefused \/ ExportRefused
        PROVE  Shown /\ Quiet
    BY <1>1, <2>1 DEF StartRefused, TakeRefused, FinishRefused, DumpRefused, ExportRefused
  <2>2. ASSUME RestoreRefused \/ ControlCrash PROVE Shown /\ Quiet
    BY <1>3, <2>2 DEF RestoreRefused, ControlCrash
  <2> QED
    BY <1>13, <2>1, <2>2 DEF Control, Die, LoopFault
<1>14. CASE UNCHANGED vars
  BY <1>1, <1>14 DEF vars
<1> QED
  BY <1>5, <1>6, <1>7, <1>8, <1>9, <1>10, <1>11, <1>12, <1>13, <1>14 DEF Next

\* Usage is counted once, however often a session is restored and purged again.
THEOREM UsageIsCountedOnce == Spec => []UsageCountedOnce
<1>1. Init => UsageCountedOnce
  BY DEF Init, InitStore, UsageCountedOnce
<1>2. TypeOK /\ Accounted /\ UsageCountedOnce /\ [Next]_vars => UsageCountedOnce'
  <2> SUFFICES ASSUME TypeOK, Accounted, UsageCountedOnce, [Next]_vars,
                      NEW s \in Session, Guarded(s)'
               PROVE  contrib'[s] = IF purged'[s] THEN archived'[s] ELSE {}
    BY DEF UsageCountedOnce
  <2>1. Guarded(s)
    BY StepKinds DEF Guarded
  <2>2. contrib[s] = (IF purged[s] THEN archived[s] ELSE {}) /\ Kept(s) /\ StoreType /\ LoopType
    BY <2>1 DEF UsageCountedOnce, Accounted, TypeOK
  <2>3. CASE Quiet
    BY <2>2, <2>3 DEF Quiet
  <2>4. ASSUME NEW t \in Session, Purges(t) PROVE contrib'[s] = IF purged'[s] THEN archived'[s] ELSE {}
    <3>1. CASE s = t
      <4>1. archived[s] = events[s] /\ ~purged[s]
        BY <2>1, <2>2, <2>4, <3>1, PurgeFindsAll DEF Purges, Replaying
      <4> QED
        BY <2>2, <2>4, <3>1, <4>1 DEF Purges, PurgeSession, StoreType
    <3>2. CASE s # t
      BY <2>2, <2>4, <3>2 DEF Purges, PurgeSession, StoreType
    <3> QED
      BY <3>1, <3>2
  <2>5. CASE Withdraw
    BY <2>2, <2>5 DEF Withdraw, WithdrawAndClear, StoreType
  <2>6. CASE MarkArchived
    <3>1. loop.s \in Session /\ ~purged[loop.s]
      BY <2>2, <2>6 DEF MarkArchived, Accounted, LoopPlace, LoopType
    <3> QED
      BY <2>2, <2>6, <3>1 DEF MarkArchived, StoreType
  <2> QED
    BY <2>3, <2>4, <2>5, <2>6, StepKinds
<1> QED
  BY <1>1, <1>2, TypeCorrect, AlwaysAccounted, PTL DEF Spec

\* A set of contributions: what one session adds, and what stays without it.
LEMMA OneSessionsShare ==
    ASSUME contrib \in [Session -> SUBSET Line], NEW s \in Session, NEW S \in SUBSET Line,
           IsFiniteSet(Contributions)
    PROVE  LET others == Contributions \ ({s} \X contrib[s])
               after  == UNION {{t} \X [contrib EXCEPT ![s] = S][t] : t \in Session}
           IN  /\ after = others \cup ({s} \X S)
               /\ IsFiniteSet(after)
               /\ Cardinality(after) = Cardinality(Contributions) - Cardinality(contrib[s]) + Cardinality(S)
               /\ Cardinality(contrib[s]) <= Cardinality(Contributions)
<1> DEFINE others == Contributions \ ({s} \X contrib[s])
           new    == [contrib EXCEPT ![s] = S]
           after  == UNION {{t} \X new[t] : t \in Session}
<1>1. ASSUME NEW T \in SUBSET Line
      PROVE  IsFiniteSet({s} \X T) /\ Cardinality({s} \X T) = Cardinality(T) /\ Cardinality(T) \in Nat
  <2>1. IsFiniteSet(T) /\ Cardinality(T) \in Nat
    BY LinesFinite
  <2>2. IsFiniteSet({s}) /\ Cardinality({s}) = 1
    BY FS_Singleton
  <2>3. IsFiniteSet({s} \X T) /\ Cardinality({s} \X T) = Cardinality({s}) * Cardinality(T)
    BY <2>1, <2>2, FS_Product
  <2> QED
    BY <2>1, <2>2, <2>3
<1>2. ASSUME NEW x PROVE x \in Contributions <=> \E t \in Session : x \in {t} \X contrib[t]
  BY DEF Contributions
<1>3. ASSUME NEW x PROVE x \in after <=> \E t \in Session : x \in {t} \X new[t]
  OBVIOUS
<1>4. new[s] = S /\ \A t \in Session : t # s => new[t] = contrib[t]
  OBVIOUS
<1> HIDE DEF after, new
<1>5. ASSUME NEW x PROVE x \in after <=> x \in others \cup ({s} \X S)
  <2>1. ASSUME NEW t \in Session, t # s, x \in {t} \X contrib[t] PROVE x \notin {s} \X contrib[s]
    BY <2>1
  <2> QED
    BY <1>2, <1>3, <1>4, <2>1
<1>6. after = others \cup ({s} \X S)
  BY <1>5
<1>7. others \cap ({s} \X S) = {} /\ {s} \X contrib[s] \subseteq Contributions
  <2>1. ASSUME NEW x \in others PROVE x \notin {s} \X S
    <3>1. PICK t \in Session : x \in {t} \X contrib[t]
      BY <1>2
    <3> QED
      BY <3>1
  <2> QED
    BY <1>2, <2>1
<1>8. IsFiniteSet(others) /\ Cardinality(others) = Cardinality(Contributions) - Cardinality(contrib[s])
      /\ Cardinality(contrib[s]) <= Cardinality(Contributions)
  <2>1. Contributions \cap ({s} \X contrib[s]) = {s} \X contrib[s]
    BY <1>7
  <2>2. IsFiniteSet(others) /\ Cardinality(others) = Cardinality(Contributions) - Cardinality({s} \X contrib[s])
    <3>1. /\ IsFiniteSet(Contributions \ ({s} \X contrib[s]))
          /\ Cardinality(Contributions \ ({s} \X contrib[s])) =
               Cardinality(Contributions) - Cardinality(Contributions \cap ({s} \X contrib[s]))
      BY FS_Difference
    <3> QED
      BY <2>1, <3>1
  <2>3. Cardinality({s} \X contrib[s]) <= Cardinality(Contributions)
    BY <1>7, FS_Subset
  <2> QED
    BY <1>1, <2>2, <2>3
<1>9. IsFiniteSet(after) /\ Cardinality(after) = Cardinality(others) + Cardinality(S)
  <2>1. IsFiniteSet(others \cup ({s} \X S)) /\
        Cardinality(others \cup ({s} \X S)) = Cardinality(others) + Cardinality({s} \X S) - Cardinality({})
    <3> DEFINE part == {s} \X S
    <3>1. IsFiniteSet(part) /\ IsFiniteSet(others) /\ others \cap part = {}
      BY <1>1, <1>7, <1>8
    <3> HIDE DEF part, others
    <3>2. /\ IsFiniteSet(others \cup part)
          /\ Cardinality(others \cup part) = Cardinality(others) + Cardinality(part) - Cardinality(others \cap part)
      BY <3>1, FS_Union
    <3> QED
      BY <3>1, <3>2 DEF part
  <2>2. Cardinality(others) \in Nat /\ Cardinality({}) = 0
    BY <1>8, FS_CardinalityType, FS_EmptySet
  <2> QED
    BY <1>1, <1>6, <2>1, <2>2
<1> QED
  BY <1>1, <1>6, <1>8, <1>9 DEF after, new

\* What RollupExact needs: a session that is not purged has nothing on record,
\* so a purge adds what it counts and no more.
RollupInv ==
    /\ IsFiniteSet(Contributions)
    /\ RollupExact
    /\ \A s \in Session : ~purged[s] => contrib[s] = {}

\* The rollup is the sum of the contributions on record, for any number of
\* sessions and lines, whatever windows they were caught in.
THEOREM RollupIsExact == Spec => []RollupExact
<1>1. Init => RollupInv
  <2> SUFFICES ASSUME Init PROVE RollupInv
    OBVIOUS
  <2>1. contrib = [s \in Session |-> {}] /\ rollup = 0
    BY DEF Init, InitStore
  <2>2. Contributions = {}
    BY <2>1 DEF Contributions
  <2> QED
    BY <2>1, <2>2, FS_EmptySet DEF RollupInv, RollupExact
<1>2. TypeOK /\ RollupInv /\ [Next]_vars => RollupInv'
  <2> SUFFICES ASSUME TypeOK, RollupInv, [Next]_vars PROVE RollupInv'
    OBVIOUS
  <2>1. /\ contrib \in [Session -> SUBSET Line] /\ events \in [Session -> SUBSET Line]
        /\ purged \in [Session -> BOOLEAN] /\ rollup \in Nat
        /\ loop.pc = "withdraw" => loop.s \in Session
    BY DEF TypeOK, StoreType, LoopType
  <2>2. IsFiniteSet(Contributions) /\ rollup = Cardinality(Contributions)
        /\ \A s \in Session : ~purged[s] => contrib[s] = {}
    BY DEF RollupInv, RollupExact
  <2>3. CASE UNCHANGED <<contrib, rollup, purged>>
    BY <2>3 DEF RollupInv, RollupExact, Contributions
  <2>4. ASSUME NEW s \in Session, Purges(s) PROVE RollupInv'
    <3>1. /\ ~purged[s] /\ contrib' = [contrib EXCEPT ![s] = contrib[s] \cup events[s]]
          /\ rollup' = rollup + Cardinality(contrib[s] \cup events[s])
          /\ purged' = [purged EXCEPT ![s] = TRUE]
      BY <2>4 DEF Purges, PurgeAllowed, PurgeCandidate, PurgeSession
    <3>2. contrib[s] = {} /\ contrib[s] \cup events[s] \in SUBSET Line
      BY <2>1, <2>2, <3>1
    <3>3. /\ IsFiniteSet(Contributions')
          /\ Cardinality(Contributions') = Cardinality(Contributions) - Cardinality(contrib[s])
                                            + Cardinality(contrib[s] \cup events[s])
      <4> DEFINE S == contrib[s] \cup events[s]
      <4>1. S \in SUBSET Line /\ contrib' = [contrib EXCEPT ![s] = S]
        BY <3>1, <3>2
      <4> HIDE DEF S
      <4>2. Contributions' = UNION {{t} \X [contrib EXCEPT ![s] = S][t] : t \in Session}
        BY <4>1 DEF Contributions
      <4>3. /\ IsFiniteSet(Contributions')
            /\ Cardinality(Contributions') = Cardinality(Contributions) - Cardinality(contrib[s]) + Cardinality(S)
        BY <2>1, <2>2, <4>1, <4>2, OneSessionsShare
      <4> QED
        BY <4>3 DEF S
    <3>4. Cardinality(contrib[s]) = 0 /\ Cardinality(contrib[s] \cup events[s]) \in Nat
      BY <3>2, FS_EmptySet, LinesFinite
    <3>5. RollupExact'
      BY <2>1, <2>2, <3>1, <3>3, <3>4 DEF RollupExact
    <3>6. ASSUME NEW t \in Session, ~purged'[t] PROVE contrib'[t] = {}
      BY <2>1, <2>2, <3>1, <3>6
    <3> QED
      BY <3>3, <3>5, <3>6 DEF RollupInv
  <2>5. CASE Withdraw
    <3> DEFINE s == loop.s
    <3>1. s \in Session /\ contrib' = [contrib EXCEPT ![s] = {}]
          /\ rollup' = (IF rollup >= Cardinality(contrib[s]) THEN rollup - Cardinality(contrib[s]) ELSE 0)
          /\ purged' = [purged EXCEPT ![s] = FALSE]
      BY <2>1, <2>5 DEF Withdraw, WithdrawAndClear
    <3> HIDE DEF s
    <3>2. /\ IsFiniteSet(Contributions')
          /\ Cardinality(Contributions') = Cardinality(Contributions) - Cardinality(contrib[s]) + Cardinality({})
          /\ Cardinality(contrib[s]) <= Cardinality(Contributions)
      <4>1. {} \in SUBSET Line
        OBVIOUS
      <4> QED
        BY <2>1, <2>2, <3>1, <4>1, OneSessionsShare DEF Contributions
    <3>3. Cardinality({}) = 0 /\ Cardinality(contrib[s]) \in Nat
      BY <2>1, <3>1, FS_EmptySet, LinesFinite
    <3>4. RollupExact'
      BY <2>1, <2>2, <3>1, <3>2, <3>3 DEF RollupExact
    <3>5. ASSUME NEW t \in Session, ~purged'[t] PROVE contrib'[t] = {}
      BY <2>1, <2>2, <3>1, <3>5
    <3> QED
      BY <3>2, <3>4, <3>5 DEF RollupInv
  <2>6. CASE MarkArchived
    BY <2>3, <2>6 DEF MarkArchived, usageVars
  <2> QED
    BY <2>3, <2>4, <2>5, <2>6, StepKinds DEF Quiet
<1>3. RollupInv => RollupExact
  BY DEF RollupInv
<1> QED
  BY <1>1, <1>2, <1>3, TypeCorrect, PTL DEF Spec

\* Rows are deleted only when the object holds them under the recorded hash.
THEOREM RowsLeaveExported == Spec => DeletesOnlyExported
<1>1. TypeOK /\ Accounted /\ [Next]_vars =>
        [\A s \in Session : Guarded(s) /\ ~(events[s] \subseteq events'[s]) =>
            events[s] \subseteq object[s] /\ object[s] = archived[s]]_vars
  <2> SUFFICES ASSUME TypeOK, Accounted, [Next]_vars, NEW s \in Session, Guarded(s),
                      ~(events[s] \subseteq events'[s])
               PROVE  events[s] \subseteq object[s] /\ object[s] = archived[s]
    OBVIOUS
  <2>1. Kept(s) /\ StoreType /\ LoopType
    BY DEF Accounted, TypeOK
  <2>2. ASSUME NEW t \in Session, Purges(t)
        PROVE  events[s] \subseteq object[s] /\ object[s] = archived[s]
    <3>1. s = t
      BY <2>1, <2>2 DEF Purges, PurgeSession, StoreType
    <3> QED
      BY <2>1, <2>2, <3>1, PurgeFindsAll DEF Purges, Replaying
  <2>3. ~Quiet /\ ~MarkArchived
    BY DEF Quiet, MarkArchived
  <2>4. ~Withdraw
    <3> SUFFICES ASSUME Withdraw PROVE FALSE
      OBVIOUS
    <3>1. s = loop.s
      BY <2>1 DEF Withdraw, WithdrawAndClear, StoreType
    <3> QED
      BY <2>1, <3>1 DEF Withdraw, Accounted, LoopPlace, Kept, KeptInObject
  <2> QED
    BY <2>2, <2>3, <2>4, StepKinds
<1> QED
  BY <1>1, TypeCorrect, AlwaysAccounted, PTL DEF Spec, DeletesOnlyExported

-----------------------------------------------------------------------------
(* The digest of a purged session.                                         *)

\* The tick in progress has inserted rows into the session.
Fresh(s) == ing.s = s /\ ing.first # 0

\* No row lies past what was committed or walked with a fresh row.
Reached(s) == IF Fresh(s) /\ ing.pc = "insert" THEN ing.next ELSE offset[s]

InRestore(s) == loop.s = s /\ loop.pc \in {"withdraw", "replay", "project", "repurge"}

\* The first fresh row is not exported when the session may be purged.
FreshIsUnexported(s) ==
    Fresh(s) => /\ ~purged[s]
                /\ aged[s] \/ InRestore(s) => ing.first \in events[s] \ archived[s]

\* The timeline has every row up to its cursor, but the fresh ones of the
\* tick in progress, and those a replay puts back behind it.
TimelineExact(s) ==
    ~purged[s] /\ version[s] = "current" =>
       /\ turns[s] \subseteq events[s]
       /\ ~Replaying(s) =>
             \A n \in events[s] : n <= through[s] => n \in turns[s] \/ (Fresh(s) /\ ing.first <= n)

DigestKept(s) ==
    /\ events[s] \cup archived[s] \subseteq 1 .. Reached(s)
    /\ FreshIsUnexported(s)
    /\ purged[s] => version[s] = "current" /\ turns[s] = archived[s]
    /\ TimelineExact(s)

TickPlace == ing.first # 0 => ing.pc \in {"insert", "behind"} /\ ing.first <= ing.next

PurgeListAged == loop.pc = "purge" => \A t \in loop.todo : aged[t]

\* The inductive form of DigestComplete.
DigestInv ==
    /\ TickPlace
    /\ PurgeListAged
    /\ \A s \in Session : exposed[s] = {} => DigestKept(s)

\* The store's view of a session, and the part of a tick that matters to its
\* digest, rest: nothing is lost by an advance of the tick or of the loop.
LEMMA DigestRests ==
    ASSUME NEW s \in Session, DigestKept(s),
           events'[s] = events[s], purged'[s] = purged[s], archived'[s] = archived[s],
           turns'[s] = turns[s], through'[s] = through[s], version'[s] = version[s],
           aged'[s] => aged[s] \/ ~Fresh(s),
           Fresh(s)' <=> Fresh(s), Fresh(s) => ing'.first = ing.first,
           1 .. Reached(s) \subseteq 1 .. Reached(s)',
           InRestore(s)' => InRestore(s) \/ ~Fresh(s),
           Replaying(s) => Replaying(s)'
    PROVE  DigestKept(s)'
<1>1. FreshIsUnexported(s)'
  BY DEF DigestKept, FreshIsUnexported
<1>2. TimelineExact(s)'
  BY DEF DigestKept, TimelineExact
<1> QED
  BY <1>1, <1>2 DEF DigestKept

\* The same when the ingester does not move.
LEMMA DigestRestsLoop ==
    ASSUME NEW s \in Session, DigestKept(s), UNCHANGED <<ing, offset>>,
           events'[s] = events[s], purged'[s] = purged[s], archived'[s] = archived[s],
           turns'[s] = turns[s], through'[s] = through[s], version'[s] = version[s],
           aged'[s] => aged[s] \/ ~Fresh(s),
           InRestore(s)' => InRestore(s) \/ ~Fresh(s),
           Replaying(s) => Replaying(s)'
    PROVE  DigestKept(s)'
<1>1. (Fresh(s)' <=> Fresh(s)) /\ Reached(s)' = Reached(s)
  BY DEF Fresh, Reached
<1> QED
  BY <1>1, DigestRests

\* Where a loop that ends a session, a list or a request goes.
LEMMA LoopLands ==
    ASSUME LoopType, NEW pc
    PROVE  /\ LoopAt(pc).pc = pc /\ LoopAt(pc).s = NoSession
           /\ NextOf(pc).pc = pc /\ NextOf(pc).s = NoSession
           /\ \A todo : LET l == [LoopAt(pc) EXCEPT !.todo = todo]
                         IN l.pc = pc /\ l.s = NoSession /\ l.todo = todo
           /\ \A todo, again : LET l == [LoopAt(pc) EXCEPT !.todo = todo, !.again = again]
                                IN l.pc = pc /\ l.s = NoSession
BY DEF LoopAt, NextOf, LoopType

\* A tick inserts a row of its own: it is past every row there is.
LEMMA DigestInsert ==
    ASSUME TypeOK, Accounted, TickPlace, NEW s \in Session, exposed'[s] = {}, exposed[s] = {},
           DigestKept(s), InsertLine, UNCHANGED loop
    PROVE  DigestKept(s)'
<1> DEFINE n == ing.next + 1
<1>0. /\ ing.s \in Session /\ ing.pc = "insert" /\ ing.next \in Nat /\ ing.first \in Nat
      /\ n \in Nat /\ offset[ing.s] \in Nat /\ offset[ing.s] <= ing.next
      /\ UNCHANGED <<offset, purged, archived, aged, turns, through, version>>
      /\ ing' = [ing EXCEPT !.next = n, !.first = IF @ = 0 /\ n \notin events[ing.s] THEN n ELSE @]
      /\ events' = [events EXCEPT ![ing.s] = @ \cup {n}]
  <2>1. ing.pc = "insert" /\ ing.s \in Session /\ ing.next \in Nat /\ ing.first \in Nat
    BY StoreAssumption DEF InsertLine, TypeOK, WorkerType
  <2>2. offset[ing.s] \in Nat /\ offset[ing.s] <= ing.next
    BY <2>1, StoreAssumption DEF TypeOK, StoreType, Accounted, IngestPlace
  <2> QED
    BY <2>1, <2>2 DEF InsertLine, InsertEvent
<1>1. /\ ing'.s = ing.s /\ ing'.pc = "insert" /\ ing'.next = n
      /\ ing'.first = IF ing.first = 0 /\ n \notin events[ing.s] THEN n ELSE ing.first
  BY <1>0 DEF TypeOK, WorkerType
<1>2. CASE s # ing.s
  <2>1. ~Fresh(s) /\ ~Fresh(s)' /\ Reached(s)' = Reached(s) /\ events'[s] = events[s]
    BY <1>0, <1>1, <1>2 DEF Fresh, Reached, TypeOK, StoreType
  <2> QED
    BY <1>0, <2>1, DigestRests DEF InRestore, Replaying
<1>3. CASE s = ing.s
  <2>1. events[s] \cup archived[s] \subseteq 1 .. Reached(s) /\ Reached(s) <= ing.next /\ Reached(s) \in Nat
    BY <1>0, <1>3 DEF DigestKept, Reached
  <2>2. n \notin events[s] /\ n \notin archived[s]
    BY <1>0, <2>1
  <2>3. ~purged[s]
    BY <1>0, <1>3, <2>2 DEF InsertLine, InsertEvent, TypeOK, StoreType
  <2>4. events'[s] = events[s] \cup {n}
    BY <1>0, <1>3 DEF TypeOK, StoreType
  <2>5. /\ ing'.first \in Nat /\ ing'.first # 0 /\ ing'.first <= n
        /\ ing'.first = IF ing.first = 0 THEN n ELSE ing.first
    BY <1>0, <1>1, <1>3, <2>2 DEF TickPlace
  <2>6. Fresh(s)' /\ Reached(s)' = n
    BY <1>0, <1>1, <1>3, <2>5 DEF Fresh, Reached
  <2>7. (events[s] \cup archived[s] \subseteq 1 .. Reached(s))'
    BY <1>0, <2>1, <2>4, <2>6
  <2>8. FreshIsUnexported(s)'
    <3>1. CASE ing.first = 0
      BY <1>0, <2>2, <2>3, <2>4, <2>5, <3>1 DEF FreshIsUnexported
    <3>2. CASE ing.first # 0
      <4>1. Fresh(s)
        BY <1>3, <3>2 DEF Fresh
      <4> QED
        BY <1>0, <2>3, <2>4, <2>5, <3>2, <4>1 DEF FreshIsUnexported, DigestKept, InRestore
    <3> QED
      BY <3>1, <3>2
  <2>9. TimelineExact(s)'
    <3> SUFFICES ASSUME version[s] = "current"
                 PROVE  /\ turns[s] \subseteq events'[s]
                        /\ ~Replaying(s) => \A m \in events'[s] : m <= through[s] =>
                              m \in turns[s] \/ (Fresh(s)' /\ ing'.first <= m)
      BY <1>0 DEF TimelineExact, Replaying
    <3>1. /\ turns[s] \subseteq events[s]
          /\ ~Replaying(s) => \A m \in events[s] : m <= through[s] =>
                m \in turns[s] \/ (Fresh(s) /\ ing.first <= m)
      BY <2>3 DEF DigestKept, TimelineExact
    <3>2. Fresh(s) => ing'.first = ing.first
      BY <2>5 DEF Fresh
    <3> QED
      BY <2>4, <2>5, <2>6, <3>1, <3>2
  <2> QED
    BY <1>0, <2>3, <2>7, <2>8, <2>9 DEF DigestKept
<1> QED
  BY <1>2, <1>3

\* The end of a tick: rows it put behind the cursor call for a rebuild.
LEMMA DigestFinish ==
    ASSUME TypeOK, TickPlace, NEW s \in Session, DigestKept(s), FinishFile, UNCHANGED loop
    PROVE  DigestKept(s)'
<1>0. /\ ing.s \in Session /\ ing.pc = "behind" /\ ing.first \in Nat /\ ing' = IngIdle
      /\ UNCHANGED <<offset, events, purged, archived, aged, turns, through>>
      /\ version' = IF InsertedBehind(ing.s) THEN [version EXCEPT ![ing.s] = Marked(ing.s)] ELSE version
      /\ version \in [Session -> Versions] /\ through[s] \in Nat
  BY StoreAssumption DEF FinishFile, RequestRebuild, TypeOK, WorkerType, StoreType, archiveVars
<1>1. ~Fresh(s)' /\ Reached(s)' = offset[s]
  BY <1>0, StoreAssumption DEF Fresh, Reached, IngIdle
<1>2. Reached(s) = offset[s]
  BY <1>0 DEF Reached
<1>3. FreshIsUnexported(s)'
  BY <1>1 DEF FreshIsUnexported
<1>4. CASE ~Fresh(s)
  <2>1. version'[s] = version[s]
    BY <1>0, <1>4 DEF Fresh, InsertedBehind
  <2> QED
    BY <1>0, <1>1, <1>2, <1>4, <2>1, DigestRests DEF InRestore, Replaying
<1>5. CASE Fresh(s)
  <2>1. ~purged[s] /\ ing.s = s /\ ing.first # 0
    BY <1>5 DEF DigestKept, FreshIsUnexported, Fresh
  <2>2. TimelineExact(s)'
    <3>1. CASE InsertedBehind(s)
      <4>1. version'[s] # "current"
        BY <1>0, <2>1, <3>1 DEF Marked
      <4> QED
        BY <4>1 DEF TimelineExact
    <3>2. CASE ~InsertedBehind(s)
      <4>1. version' = version /\ (version[s] = "current" => through[s] < ing.first)
        BY <1>0, <2>1, <3>2 DEF InsertedBehind
      <4>2. events[s] \subseteq Nat
        BY DEF TypeOK, StoreType, Line
      <4> QED
        BY <1>0, <4>1, <4>2 DEF TimelineExact, DigestKept, Replaying
    <3> QED
      BY <3>1, <3>2
  <2> QED
    BY <1>0, <1>1, <1>2, <1>3, <2>1, <2>2 DEF DigestKept
<1> QED
  BY <1>4, <1>5

\* A batch takes the rows after its cursor in order, up to the last it loaded.
LEMMA BatchInOrder ==
    ASSUME StoreType, NEW s \in Session, NEW c \in Nat,
           NEW n \in events[s], n > c, NextEvents(s, c) # {}, n <= Last(NextEvents(s, c))
    PROVE  n \in NextEvents(s, c)
<1> DEFINE later == {k \in events[s] : k > c}
           before(x) == {k \in later : k < x}
           m == Last(NextEvents(s, c))
<1>1. events[s] \subseteq Line /\ later \in SUBSET Line /\ Line \subseteq Nat
  BY StoreAssumption DEF StoreType, Line
<1>2. NextEvents(s, c) = {k \in later : Cardinality(before(k)) < BatchEvents}
  BY DEF NextEvents
<1>3. m \in NextEvents(s, c)
  BY <1>1, <1>2, LastIn
<1>4. m \in later /\ Cardinality(before(m)) < BatchEvents
  BY <1>2, <1>3
<1>5. before(m) \in SUBSET Line /\ before(n) \in SUBSET before(m)
  <2>1. m \in Nat /\ n \in Nat /\ n <= m
    BY <1>1, <1>4
  <2>2. \A k \in later : k \in Nat
    BY <1>1
  <2> HIDE DEF m, later
  <2>3. \A k \in later : k < n => k < m
    BY <2>1, <2>2
  <2> QED
    BY <1>1, <2>3
<1>6. /\ Cardinality(before(n)) <= Cardinality(before(m))
      /\ Cardinality(before(n)) \in Nat /\ Cardinality(before(m)) \in Nat
  <2>1. IsFiniteSet(before(m)) /\ Cardinality(before(m)) \in Nat
    BY <1>5, LinesFinite
  <2>2. before(n) \in SUBSET Line
    BY <1>5
  <2> HIDE DEF before
  <2> QED
    BY <1>5, <2>1, <2>2, LinesFinite, FS_Subset
<1>7. Cardinality(before(n)) < BatchEvents
  BY <1>4, <1>6, StoreAssumption
<1> QED
  BY <1>2, <1>7

\* A batch leaves the timeline exact up to its new cursor.
LEMMA BatchIsExact ==
    ASSUME TypeOK, NEW s \in Session, DigestKept(s), ~purged[s], ProjectBatch(s)
    PROVE  /\ turns'[s] \subseteq events[s]
           /\ ~Replaying(s) \/ version[s] # "current" =>
                 \A n \in events[s] : n <= through'[s] =>
                    n \in turns'[s] \/ (Fresh(s) /\ ing.first <= n)
<1> DEFINE c == BatchCursor(s)
           load == NextEvents(s, c)
<1>0. StoreType /\ c \in Nat
  BY StoreAssumption DEF TypeOK, StoreType, BatchCursor
<1>a. ASSUME NEW n \in events[s] PROVE n \in Nat /\ n > 0
  BY StoreAssumption DEF TypeOK, StoreType, Line
<1>1. /\ turns'[s] = BatchBase(s) \cup load
      /\ through'[s] = IF load = {} THEN c ELSE Last(load)
  BY DEF ProjectBatch, TypeOK, StoreType, BatchLoaded
<1>2. load \subseteq events[s]
  BY DEF NextEvents
<1>3. BatchBase(s) \subseteq events[s]
  BY DEF BatchBase, DigestKept, TimelineExact
<1>4. ASSUME ~Replaying(s) \/ version[s] # "current", NEW n \in events[s], n <= c
      PROVE  n \in BatchBase(s) \/ (Fresh(s) /\ ing.first <= n)
  <2>1. CASE version[s] = "current"
    BY <1>4, <2>1 DEF BatchBase, BatchCursor, DigestKept, TimelineExact
  <2>2. CASE version[s] # "current"
    <3>1. c = 0
      BY <2>2 DEF BatchCursor
    <3> HIDE DEF c
    <3> QED
      BY <1>4, <1>a, <3>1
  <2> QED
    BY <2>1, <2>2
<1>5. ASSUME NEW n \in events[s], n > c, n <= through'[s]
      PROVE  n \in load
  <2>0. n \in Nat
    BY <1>a
  <2>1. CASE load = {}
    BY <1>0, <1>1, <1>5, <2>0, <2>1
  <2>2. CASE load # {}
    BY <1>0, <1>1, <1>5, <2>2, BatchInOrder
  <2> QED
    BY <2>1, <2>2
<1> HIDE DEF c, load
<1>6. \A n \in events[s] : n <= c \/ n > c
  BY <1>0, <1>a
<1> QED
  BY <1>1, <1>2, <1>3, <1>4, <1>5, <1>6

\* A batch of a session, purged or not, keeps its digest.
LEMMA DigestBatch ==
    ASSUME TypeOK, Accounted, NEW s \in Session, exposed[s] = {}, DigestKept(s), NEW p \in Session,
           ProjectBatch(p), UNCHANGED <<ing, offset, events, purged, archived, aged>>,
           InRestore(s)' => InRestore(s) \/ ~Fresh(s),
           Replaying(s) <=> Replaying(s)'
    PROVE  DigestKept(s)'
<1>1. CASE s # p
  <2>1. turns'[s] = turns[s] /\ through'[s] = through[s] /\ version'[s] = version[s]
    BY <1>1 DEF ProjectBatch, TypeOK, StoreType
  <2> QED
    BY <2>1, DigestRestsLoop
<1>2. CASE s = p /\ purged[s]
  <2>1. events[s] = {} /\ version[s] = "current" /\ turns[s] = archived[s]
    BY <1>2 DEF Accounted, Kept, KeptInObject, Guarded, DigestKept
  <2>2. BatchLoaded(s) = {} /\ BatchBase(s) = turns[s] /\ BatchCursor(s) = through[s]
    BY <2>1 DEF BatchLoaded, NextEvents, BatchBase, BatchCursor
  <2>3. turns'[s] = turns[s] /\ through'[s] = through[s] /\ version'[s] = version[s]
    BY <1>2, <2>1, <2>2 DEF ProjectBatch, TypeOK, StoreType
  <2> QED
    BY <2>3, DigestRestsLoop
<1>3. CASE s = p /\ ~purged[s]
  <2>1. /\ turns'[s] \subseteq events[s]
        /\ ~Replaying(s) => \A n \in events[s] : n <= through'[s] =>
              n \in turns'[s] \/ (Fresh(s) /\ ing.first <= n)
    BY <1>3, BatchIsExact
  <2>2. (Fresh(s)' <=> Fresh(s)) /\ Reached(s)' = Reached(s)
    BY DEF Fresh, Reached
  <2>3. TimelineExact(s)'
    BY <2>1, <2>2 DEF TimelineExact
  <2>4. FreshIsUnexported(s)'
    BY <2>2 DEF FreshIsUnexported, DigestKept
  <2> QED
    BY <1>3, <2>2, <2>3, <2>4 DEF DigestKept
<1> QED
  BY <1>1, <1>2, <1>3

\* A purge: the counts agree, so no fresh row is there, and the timeline has
\* passed all of them.
LEMMA DigestPurge ==
    ASSUME TypeOK, Accounted, NEW s \in Session, exposed[s] = {}, DigestKept(s), NEW p \in Session,
           PurgeAllowed(p), PurgeSession(p), loop.pc # "replay", aged[p] \/ InRestore(p),
           UNCHANGED ing, ~InRestore(s)', ~Replaying(s)'
    PROVE  DigestKept(s)'
<1>0. UNCHANGED <<offset, archived, aged, turns, through, version>>
  BY DEF PurgeSession, archiveVars, timelineVars
<1>1. (Fresh(s)' <=> Fresh(s)) /\ Reached(s)' = Reached(s)
  BY <1>0 DEF Fresh, Reached
<1>2. CASE s # p
  <2>1. events'[s] = events[s] /\ purged'[s] = purged[s]
    BY <1>2 DEF PurgeSession, TypeOK, StoreType
  <2> QED
    BY <1>0, <1>1, <2>1, DigestRestsLoop DEF Replaying
<1>3. CASE s = p
  <2>1. ~purged[s] /\ archived[s] = events[s] /\ archived[s] # {}
    <3>1. Kept(s) /\ Guarded(s) /\ StoreType
      BY DEF Accounted, Guarded, TypeOK
    <3> QED
      BY <1>3, <3>1, PurgeFindsAll DEF Replaying
  <2>2. ~Fresh(s)
    BY <1>3, <2>1 DEF DigestKept, FreshIsUnexported
  <2>3. version[s] = "current" /\ \A n \in events[s] : n <= through[s]
    BY <1>3, <2>1 DEF PurgeAllowed, ProjectionCurrent
  <2>4. turns[s] = archived[s]
    BY <2>1, <2>2, <2>3 DEF DigestKept, TimelineExact, Replaying
  <2>5. events'[s] = {} /\ purged'[s] = TRUE
    BY <1>3 DEF PurgeSession, TypeOK, StoreType
  <2> QED
    BY <1>0, <1>1, <2>2, <2>3, <2>4, <2>5 DEF DigestKept, FreshIsUnexported, TimelineExact
<1> QED
  BY <1>2, <1>3

\* A withdrawal empties the session and leaves its timeline to be rebuilt.
LEMMA DigestWithdraw ==
    ASSUME TypeOK, Accounted, NEW s \in Session, DigestKept(s), Withdraw, UNCHANGED ing
    PROVE  DigestKept(s)'
<1>0. /\ loop.pc = "withdraw" /\ loop.s \in Session /\ purged[loop.s]
      /\ loop' = [loop EXCEPT !.pc = "replay"] /\ UNCHANGED <<offset, archived, aged, through>>
      /\ purged' = [purged EXCEPT ![loop.s] = FALSE]
      /\ version' = [version EXCEPT ![loop.s] = Marked(loop.s)]
      /\ events' = [events EXCEPT ![loop.s] = {}] /\ turns' = [turns EXCEPT ![loop.s] = {}]
  BY DEF Withdraw, WithdrawAndClear, TypeOK, LoopType, Accounted, LoopPlace, archiveVars
<1>1. loop'.pc = "replay" /\ loop'.s = loop.s
  BY <1>0 DEF TypeOK, LoopType
<1>2. (Fresh(s)' <=> Fresh(s)) /\ Reached(s)' = Reached(s)
  BY <1>0 DEF Fresh, Reached
<1>3. CASE s # loop.s
  <2>1. /\ events'[s] = events[s] /\ purged'[s] = purged[s]
        /\ turns'[s] = turns[s] /\ version'[s] = version[s]
    BY <1>0, <1>3 DEF TypeOK, StoreType
  <2> QED
    BY <1>0, <1>1, <1>3, <2>1, DigestRestsLoop DEF InRestore, Replaying
<1>4. CASE s = loop.s
  <2>1. ~Fresh(s)
    BY <1>0, <1>4 DEF DigestKept, FreshIsUnexported
  <2>2. version'[s] # "current" /\ events'[s] = {} /\ ~purged'[s]
    BY <1>0, <1>4 DEF Marked, TypeOK, StoreType
  <2> QED
    BY <1>0, <1>2, <2>1, <2>2 DEF DigestKept, FreshIsUnexported, TimelineExact
<1> QED
  BY <1>3, <1>4

\* A replayed line is one of the archive's.
LEMMA DigestReplay ==
    ASSUME TypeOK, Accounted, NEW s \in Session, exposed[s] = {}, DigestKept(s), ReplayLine,
           UNCHANGED ing
    PROVE  DigestKept(s)'
<1> DEFINE n == Smallest(loop.lines)
<1>0. /\ loop.pc = "replay" /\ loop.s \in Session /\ ~purged[loop.s] /\ n \in loop.lines
      /\ UNCHANGED <<offset, purged, archived, aged, turns, through, version>>
      /\ loop' = [loop EXCEPT !.lines = @ \ {n}]
      /\ events' = [events EXCEPT ![loop.s] = @ \cup {n}]
  <2>1. loop.lines \in SUBSET Nat /\ loop.lines # {}
    BY StoreAssumption DEF ReplayLine, TypeOK, LoopType, Line
  <2>2. n \in loop.lines
    BY <2>1, SmallestIn
  <2> QED
    BY <2>2 DEF ReplayLine, InsertEvent, TypeOK, LoopType, Accounted, LoopPlace, archiveVars, timelineVars
<1> HIDE DEF n
<1>1. loop'.pc = "replay" /\ loop'.s = loop.s
  BY <1>0 DEF TypeOK, LoopType
<1>2. (Fresh(s)' <=> Fresh(s)) /\ Reached(s)' = Reached(s)
  BY <1>0 DEF Fresh, Reached
<1>3. CASE s # loop.s
  <2>1. events'[s] = events[s]
    BY <1>0, <1>3 DEF TypeOK, StoreType
  <2> QED
    BY <1>0, <1>1, <2>1, DigestRestsLoop DEF InRestore, Replaying
<1>4. CASE s = loop.s
  <2>1. n \in archived[s]
    BY <1>0, <1>4 DEF Accounted, Kept, KeptByReplay, Guarded, Replaying
  <2>2. events'[s] = events[s] \cup {n}
    BY <1>0, <1>4 DEF TypeOK, StoreType
  <2>3. FreshIsUnexported(s)'
    BY <1>0, <1>1, <1>2, <1>4, <2>2 DEF FreshIsUnexported, DigestKept, InRestore
  <2>4. TimelineExact(s)'
    BY <1>0, <1>1, <1>4, <2>2 DEF TimelineExact, DigestKept, Replaying
  <2>5. (events[s] \cup archived[s] \subseteq 1 .. Reached(s))'
    BY <1>0, <1>2, <2>1, <2>2 DEF DigestKept
  <2> QED
    BY <1>0, <1>4, <2>3, <2>4, <2>5 DEF DigestKept
<1> QED
  BY <1>3, <1>4

\* After the replay the timeline is marked for a rebuild.
LEMMA DigestRebuild ==
    ASSUME TypeOK, Accounted, NEW s \in Session, DigestKept(s), RebuildReplayed, UNCHANGED ing
    PROVE  DigestKept(s)'
<1>0. /\ loop.pc = "replay" /\ loop.s \in Session /\ ~purged[loop.s]
      /\ UNCHANGED <<offset, events, purged, archived, aged, turns, through>>
      /\ loop' = [loop EXCEPT !.pc = "project"]
      /\ version' = [version EXCEPT ![loop.s] = Marked(loop.s)]
  BY DEF RebuildReplayed, RequestRebuild, TypeOK, LoopType, Accounted, LoopPlace, archiveVars
<1>1. loop'.pc = "project" /\ loop'.s = loop.s
  BY <1>0 DEF TypeOK, LoopType
<1>2. (Fresh(s)' <=> Fresh(s)) /\ Reached(s)' = Reached(s)
  BY <1>0 DEF Fresh, Reached
<1>3. CASE s # loop.s
  <2>1. version'[s] = version[s]
    BY <1>0, <1>3 DEF TypeOK, StoreType
  <2> QED
    BY <1>0, <1>1, <1>3, <2>1, DigestRestsLoop DEF InRestore, Replaying
<1>4. CASE s = loop.s
  <2>1. version'[s] # "current"
    BY <1>0, <1>4 DEF Marked, TypeOK, StoreType
  <2>2. FreshIsUnexported(s)'
    BY <1>0, <1>1, <1>2, <1>4 DEF FreshIsUnexported, DigestKept, InRestore
  <2> QED
    BY <1>0, <1>2, <1>4, <2>1, <2>2 DEF DigestKept, TimelineExact
<1> QED
  BY <1>3, <1>4

\* What is recorded as exported is there, and its grace starts anew.
LEMMA DigestMark ==
    ASSUME TypeOK, Accounted, NEW s \in Session, exposed[s] = {}, DigestKept(s), MarkArchived,
           UNCHANGED ing
    PROVE  DigestKept(s)'
<1>0. /\ loop.pc = "mark" /\ loop.s \in Session /\ ~purged[loop.s]
      /\ UNCHANGED <<offset, events, purged, turns, through, version>>
      /\ loop' = NextOf("export")
      /\ archived' = [archived EXCEPT ![loop.s] = loop.lines]
      /\ aged' = [aged EXCEPT ![loop.s] = FALSE]
  BY DEF MarkArchived, TypeOK, LoopType, Accounted, LoopPlace, timelineVars
<1>1. loop'.pc = "export"
  BY <1>0 DEF NextOf, TypeOK, LoopType
<1>2. (Fresh(s)' <=> Fresh(s)) /\ Reached(s)' = Reached(s) /\ ~InRestore(s)' /\ ~Replaying(s)
  BY <1>0, <1>1 DEF Fresh, Reached, InRestore, Replaying
<1>3. CASE s # loop.s
  <2>1. archived'[s] = archived[s] /\ aged'[s] = aged[s]
    BY <1>0, <1>3 DEF TypeOK, StoreType
  <2> QED
    BY <1>0, <1>2, <2>1, DigestRestsLoop
<1>4. CASE s = loop.s
  <2>1. archived'[s] = loop.lines /\ loop.lines \subseteq events[s] /\ ~aged'[s]
    BY <1>0, <1>4 DEF TypeOK, StoreType, Accounted, LoopPlace, Guarded
  <2>2. FreshIsUnexported(s)'
    BY <1>0, <1>2, <1>4, <2>1 DEF FreshIsUnexported
  <2>3. TimelineExact(s)'
    BY <1>0, <1>2 DEF TimelineExact, DigestKept
  <2> QED
    BY <1>0, <1>2, <1>4, <2>1, <2>2, <2>3 DEF DigestKept
<1> QED
  BY <1>3, <1>4

\* A step of a tick, its end, or the death of the ingester keeps a digest.
LEMMA DigestOfTick ==
    ASSUME TypeOK, Accounted, TickPlace, NEW s \in Session, exposed'[s] = {}, exposed[s] = {},
           DigestKept(s), IngestStep \/ IngestFault \/ NodeCrash, UNCHANGED loop
    PROVE  DigestKept(s)'
<1> DEFINE StoreRests ==
             UNCHANGED <<events, purged, archived, aged, turns, through, version>>
<1>0. /\ ing.s \in Session \cup {NoSession} /\ ing.next \in Nat /\ ing.first \in Nat
      /\ ing.pc # "idle" => ing.s \in Session
      /\ offset \in [Session -> Nat] /\ offset[s] \in Nat
      /\ (InRestore(s)' <=> InRestore(s)) /\ (Replaying(s)' <=> Replaying(s))
  BY StoreAssumption DEF TypeOK, WorkerType, StoreType, InRestore, Replaying
<1>1. ASSUME ~Fresh(s), ~Fresh(s)', StoreRests, offset[s] <= offset'[s], offset'[s] \in Nat
      PROVE  DigestKept(s)'
  <2>1. 1 .. Reached(s) \subseteq 1 .. Reached(s)'
    BY <1>0, <1>1 DEF Reached
  <2> QED
    BY <1>0, <1>1, <2>1, DigestRests
<1>2. CASE \E t \in Session : ScanFile(t)
  <2>1. ~Fresh(s) /\ ~Fresh(s)' /\ StoreRests /\ offset' = offset
    BY <1>2 DEF ScanFile, Fresh, TickPlace
  <2> QED
    BY <1>0, <1>1, <2>1
<1>3. CASE CheckPurged \/ DeferPurged
  <2>1. ing.first = 0 /\ StoreRests /\ offset' = offset
    BY <1>3 DEF CheckPurged, DeferPurged, TickPlace
  <2>2. ing'.first = 0
    BY <1>3, <2>1 DEF CheckPurged, DeferPurged, IngIdle, TypeOK, WorkerType
  <2> QED
    BY <1>0, <1>1, <2>1, <2>2 DEF Fresh
<1>4. CASE InsertLine
  BY <1>4, DigestInsert
<1>5. CASE CommitOffset \/ InsertRefused
  <2>0. ing.pc = "insert" /\ ing.s \in Session /\ offset[ing.s] <= ing.next /\ StoreRests
    BY <1>0, <1>5 DEF CommitOffset, InsertRefused, Accounted, IngestPlace
  <2>1. CASE CommitOffset
    <3>1. ing'.s = ing.s /\ ing'.first = ing.first /\ ing'.pc = "behind"
      BY <2>1 DEF CommitOffset, TypeOK, WorkerType
    <3>2. offset' = [offset EXCEPT ![ing.s] = ing.next]
      BY <2>1 DEF CommitOffset
    <3>3. (Fresh(s)' <=> Fresh(s)) /\ Reached(s)' = offset'[s]
      BY <3>1 DEF Fresh, Reached
    <3>4. 1 .. Reached(s) \subseteq 1 .. Reached(s)'
      <4>1. offset'[s] = IF s = ing.s THEN ing.next ELSE offset[s]
        BY <1>0, <3>2
      <4>2. Reached(s) = IF Fresh(s) THEN ing.next ELSE offset[s]
        BY <2>0 DEF Reached
      <4>3. Fresh(s) => s = ing.s
        BY DEF Fresh
      <4> QED
        BY <1>0, <2>0, <3>3, <4>1, <4>2, <4>3
    <3> QED
      BY <1>0, <2>0, <3>1, <3>3, <3>4, DigestRests
  <2>2. CASE InsertRefused
    <3>1. /\ ing'.s = ing.s /\ ing'.first = ing.first /\ ing'.pc = "insert"
          /\ ing'.next = ing.next + 1 /\ offset' = offset
      BY <2>2 DEF InsertRefused, TypeOK, WorkerType
    <3>2. Fresh(s)' <=> Fresh(s)
      BY <3>1 DEF Fresh
    <3>3. 1 .. Reached(s) \subseteq 1 .. Reached(s)'
      BY <1>0, <2>0, <3>1, <3>2 DEF Reached
    <3> QED
      BY <1>0, <2>0, <3>1, <3>2, <3>3, DigestRests
  <2> QED
    BY <1>5, <2>1, <2>2
<1>6. CASE FinishFile
  BY <1>6, DigestFinish
<1>7. CASE FileRefused \/ NodeCrash
  <2>1. Abandon /\ StoreRests /\ offset' = offset /\ ing'.first = 0
    BY <1>7 DEF FileRefused, NodeCrash, IngIdle
  <2>2. ~Fresh(s)
    <3> SUFFICES ASSUME Fresh(s) PROVE FALSE
      OBVIOUS
    <3>1. exposed' = [exposed EXCEPT ![s] = @ \cup {"unbuilt"}]
      BY <2>1 DEF Abandon, Expose, Fresh
    <3>2. "unbuilt" \in exposed'[s]
      BY <3>1 DEF TypeOK, StoreType
    <3> QED
      BY <3>2
  <2> QED
    BY <1>0, <1>1, <2>1, <2>2 DEF Fresh
<1> QED
  BY <1>2, <1>3, <1>4, <1>5, <1>6, <1>7 DEF IngestStep, IngestFault

\* A step of the projection worker keeps a digest.
LEMMA DigestOfProjection ==
    ASSUME TypeOK, Accounted, NEW s \in Session, exposed[s] = {}, DigestKept(s),
           ProjectionStep \/ ProjectionFault, UNCHANGED loop
    PROVE  DigestKept(s)'
<1>0. (InRestore(s)' <=> InRestore(s)) /\ (Replaying(s)' <=> Replaying(s))
  BY DEF InRestore, Replaying
<1>1. CASE RunBatch
  <2>1. prj.s \in Session
    BY <1>1 DEF RunBatch, TypeOK, WorkerType
  <2>2. ProjectBatch(prj.s) /\ UNCHANGED <<ing, offset, events, purged, archived, aged>>
    BY <1>1 DEF RunBatch
  <2> QED
    BY <1>0, <2>1, <2>2, DigestBatch
<1>2. CASE Recover \/ TakeProjection \/ ProjectionFault
  <2>1. UNCHANGED <<ing, offset, events, purged, archived, aged, turns, through, version>>
    BY <1>2 DEF Recover, TakeProjection, ProjectionFault, RecoverRefused, BatchRefused
  <2> QED
    BY <1>0, <2>1, DigestRestsLoop
<1> QED
  BY <1>1, <1>2 DEF ProjectionStep

\* A step of the archive loop, or the death of its process, keeps a digest.
LEMMA DigestOfLoop ==
    ASSUME TypeOK, Accounted, PurgeListAged, NEW s \in Session, exposed'[s] = {}, exposed[s] = {},
           DigestKept(s), UNCHANGED ing,
           RequestStep \/ RestoreStep \/ CycleStep \/ LoopFault \/ StartCycle \/ ControlCrash
    PROVE  DigestKept(s)'
<1> DEFINE StoreRests ==
             UNCHANGED <<offset, events, purged, archived, aged, turns, through, version>>
<1>0. /\ loop.s \in Session \cup {NoSession} /\ s # NoSession
      /\ loop.pc \in {"withdraw", "replay", "project", "repurge", "put", "mark"} => loop.s \in Session
  BY StoreAssumption DEF TypeOK, LoopType
<1>1. ASSUME StoreRests, ~InRestore(s)' \/ ~Fresh(s) \/ InRestore(s), ~Replaying(s) PROVE DigestKept(s)'
  BY <1>1, DigestRestsLoop
<1>2. ASSUME StoreRests, loop'.s = NoSession, ~Replaying(s) PROVE DigestKept(s)'
  BY <1>0, <1>1, <1>2 DEF InRestore
<1>3. CASE RequestStep \/ StartCycle \/ EndCycle \/ SelectPurge
  <2>1. StoreRests /\ loop.pc # "replay"
    BY <1>3 DEF RequestStep, StartLoop, TakeRequest, FinishRequest, StartCycle, EndCycle, SelectPurge
  <2>2. loop'.s = NoSession
    <3>0. LoopType
      BY DEF TypeOK
    <3>1. CASE StartLoop \/ FinishRequest \/ EndCycle
      BY <3>0, <3>1, LoopLands DEF StartLoop, FinishRequest, EndCycle
    <3>2. CASE TakeRequest
      BY <3>0, <3>2, LoopLands DEF TakeRequest
    <3>3. CASE StartCycle
      BY <3>0, <3>3, LoopLands DEF StartCycle
    <3>4. CASE SelectPurge
      BY <3>0, <3>4, LoopLands DEF SelectPurge
    <3> QED
      BY <1>3, <3>1, <3>2, <3>3, <3>4 DEF RequestStep
  <2> QED
    BY <1>2, <2>1, <2>2 DEF Replaying
<1>4. CASE \E t \in Session : OpenArchive(t)
  <2>1. PICK t \in Session : OpenArchive(t)
    BY <1>4
  <2>2. StoreRests /\ loop.pc = "restore" /\ purged[t]
    BY <2>1 DEF OpenArchive, Restorable
  <2>3. loop'.s = t
    BY <2>1 DEF OpenArchive, TypeOK, LoopType
  <2>4. s = t => ~Fresh(s)
    BY <2>2 DEF DigestKept, FreshIsUnexported
  <2> QED
    BY <1>1, <2>2, <2>3, <2>4 DEF InRestore, Replaying
<1>5. CASE \E t \in Session : CannotRestore(t) \/ ReadEvents(t) \/ PurgeSkipped(t)
  <2>1. StoreRests /\ loop.pc \in {"restore", "export", "purge"} /\ loop'.pc \in {"restore", "put", "purge"}
    BY <1>5 DEF CannotRestore, ReadEvents, PurgeSkipped, TypeOK, LoopType
  <2> QED
    BY <1>1, <2>1 DEF InRestore, Replaying
<1>6. CASE Withdraw
  BY <1>6, DigestWithdraw
<1>7. CASE ReplayLine
  BY <1>7, DigestReplay
<1>8. CASE RebuildReplayed
  BY <1>8, DigestRebuild
<1>9. CASE ProjectReplayed
  <2>1. /\ loop.pc = "project" /\ loop.s \in Session /\ ProjectBatch(loop.s)
        /\ UNCHANGED <<offset, events, purged, archived, aged>>
    BY <1>0, <1>9 DEF ProjectReplayed
  <2>2. loop'.pc \in {"project", "repurge", "restore"} /\ loop'.s \in {loop.s, NoSession}
    BY <1>9, <2>1 DEF ProjectReplayed, NextOf, TypeOK, LoopType
  <2>3. InRestore(s)' => InRestore(s)
    BY <1>0, <2>1, <2>2 DEF InRestore
  <2>4. ~Replaying(s) /\ ~Replaying(s)'
    BY <2>1, <2>2 DEF Replaying
  <2> QED
    BY <2>1, <2>3, <2>4, DigestBatch
<1>10. CASE PurgeAgain
  <2>1. /\ loop.pc = "repurge" /\ loop.s \in Session /\ PurgeAllowed(loop.s) /\ PurgeSession(loop.s)
        /\ InRestore(loop.s)
    BY <1>0, <1>10 DEF PurgeAgain, InRestore
  <2>2. loop'.s = NoSession
    BY <1>10 DEF PurgeAgain, NextOf, TypeOK, LoopType
  <2>3. ~InRestore(s)' /\ ~Replaying(s)'
    BY <1>0, <2>2 DEF InRestore, Replaying
  <2> QED
    BY <2>1, <2>3, DigestPurge
<1>11. CASE PurgeAgainSkipped \/ ExportRefused
  <2>1. StoreRests /\ loop.pc \in {"repurge", "put", "mark"}
    BY <1>11 DEF PurgeAgainSkipped, ExportRefused
  <2>2. loop'.s = NoSession
    BY <1>11 DEF PurgeAgainSkipped, ExportRefused, NextOf, TypeOK, LoopType
  <2> QED
    BY <1>2, <2>1, <2>2 DEF Replaying
<1>12. CASE RestoreRefused \/ ControlCrash
  <2>1. StoreRests /\ CutReplay
    BY <1>12 DEF RestoreRefused, ControlCrash
  <2>2. loop'.s = NoSession
    BY <1>12, LoopLands DEF RestoreRefused, ControlCrash, TypeOK
  <2>3. ~Replaying(s)
    <3> SUFFICES ASSUME Replaying(s) PROVE FALSE
      OBVIOUS
    <3>1. \E w \in Windows : exposed' = [exposed EXCEPT ![s] = @ \cup {w}]
      BY <2>1 DEF CutReplay, Expose, Replaying, Windows
    <3>2. \E w : w \in exposed'[s]
      BY <3>1 DEF TypeOK, StoreType
    <3> QED
      BY <3>2
  <2> QED
    BY <1>2, <2>1, <2>2, <2>3
<1>13. CASE DumpDurableTables \/ PutObject
  <2>1. StoreRests /\ loop.pc \in {"dump", "put"} /\ loop'.pc \in {"export", "mark"}
    BY <1>13 DEF DumpDurableTables, PutObject, TypeOK, LoopType
  <2> QED
    BY <1>1, <2>1 DEF InRestore, Replaying
<1>14. CASE \E t \in Session : PurgeOne(t)
  <2>1. PICK t \in Session : PurgeOne(t)
    BY <1>14
  <2>2. loop.pc = "purge" /\ PurgeAllowed(t) /\ PurgeSession(t) /\ aged[t]
    BY <2>1 DEF PurgeOne, PurgeListAged
  <2>3. loop'.pc = "purge"
    BY <2>1 DEF PurgeOne, TypeOK, LoopType
  <2>4. ~InRestore(s)' /\ ~Replaying(s)'
    BY <2>3 DEF InRestore, Replaying
  <2> QED
    BY <2>2, <2>4, DigestPurge
<1>15. CASE MarkArchived
  BY <1>15, DigestMark
<1>16. CASE StartRefused \/ TakeRefused \/ FinishRefused \/ DumpRefused
  <2>1. StoreRests /\ loop.pc # "replay"
    BY <1>16 DEF StartRefused, TakeRefused, FinishRefused, DumpRefused
  <2>2. loop'.s = NoSession
    BY <1>16 DEF StartRefused, TakeRefused, FinishRefused, DumpRefused, LoopAt
  <2> QED
    BY <1>2, <2>1, <2>2 DEF Replaying
<1> QED
  BY <1>3, <1>4, <1>5, <1>6, <1>7, <1>8, <1>9, <1>10, <1>11, <1>12, <1>13, <1>14, <1>15, <1>16
     DEF RestoreStep, CycleStep, LoopFault

\* Every step keeps the digests.
LEMMA DigestOfStep ==
    ASSUME TypeOK, Accounted, TickPlace, PurgeListAged, [Next]_vars, NEW s \in Session,
           exposed'[s] = {}, exposed[s] = {}, DigestKept(s)
    PROVE  DigestKept(s)'
<1>1. CASE UNCHANGED vars \/ (\E t \in Session : AppendLine(t)) \/ (\E r \in Request : AskRestore(r))
  <2>1. UNCHANGED <<ing, loop, offset, events, purged, archived, aged, turns, through, version>>
    BY <1>1 DEF vars, AppendLine, AskRestore
  <2> QED
    BY <2>1, DigestRestsLoop DEF InRestore, Replaying
<1>2. CASE \E t \in Session : GracePasses(t)
  <2>1. PICK t \in Session : GracePasses(t)
    BY <1>2
  <2>2. /\ UNCHANGED <<ing, loop, offset, events, purged, archived, turns, through, version>>
        /\ ing.s # t
    BY <2>1 DEF GracePasses
  <2>3. aged'[s] => aged[s] \/ s = t
    BY <2>1 DEF GracePasses, TypeOK, StoreType
  <2> QED
    BY <2>2, <2>3, DigestRestsLoop DEF InRestore, Replaying, Fresh
<1>3. CASE Worker(IngestStep) \/ Worker(IngestFault) \/ Die(NodeCrash, <<loop>>)
  BY <1>3, DigestOfTick DEF Worker, Die
<1>4. CASE Worker(ProjectionStep) \/ Worker(ProjectionFault)
  BY <1>4, DigestOfProjection DEF Worker
<1>5. CASE \/ Control(RequestStep) \/ Control(RestoreStep) \/ Control(CycleStep) \/ Control(LoopFault)
           \/ BeginCycle \/ Die(ControlCrash, workerVars)
  BY <1>5, DigestOfLoop DEF Control, BeginCycle, Die
<1> QED
  BY <1>1, <1>2, <1>3, <1>4, <1>5 DEF Next

\* Where the tick and the purge list stand.
LEMMA PlacesStep ==
    ASSUME TypeOK, Accounted, TickPlace, PurgeListAged, [Next]_vars
    PROVE  TickPlace' /\ PurgeListAged'
<1>0. ing.next \in Nat /\ ing.first \in Nat /\ aged \in [Session -> BOOLEAN]
  BY StoreAssumption DEF TypeOK, WorkerType, StoreType
<1>1. TickPlace'
  <2>1. CASE UNCHANGED ing
    BY <2>1 DEF TickPlace
  <2>2. CASE ing' = IngIdle \/ \E t \in Session : ScanFile(t)
    BY <2>2 DEF TickPlace, IngIdle, ScanFile
  <2>3. CASE CheckPurged \/ CommitOffset
    BY <2>3 DEF CheckPurged, CommitOffset, TickPlace, TypeOK, WorkerType
  <2>4. CASE InsertLine \/ InsertRefused
    <3>1. /\ ing'.pc = "insert" /\ ing'.next = ing.next + 1
          /\ ing'.first \in {ing.first, ing.next + 1}
      BY <2>4 DEF InsertLine, InsertRefused, TypeOK, WorkerType
    <3> QED
      BY <1>0, <3>1 DEF TickPlace
  <2>5. \/ UNCHANGED ing \/ ing' = IngIdle \/ (\E t \in Session : ScanFile(t))
        \/ CheckPurged \/ CommitOffset \/ InsertLine \/ InsertRefused
    BY DEF Next, vars, AppendLine, GracePasses, AskRestore, BeginCycle, Worker, Control, Die, IngestStep,
       IngestFault, ProjectionStep, ProjectionFault, Recover, TakeProjection, RunBatch, RecoverRefused,
       BatchRefused, DeferPurged, FinishFile, FileRefused, NodeCrash
  <2> QED
    BY <2>1, <2>2, <2>3, <2>4, <2>5
<1>2. PurgeListAged'
  <2>1. CASE UNCHANGED <<loop, aged>> \/ (\E t \in Session : GracePasses(t))
    BY <1>0, <2>1 DEF PurgeListAged, GracePasses, TypeOK, LoopType
  <2>2. CASE loop'.pc # "purge"
    BY <2>2 DEF PurgeListAged
  <2>3. CASE SelectPurge
    BY <2>3 DEF SelectPurge, PurgeListAged, LoopAt
  <2>4. CASE \E t \in Session : PurgeOne(t) \/ PurgeSkipped(t)
    <3>1. aged' = aged /\ loop.pc = "purge" /\ loop'.todo \subseteq loop.todo
      BY <2>4 DEF PurgeOne, PurgeSkipped, PurgeSession, TypeOK, LoopType
    <3> QED
      BY <3>1 DEF PurgeListAged
  <2>5. CASE UNCHANGED vars \/ (\E t \in Session : AppendLine(t)) \/ (\E r \in Request : AskRestore(r))
    BY <2>1, <2>5 DEF vars, AppendLine, AskRestore
  <2>6. CASE Worker(IngestStep) \/ Worker(IngestFault) \/ Die(NodeCrash, <<loop>>)
    <3>1. UNCHANGED <<loop, aged>>
      BY <2>6 DEF Worker, Die, IngestStep, IngestFault, ScanFile, CheckPurged, DeferPurged, InsertLine,
         CommitOffset, FinishFile, InsertRefused, FileRefused, NodeCrash
    <3> QED
      BY <2>1, <3>1
  <2>7. CASE Worker(ProjectionStep) \/ Worker(ProjectionFault)
    <3>1. UNCHANGED <<loop, aged>>
      BY <2>7 DEF Worker, ProjectionStep, ProjectionFault, Recover, TakeProjection, RunBatch,
         RecoverRefused, BatchRefused
    <3> QED
      BY <2>1, <3>1
  <2>8. CASE Control(RequestStep) \/ Control(LoopFault) \/ BeginCycle \/ Die(ControlCrash, workerVars)
    <3>0. LoopType
      BY DEF TypeOK
    <3>1. CASE Control(RequestStep) \/ BeginCycle
      <4>1. CASE StartLoop \/ FinishRequest
        BY <2>2, <3>0, <4>1, LoopLands DEF StartLoop, FinishRequest
      <4>2. CASE TakeRequest
        BY <2>2, <3>0, <4>2, LoopLands DEF TakeRequest
      <4>3. CASE StartCycle
        BY <2>2, <3>0, <4>3, LoopLands DEF StartCycle
      <4> QED
        BY <3>1, <4>1, <4>2, <4>3 DEF Control, BeginCycle, RequestStep
    <3>2. CASE Control(LoopFault) \/ Die(ControlCrash, workerVars)
      <4>1. CASE StartRefused \/ TakeRefused \/ FinishRefused \/ DumpRefused
        BY <2>2, <3>0, <4>1, LoopLands DEF StartRefused, TakeRefused, FinishRefused, DumpRefused
      <4>2. CASE RestoreRefused \/ ExportRefused \/ ControlCrash
        BY <2>2, <3>0, <4>2, LoopLands DEF RestoreRefused, ExportRefused, ControlCrash
      <4> QED
        BY <3>2, <4>1, <4>2 DEF Control, Die, LoopFault
    <3> QED
      BY <2>8, <3>1, <3>2
  <2>9. CASE Control(RestoreStep)
    <3>1. loop'.pc # "purge"
      BY <2>9 DEF Control, RestoreStep, OpenArchive, CannotRestore, Withdraw, ReplayLine, RebuildReplayed,
         ProjectReplayed, PurgeAgain, PurgeAgainSkipped, NextOf, TypeOK, LoopType
    <3> QED
      BY <2>2, <3>1
  <2>10. CASE Control(CycleStep)
    <3>1. CASE DumpDurableTables \/ PutObject \/ \E t \in Session : ReadEvents(t)
      <4>1. loop'.pc # "purge"
        BY <3>1 DEF DumpDurableTables, PutObject, ReadEvents, TypeOK, LoopType
      <4> QED
        BY <2>2, <4>1
    <3>2. CASE MarkArchived \/ EndCycle
      BY <2>2, <3>2, LoopLands DEF MarkArchived, EndCycle, TypeOK
    <3> QED
      BY <2>3, <2>4, <2>10, <3>1, <3>2 DEF Control, CycleStep
  <2> QED
    BY <2>1, <2>5, <2>6, <2>7, <2>8, <2>9, <2>10 DEF Next
<1> QED
  BY <1>1, <1>2

\* A purged session's digest was reduced from exactly its archived lines.
THEOREM DigestIsComplete == Spec => []DigestComplete
<1>1. Init => DigestInv
  BY DEF Init, InitStore, InitWorker, InitLoop, IngIdle, LoopAt, DigestInv, TickPlace, PurgeListAged,
     DigestKept, Reached, Fresh, FreshIsUnexported, TimelineExact
<1>2. TypeOK /\ Accounted /\ DigestInv /\ [Next]_vars => DigestInv'
  <2> SUFFICES ASSUME TypeOK, Accounted, DigestInv, [Next]_vars PROVE DigestInv'
    OBVIOUS
  <2>1. TickPlace /\ PurgeListAged
    BY DEF DigestInv
  <2>2. TickPlace' /\ PurgeListAged'
    BY <2>1, PlacesStep
  <2>3. ASSUME NEW s \in Session, exposed'[s] = {} PROVE DigestKept(s)'
    <3>1. exposed[s] = {}
      BY <2>3, StepKinds
    <3> QED
      BY <2>1, <2>3, <3>1, DigestOfStep DEF DigestInv
  <2> QED
    BY <2>2, <2>3 DEF DigestInv
<1>3. DigestInv => DigestComplete
  BY DEF DigestInv, DigestComplete, DigestKept
<1> QED
  BY <1>1, <1>2, <1>3, TypeCorrect, AlwaysAccounted, PTL DEF Spec
=============================================================================
