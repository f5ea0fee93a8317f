----------------------------- MODULE FleetProofs -----------------------------
(***************************************************************************)
(* Proofs about Fleet, for every number of sessions, connections, keys,    *)
(* boots and faults.                                                       *)
(***************************************************************************)
EXTENDS Fleet, FiniteSetTheorems, TLAPS

-----------------------------------------------------------------------------
(* The session rows.                                                       *)

RowsType == sess \in [Pty -> PtyRow]

\* Every statement on the rows leaves rows.
LEMMA RowStatementsType ==
    ASSUME RowsType
    PROVE  /\ \A p \in Pty, b \in 0 .. MaxBoot : PersistSpawn(p, b) \in [Pty -> PtyRow]
           /\ \A p \in Pty, s \in PtyState : EndLive(p, s) \in [Pty -> PtyRow]
           /\ \A p \in Pty : DeleteRow(p) \in [Pty -> PtyRow]
           /\ MarkSessionsDisconnected \in [Pty -> PtyRow]
           /\ \A b \in 0 .. MaxBoot : DisconnectBoot(b) \in [Pty -> PtyRow]
<1> USE DEF RowsType, PtyRow, PtyState
<1>1. ASSUME NEW p \in Pty, NEW b \in 0 .. MaxBoot
      PROVE  PersistSpawn(p, b) \in [Pty -> PtyRow]
  BY DEF PersistSpawn
<1>2. ASSUME NEW p \in Pty, NEW s \in PtyState
      PROVE  EndLive(p, s) \in [Pty -> PtyRow]
  BY DEF EndLive
<1>3. ASSUME NEW p \in Pty
      PROVE  DeleteRow(p) \in [Pty -> PtyRow]
  BY DEF DeleteRow
<1>4. MarkSessionsDisconnected \in [Pty -> PtyRow]
  BY DEF MarkSessionsDisconnected
<1>5. ASSUME NEW b \in 0 .. MaxBoot
      PROVE  DisconnectBoot(b) \in [Pty -> PtyRow]
  BY DEF DisconnectBoot
<1> QED
  BY <1>1, <1>2, <1>3, <1>4, <1>5

\* So does a heartbeat, adoption and reconciliation together.
LEMMA HeartbeatRowsType ==
    ASSUME RowsType, NEW b \in 0 .. MaxBoot, NEW listed \in SUBSET Pty
    PROVE  HeartbeatRows(b, listed) \in [Pty -> PtyRow]
<1>1. Adopt(b, listed, sess) \in [Pty -> PtyRow]
  BY DEF RowsType, PtyRow, PtyState, Adopt
<1>2. ASSUME NEW rows \in [Pty -> PtyRow]
      PROVE  ReconcileMissing(listed, rows) \in [Pty -> PtyRow]
  BY DEF PtyRow, PtyState, ReconcileMissing
<1> QED
  BY <1>1, <1>2 DEF HeartbeatRows

-----------------------------------------------------------------------------
(* The registry.  Its invariant is inductive as it stands, with the type.  *)

NodeInv == NodeTypeOK /\ ActiveHasTask


\* Field by field, what the steps write into a socket's task leaves a task.
LEMMA SocketFields ==
    ASSUME NEW s \in Socket
    PROVE  /\ \A ph \in Phase : [s EXCEPT !.phase = ph] \in Socket
           /\ \A x \in BOOLEAN : [s EXCEPT !.canceled = x] \in Socket
           /\ \A x \in BOOLEAN : [s EXCEPT !.peer = x] \in Socket
           /\ \A l \in SUBSET Pty : [s EXCEPT !.wire = <<l>>] \in Socket
           /\ [s EXCEPT !.phase = "stored", !.beat = {}] \in Socket
           /\ [s EXCEPT !.phase = "left", !.peer = FALSE, !.wire = <<>>,
                        !.canceled = FALSE] \in Socket
           /\ [s EXCEPT !.phase = "left", !.peer = FALSE, !.wire = <<>>,
                        !.canceled = FALSE, !.beat = {}] \in Socket
           /\ s.wire # <<>> =>
                [s EXCEPT !.phase = "beat", !.wire = <<>>, !.beat = s.wire[1]] \in Socket
<1> USE DEF Socket, Phase
<1>1. \A ph \in Phase : [s EXCEPT !.phase = ph] \in Socket
  OBVIOUS
<1>2. \A x \in BOOLEAN : [s EXCEPT !.canceled = x] \in Socket
  OBVIOUS
<1>3. \A x \in BOOLEAN : [s EXCEPT !.peer = x] \in Socket
  OBVIOUS
<1>4. \A l \in SUBSET Pty : [s EXCEPT !.wire = <<l>>] \in Socket
  OBVIOUS
<1>5. [s EXCEPT !.phase = "stored", !.beat = {}] \in Socket
  OBVIOUS
<1>6. [s EXCEPT !.phase = "left", !.peer = FALSE, !.wire = <<>>, !.canceled = FALSE] \in Socket
  OBVIOUS
<1>7. [s EXCEPT !.phase = "left", !.peer = FALSE, !.wire = <<>>, !.canceled = FALSE,
               !.beat = {}] \in Socket
  OBVIOUS
<1>8. ASSUME s.wire # <<>>
      PROVE  [s EXCEPT !.phase = "beat", !.wire = <<>>, !.beat = s.wire[1]] \in Socket
  <2>1. PICK l \in SUBSET Pty : s.wire = <<l>>
    BY <1>8
  <2>2. s.wire[1] = l
    BY <2>1
  <2> QED
    BY <2>2
<1> QED
  BY <1>1, <1>2, <1>3, <1>4, <1>5, <1>6, <1>7, <1>8

\* A step that writes one socket's task leaves the others' alone.
LEMMA OneSocket ==
    ASSUME NodeTypeOK, NEW c \in Conn, NEW s \in Socket
    PROVE  /\ [sock EXCEPT ![c] = s] \in [Conn -> Socket]
           /\ [sock EXCEPT ![c] = s][c] = s
           /\ \A d \in Conn \ {c} : [sock EXCEPT ![c] = s][d] = sock[d]
BY DEF NodeTypeOK

\* A task that ends writes its own socket, and leaves the others' alone.
LEMMA Ended ==
    ASSUME NodeTypeOK, NEW c \in Conn
    PROVE  /\ EndSocket(c) \in [Conn -> Socket]
           /\ [EndSocket(c) EXCEPT ![c].beat = {}] \in [Conn -> Socket]
           /\ \A d \in Conn \ {c} : EndSocket(c)[d] = sock[d]
           /\ \A d \in Conn \ {c} : [EndSocket(c) EXCEPT ![c].beat = {}][d] = sock[d]
<1> DEFINE e == [sock[c] EXCEPT !.phase = "left", !.peer = FALSE, !.wire = <<>>,
                                !.canceled = FALSE]
           f == [sock[c] EXCEPT !.phase = "left", !.peer = FALSE, !.wire = <<>>,
                                !.canceled = FALSE, !.beat = {}]
<1>1. e \in Socket /\ f \in Socket
  BY SocketFields DEF NodeTypeOK
<1>2. EndSocket(c) = [sock EXCEPT ![c] = e]
  BY DEF EndSocket, NodeTypeOK
<1>3. [EndSocket(c) EXCEPT ![c].beat = {}] = [sock EXCEPT ![c] = f]
  BY <1>2 DEF NodeTypeOK
<1> HIDE DEF e, f
<1> QED
  BY <1>1, <1>2, <1>3, OneSocket

\* A task's step leaves tasks.
LEMMA SocketTypeStep ==
    ASSUME NodeInv, NEW c \in Conn, SocketNext(c)
    PROVE  sock' \in [Conn -> Socket]
<1> USE DEF NodeInv
<1>0. sock \in [Conn -> Socket] /\ sock[c] \in Socket /\ client \in Client /\ FreeSocket \in Socket
  BY RowsAssumption DEF NodeTypeOK, FreeSocket, Socket, Phase
<1>1. CASE Dial(c)
  <2>1. [FreeSocket EXCEPT !.phase = "hello", !.boot = client.boot, !.peer = TRUE,
                   !.key = client.key, !.known = (node.key = client.key)] \in Socket
    <3>0. client.boot \in 0 .. MaxBoot /\ client.key \in Key
      BY <1>0, RowsAssumption DEF Client
    <3>1. \A k \in BOOLEAN :
             [FreeSocket EXCEPT !.phase = "hello", !.boot = client.boot, !.peer = TRUE,
                                !.key = client.key, !.known = k] \in Socket
      BY <3>0 DEF FreeSocket, Socket, Phase
    <3>2. (node.key = client.key) \in BOOLEAN
      OBVIOUS
    <3> QED
      BY <3>1, <3>2
  <2> QED
    BY <1>1, <2>1, OneSocket DEF Dial
<1>2. CASE RequestPairing(c)
  BY <1>0, <1>2, OneSocket DEF RequestPairing
<1>3. CASE RecordConnection(c)
  BY <1>0, <1>3, SocketFields DEF RecordConnection, Phase
<1>4. CASE Register(c)
  BY <1>0, <1>4, SocketFields DEF Register, Superseding, Phase
<1>5. CASE SendHeartbeat(c)
  BY <1>0, <1>5, SocketFields DEF SendHeartbeat, Client
<1>6. CASE TakeHeartbeat(c)
  <2>1. CASE active = c
    <3>1. sock' = [sock EXCEPT ![c] = [sock[c] EXCEPT !.phase = "beat", !.wire = <<>>, !.beat = sock[c].wire[1]]]
      BY <1>0, <1>6, <2>1 DEF TakeHeartbeat
    <3>2. [sock[c] EXCEPT !.phase = "beat", !.wire = <<>>, !.beat = sock[c].wire[1]] \in Socket
      BY <1>0, <1>6, SocketFields DEF TakeHeartbeat
    <3> QED
      BY <3>1, <3>2, OneSocket
  <2>2. CASE active # c
    BY <1>6, <2>2, Ended DEF TakeHeartbeat
  <2> QED
    BY <2>1, <2>2
<1>7. CASE StoreHeartbeat(c)
  <2>1. CASE RowNames(c)
    <3>1. sock' = [sock EXCEPT ![c] = [sock[c] EXCEPT !.phase = "stored", !.beat = {}]]
      BY <1>0, <1>7, <2>1 DEF StoreHeartbeat
    <3> QED
      BY <1>0, <3>1, OneSocket, SocketFields
  <2>2. CASE ~RowNames(c)
    BY <1>7, <2>2, Ended DEF StoreHeartbeat
  <2> QED
    BY <2>1, <2>2
<1>8. CASE KeepSample(c)
  BY <1>0, <1>8, SocketFields DEF KeepSample, Phase
<1>9. CASE Leave(c)
  BY <1>9, Ended DEF Leave
<1>10. CASE RecordDisconnect(c)
  BY <1>0, <1>10, OneSocket DEF RecordDisconnect
<1> QED
  BY <1>1, <1>2, <1>3, <1>4, <1>5, <1>6, <1>7, <1>8, <1>9, <1>10 DEF SocketNext

\* A task's step keeps the other variables in their sets.
LEMMA SocketRestStep ==
    ASSUME NodeInv, NEW c \in Conn, SocketNext(c)
    PROVE  /\ sess' \in [Pty -> PtyRow] /\ node' \in NodeRow
           /\ active' \in Conn \cup {NoConn} /\ sample' \in Conn \cup {NoConn}
           /\ expiring' \in Conn \cup {NoConn} /\ approved' \in BOOLEAN
           /\ client' \in Client /\ faults' \in 0 .. MaxFaults
<1> USE DEF NodeInv
<1>0. sock[c] \in Socket /\ RowsType
  BY DEF NodeTypeOK, RowsType
<1>1. CASE Dial(c)
  BY <1>1 DEF Dial, NodeTypeOK, Client
<1>2. CASE RequestPairing(c)
  BY <1>0, <1>2 DEF RequestPairing, NodeTypeOK, Client, NodeRow, Socket
<1>3. CASE RecordConnection(c)
  BY <1>0, <1>3 DEF RecordConnection, NodeTypeOK, NodeRow, Socket
<1>4. CASE Register(c)
  BY <1>4 DEF Register, NodeTypeOK
<1>5. CASE SendHeartbeat(c)
  BY <1>5 DEF SendHeartbeat, NodeTypeOK
<1>6. CASE TakeHeartbeat(c)
  BY <1>6 DEF TakeHeartbeat, Unregister, Hangup, NodeTypeOK, Client
<1>7. CASE StoreHeartbeat(c)
  <2>1. HeartbeatRows(sock[c].boot, sock[c].beat) \in [Pty -> PtyRow]
    BY <1>0, HeartbeatRowsType DEF Socket
  <2> QED
    BY <1>7, <2>1 DEF StoreHeartbeat, Unregister, Hangup, NodeTypeOK, Client, NodeRow
<1>8. CASE KeepSample(c)
  BY <1>8 DEF KeepSample, NodeTypeOK
<1>9. CASE Leave(c)
  BY <1>9 DEF Leave, Unregister, Hangup, NodeTypeOK, Client
<1>10. CASE RecordDisconnect(c)
  <2>1. DisconnectBoot(sock[c].boot) \in [Pty -> PtyRow]
    BY <1>0, RowStatementsType DEF Socket
  <2> QED
    BY <1>10, <2>1 DEF RecordDisconnect, NodeTypeOK, NodeRow
<1> QED
  BY <1>1, <1>2, <1>3, <1>4, <1>5, <1>6, <1>7, <1>8, <1>9, <1>10 DEF SocketNext

\* The phases in which a task serves its connection.
Serving == {"open", "beat", "stored"}

\* A task that leaves takes its entry with it, and only its own.
LEMMA SocketActiveStep ==
    ASSUME NodeInv, NEW c \in Conn, SocketNext(c)
    PROVE  ActiveHasTask'
<1> USE DEF NodeInv
<1>0. /\ sock \in [Conn -> Socket]
      /\ active \in Conn \cup {NoConn} /\ NoConn \notin Conn
      /\ active # NoConn => sock[active].phase \in Serving
  BY ControlAssumption DEF NodeTypeOK, ActiveHasTask, Serving
<1>1. CASE Dial(c)
  BY <1>0, <1>1 DEF Dial, FreshConn, Unreferenced, ActiveHasTask, Serving
<1>2. CASE RequestPairing(c)
  BY <1>0, <1>2 DEF RequestPairing, ActiveHasTask, Serving
<1>3. CASE RecordConnection(c)
  BY <1>0, <1>3 DEF RecordConnection, ActiveHasTask, Serving
<1>4. CASE Register(c)
  <2>1. sock'[c].phase = "open" /\ active' = c
    BY <1>0, <1>4 DEF Register, Superseding, Socket
  <2> QED
    BY <2>1 DEF ActiveHasTask
<1>5. CASE SendHeartbeat(c)
  BY <1>0, <1>5 DEF SendHeartbeat, ActiveHasTask, Serving, Socket
<1>6. CASE TakeHeartbeat(c)
  <2>1. CASE active = c
    <3>1. sock'[c].phase = "beat" /\ active' = c
      BY <1>0, <1>6, <2>1 DEF TakeHeartbeat, Socket
    <3> QED
      BY <3>1 DEF ActiveHasTask
  <2>2. CASE active # c
    BY <1>0, <1>6, <2>2, Ended DEF TakeHeartbeat, Unregister, ActiveHasTask, Serving
  <2> QED
    BY <2>1, <2>2
<1>7. CASE StoreHeartbeat(c)
  <2>1. CASE RowNames(c)
    BY <1>0, <1>7, <2>1 DEF StoreHeartbeat, ActiveHasTask, Serving, Socket
  <2>2. CASE ~RowNames(c)
    BY <1>0, <1>7, <2>2, Ended DEF StoreHeartbeat, Unregister, ActiveHasTask, Serving
  <2> QED
    BY <2>1, <2>2
<1>8. CASE KeepSample(c)
  BY <1>0, <1>8 DEF KeepSample, ActiveHasTask, Serving, Socket
<1>9. CASE Leave(c)
  BY <1>0, <1>9, Ended DEF Leave, Unregister, ActiveHasTask, Serving
<1>10. CASE RecordDisconnect(c)
  BY <1>0, <1>10 DEF RecordDisconnect, ActiveHasTask, Serving
<1> QED
  BY <1>1, <1>2, <1>3, <1>4, <1>5, <1>6, <1>7, <1>8, <1>9, <1>10 DEF SocketNext

\* Shells, the monitor, the operator and the faults keep the invariant: an
\* entry that is canceled leaves the map in the same step.
LEMMA RegistryStep ==
    ASSUME NodeInv, NodeNext
    PROVE  NodeInv'
<1>0. /\ sock \in [Conn -> Socket] /\ RowsType /\ client \in Client /\ node \in NodeRow
      /\ active \in Conn \cup {NoConn} /\ NoConn \notin Conn
      /\ active # NoConn => sock[active].phase \in Serving
  BY ControlAssumption DEF NodeInv, NodeTypeOK, ActiveHasTask, Serving, RowsType
<1>a. ASSUME NEW d \in Conn
      PROVE  /\ [sock EXCEPT ![d].canceled = TRUE] \in [Conn -> Socket]
             /\ [sock EXCEPT ![d].peer = FALSE] \in [Conn -> Socket]
             /\ \A e \in Conn : /\ [sock EXCEPT ![d].canceled = TRUE][e].phase = sock[e].phase
                                /\ [sock EXCEPT ![d].peer = FALSE][e].phase = sock[e].phase
  <2>1. /\ [sock[d] EXCEPT !.canceled = TRUE] \in Socket
        /\ [sock[d] EXCEPT !.peer = FALSE] \in Socket
    BY <1>0, SocketFields
  <2>3. ASSUME NEW s \in Socket
        PROVE  [s EXCEPT !.canceled = TRUE].phase = s.phase /\ [s EXCEPT !.peer = FALSE].phase = s.phase
    BY DEF Socket
  <2>2. /\ [sock EXCEPT ![d].canceled = TRUE] = [sock EXCEPT ![d] = [sock[d] EXCEPT !.canceled = TRUE]]
        /\ [sock EXCEPT ![d].peer = FALSE] = [sock EXCEPT ![d] = [sock[d] EXCEPT !.peer = FALSE]]
    BY <1>0
  <2> QED
    BY <1>0, <2>1, <2>2, <2>3
<1>1. ASSUME NEW c \in Conn, SocketNext(c) PROVE NodeInv'
  BY <1>1, SocketTypeStep, SocketRestStep, SocketActiveStep DEF NodeInv, NodeTypeOK
<1>2. ASSUME NEW p \in Pty, NodeSpawn(p) PROVE NodeInv'
  <2>1. PersistSpawn(p, client.boot) \in [Pty -> PtyRow]
    BY <1>0, RowsAssumption, RowStatementsType DEF Client
  <2> QED
    BY <1>2, <2>1 DEF NodeSpawn, NodeInv, NodeTypeOK, ActiveHasTask, Client
<1>3. ASSUME NEW p \in Pty, NodeExit(p) PROVE NodeInv'
  <2>1. MarkDead(p) \in [Pty -> PtyRow]
    BY <1>0, RowStatementsType DEF MarkDead, PtyState
  <2> QED
    BY <1>3, <2>1 DEF NodeExit, NodeInv, NodeTypeOK, ActiveHasTask, Client
<1>4. CASE ExpireRow
  <2>1. DisconnectBoot(node.boot) \in [Pty -> PtyRow]
    BY <1>0, RowStatementsType DEF NodeRow
  <2> QED
    BY <1>4, <2>1 DEF ExpireRow, NodeInv, NodeTypeOK, ActiveHasTask, NodeRow
<1>5. CASE ExpireActive
  <2>1. expiring \in Conn
    BY <1>5 DEF ExpireActive, NodeInv, NodeTypeOK
  <2> QED
    <3>1. CASE active = expiring
      <4>1. sock' \in [Conn -> Socket]
        <5>1. sock' = [sock EXCEPT ![expiring].canceled = TRUE]
          BY <1>5, <3>1 DEF ExpireActive
        <5> QED
          BY <1>a, <2>1, <5>1
      <4> QED
        BY <1>5, <3>1, <4>1 DEF ExpireActive, NodeInv, NodeTypeOK, ActiveHasTask
    <3>2. CASE active # expiring
      BY <1>5, <3>2 DEF ExpireActive, NodeInv, NodeTypeOK, ActiveHasTask
    <3> QED
      BY <3>1, <3>2
<1>6. CASE ApprovePairing
  <2>1. MarkSessionsDisconnected \in [Pty -> PtyRow]
    BY <1>0, RowStatementsType
  <2> QED
    BY <1>6, <2>1 DEF ApprovePairing, NodeInv, NodeTypeOK, ActiveHasTask, NodeRow
<1>7. CASE CancelActive
  <2>1. CASE active = NoConn
    BY <1>7, <2>1 DEF CancelActive, NodeInv, NodeTypeOK, ActiveHasTask
  <2>2. CASE active # NoConn
    <3>1. sock' \in [Conn -> Socket]
      <4>1. active \in Conn /\ sock' = [sock EXCEPT ![active].canceled = TRUE]
        BY <1>0, <1>7, <2>2 DEF CancelActive
      <4> QED
        BY <1>a, <4>1
    <3> QED
      BY <1>7, <2>2, <3>1 DEF CancelActive, NodeInv, NodeTypeOK, ActiveHasTask
  <2> QED
    BY <2>1, <2>2
<1>f. NodeFault => faults' \in 0 .. MaxFaults
  BY ControlAssumption DEF NodeFault, NodeInv, NodeTypeOK
<1>8. CASE DropSocket
  <2>1. client.conn \in Conn
    BY <1>0, <1>8 DEF DropSocket, Client
  <2> QED
    BY <1>0, <1>8, <1>a, <1>f, <2>1 DEF DropSocket, NodeInv, NodeTypeOK, ActiveHasTask, Client
<1>9. CASE NodeRestart
  <2>1. sock' \in [Conn -> Socket] /\ \A e \in Conn : sock'[e].phase = sock[e].phase
    BY <1>0, <1>9, <1>a DEF NodeRestart, Client
  <2>2. client' \in Client
    <3>1. PICK kept \in SUBSET client.hosted :
             client' = [client EXCEPT !.boot = @ + 1, !.conn = NoConn, !.hosted = kept]
      BY <1>9 DEF NodeRestart
    <3>2. kept \in SUBSET Pty /\ client.boot + 1 \in 1 .. MaxBoot
      BY <1>0, <1>9, RowsAssumption DEF NodeRestart, Client
    <3> QED
      BY <1>0, <3>1, <3>2 DEF Client
  <2> QED
    BY <1>0, <1>9, <1>f, <2>1, <2>2 DEF NodeRestart, NodeInv, NodeTypeOK, ActiveHasTask
<1>10. CASE NodeRekey
  BY <1>0, <1>10, <1>f DEF NodeRekey, NodeInv, NodeTypeOK, ActiveHasTask, Client
<1>11. CASE GoLate
  <2>1. faults' \in 0 .. MaxFaults
    BY <1>11, <1>f DEF GoLate, NodeInv, NodeTypeOK
  <2> QED
    BY <1>0, <1>11, <2>1 DEF GoLate, NodeInv, NodeTypeOK, ActiveHasTask, NodeRow
<1> QED
  BY <1>1, <1>2, <1>3, <1>4, <1>5, <1>6, <1>7, <1>8, <1>9, <1>10, <1>11 DEF NodeNext

\* Whoever takes the recorded connection out of the row owns it, or is the
\* monitor or the operator.
LEMMA TeardownStep ==
    ASSUME NodeInv, NodeNext, NEW c \in Conn, node.conn = c, node'.conn = NoConn
    PROVE  \/ sock[c].phase = "left"
           \/ node.late
           \/ node'.key # node.key \/ node'.pending # node.pending
<1>0. node \in NodeRow /\ NoConn \notin Conn /\ NoKey \notin Key
  BY ControlAssumption DEF NodeInv, NodeTypeOK
<1>1. ASSUME NEW d \in Conn, SocketNext(d) PROVE sock[c].phase = "left"
  BY <1>0, <1>1 DEF SocketNext, Dial, RequestPairing, RecordConnection, Register,
     SendHeartbeat, TakeHeartbeat, StoreHeartbeat, KeepSample, Leave, RecordDisconnect,
     RowNames, NodeRow
<1>2. ASSUME NEW p \in Pty, NodeSpawn(p) \/ NodeExit(p) PROVE FALSE
  BY <1>0, <1>2 DEF NodeSpawn, NodeExit
<1>3. CASE ExpireRow
  BY <1>3 DEF ExpireRow
<1>4. CASE ApprovePairing
  BY <1>0, <1>4 DEF ApprovePairing, NodeRow
<1>5. CASE ExpireActive \/ CancelActive \/ DropSocket \/ NodeRestart \/ NodeRekey \/ GoLate
  BY <1>0, <1>5 DEF ExpireActive, CancelActive, DropSocket, NodeRestart, NodeRekey, GoLate, NodeRow
<1> QED
  BY <1>1, <1>2, <1>3, <1>4, <1>5 DEF NodeNext

-----------------------------------------------------------------------------
(* The shells.  ShellTypeOK says little of what is on the wire; the proofs *)
(* need the frames too.                                                    *)

UpFrame ==
    [kind : {"hello"}, inv : SUBSET Pty]
        \cup [kind : {"spawned"}, p : Pty, n : Nat, ok : BOOLEAN]
        \cup [kind : {"exited"}, p : Pty]
Command == [kind : {"spawn"}, p : Pty, n : Nat] \cup [kind : {"kill"}, p : Pty]
Event == [kind : {"connected"}, at : Ident, inv : SUBSET Pty] \cup [kind : {"exited"}, p : Pty]
Stream == [on : {"off", "dialed", "greeted"}, up : Seq(UpFrame), down : Seq(Command)]
Rest == [on : BOOLEAN, up : Seq(UpFrame)]
\* An upgrade is under way only where there is a spawn left for it.
OpRec == {o \in [step : OpStep, at : Ident \cup {NoIdent}, n : 0 .. MaxSpawns] :
             o.step = "upgrading" => o.n < MaxSpawns}

WireType ==
    /\ line \in [Ident -> Stream] /\ stale \in [Ident -> Rest]
    /\ route \in [Ident -> {"none", "line", "stale"}]
    /\ host \in [Pty -> Ident \cup {NoIdent}]
    /\ events \in Seq(Event)
    /\ op \in [Pty -> OpRec]

RestType ==
    /\ box \in [Ident -> {"absent", "up", "stopped"}]
    /\ shells \in [Ident -> [Pty -> {"none", "running", "ended"}]]
    /\ published \in Ident /\ ensured \in Ident /\ reaping \in Ident \cup {NoIdent}
    /\ handle \in [Pty -> Ident \cup {NoIdent}]
    /\ deleting \subseteq Pty
    /\ boot \in 1 .. MaxBoot /\ breaks \in 0 .. MaxBreaks
    /\ beat \in [on : BOOLEAN, inv : SUBSET Pty]

HostType == RowsType /\ WireType /\ RestType

\* Frames and commands are what the streams carry.
LEMMA FrameTypes ==
    /\ \A inv \in SUBSET Pty : Hello(inv) \in UpFrame
    /\ \A p \in Pty, n \in Nat, ok \in BOOLEAN : Spawned(p, n, ok) \in UpFrame
    /\ \A p \in Pty : Exited(p) \in UpFrame /\ Exited(p) \in Event
    /\ \A d \in Ident, inv \in SUBSET Pty : Connected(d, inv) \in Event
    /\ \A p \in Pty, n \in Nat : [kind |-> "spawn", p |-> p, n |-> n] \in Command
    /\ \A p \in Pty : [kind |-> "kill", p |-> p] \in Command
    /\ \A m \in Command : m.p \in Pty /\ (m.kind = "spawn" => m.n \in Nat)
    /\ \A m \in UpFrame : /\ m.kind = "hello" => m.inv \in SUBSET Pty
                          /\ m.kind = "spawned" => m.p \in Pty /\ m.n \in Nat /\ m.ok \in BOOLEAN
                          /\ m.kind = "exited" => m.p \in Pty /\ m \in Event /\ m = Exited(m.p)
    /\ \A m \in Event : /\ m.kind = "connected" => m.at \in Ident /\ m.inv \in SUBSET Pty
                        /\ m.kind = "exited" => m.p \in Pty /\ m = Exited(m.p)
<1>1. \A inv \in SUBSET Pty : Hello(inv) \in UpFrame
  BY DEF Hello, UpFrame
<1>2. \A p \in Pty, n \in Nat, ok \in BOOLEAN : Spawned(p, n, ok) \in UpFrame
  BY DEF Spawned, UpFrame
<1>3. \A p \in Pty : Exited(p) \in UpFrame /\ Exited(p) \in Event
  BY DEF Exited, UpFrame, Event
<1>4. \A d \in Ident, inv \in SUBSET Pty : Connected(d, inv) \in Event
  BY DEF Connected, Event
<1>5. /\ \A p \in Pty, n \in Nat : [kind |-> "spawn", p |-> p, n |-> n] \in Command
      /\ \A p \in Pty : [kind |-> "kill", p |-> p] \in Command
  BY DEF Command
<1>6. \A m \in Command : m.p \in Pty /\ (m.kind = "spawn" => m.n \in Nat)
  BY DEF Command
<1>7. ASSUME NEW m \in UpFrame
      PROVE  /\ m.kind = "hello" => m.inv \in SUBSET Pty
             /\ m.kind = "spawned" => m.p \in Pty /\ m.n \in Nat /\ m.ok \in BOOLEAN
             /\ m.kind = "exited" => m.p \in Pty /\ m \in Event /\ m = Exited(m.p)
  <2>1. m.kind = "hello" => m.inv \in SUBSET Pty
    BY DEF UpFrame
  <2>2. m.kind = "spawned" => m.p \in Pty /\ m.n \in Nat /\ m.ok \in BOOLEAN
    BY DEF UpFrame
  <2>3. m.kind = "exited" => m \in [kind : {"exited"}, p : Pty]
    BY DEF UpFrame
  <2>4. m.kind = "exited" => m.p \in Pty /\ m \in Event /\ m = Exited(m.p)
    BY <2>3 DEF Event, Exited
  <2> QED
    BY <2>1, <2>2, <2>4
<1>8. ASSUME NEW m \in Event
      PROVE  /\ m.kind = "connected" => m.at \in Ident /\ m.inv \in SUBSET Pty
             /\ m.kind = "exited" => m.p \in Pty /\ m = Exited(m.p)
  <2>1. m.kind = "connected" => m.at \in Ident /\ m.inv \in SUBSET Pty
    BY DEF Event
  <2>3. m.kind = "exited" => m \in [kind : {"exited"}, p : Pty]
    BY DEF Event
  <2>4. m.kind = "exited" => m.p \in Pty /\ m = Exited(m.p)
    BY <2>3 DEF Exited
  <2> QED
    BY <2>1, <2>4
<1> QED
  BY <1>1, <1>2, <1>3, <1>4, <1>5, <1>6, <1>7, <1>8

\* Writing a field of one stream leaves the others, and its other fields.
LEMMA OneStream ==
    ASSUME line \in [Ident -> Stream], NEW d \in Ident
    PROVE  /\ \A s \in Seq(UpFrame) :
                LET l == [line EXCEPT ![d].up = s] IN
                /\ l \in [Ident -> Stream]
                /\ l[d].up = s /\ l[d].down = line[d].down /\ l[d].on = line[d].on
                /\ \A e \in Ident \ {d} : l[e] = line[e]
           /\ \A s \in Seq(Command) :
                LET l == [line EXCEPT ![d].down = s] IN
                /\ l \in [Ident -> Stream]
                /\ l[d].down = s /\ l[d].up = line[d].up /\ l[d].on = line[d].on
                /\ \A e \in Ident \ {d} : l[e] = line[e]
           /\ \A s \in Stream : LET l == [line EXCEPT ![d] = s] IN
                /\ l \in [Ident -> Stream]
                /\ l[d] = s /\ \A e \in Ident \ {d} : l[e] = line[e]
<1>1. ASSUME NEW s \in Stream
      PROVE  LET l == [line EXCEPT ![d] = s] IN
             /\ l \in [Ident -> Stream]
             /\ l[d] = s /\ \A e \in Ident \ {d} : l[e] = line[e]
  OBVIOUS
<1>2. ASSUME NEW s \in Seq(UpFrame)
      PROVE  LET l == [line EXCEPT ![d].up = s] IN
             /\ l \in [Ident -> Stream]
             /\ l[d].up = s /\ l[d].down = line[d].down /\ l[d].on = line[d].on
             /\ \A e \in Ident \ {d} : l[e] = line[e]
  <2>1. [line[d] EXCEPT !.up = s] \in Stream
    BY DEF Stream
  <2>2. [line EXCEPT ![d].up = s] = [line EXCEPT ![d] = [line[d] EXCEPT !.up = s]]
    OBVIOUS
  <2> QED
    BY <1>1, <2>1, <2>2 DEF Stream
<1>3. ASSUME NEW s \in Seq(Command)
      PROVE  LET l == [line EXCEPT ![d].down = s] IN
             /\ l \in [Ident -> Stream]
             /\ l[d].down = s /\ l[d].up = line[d].up /\ l[d].on = line[d].on
             /\ \A e \in Ident \ {d} : l[e] = line[e]
  <2>1. [line[d] EXCEPT !.down = s] \in Stream
    BY DEF Stream
  <2>2. [line EXCEPT ![d].down = s] = [line EXCEPT ![d] = [line[d] EXCEPT !.down = s]]
    OBVIOUS
  <2> QED
    BY <1>1, <2>1, <2>2 DEF Stream
<1> QED
  BY <1>1, <1>2, <1>3

\* send_to adds one command to one stream, or to none.
LEMMA SendToAdds ==
    ASSUME WireType, NEW d \in Ident, NEW m \in Command, SendTo(d, m)
    PROVE  /\ line' \in [Ident -> Stream]
           /\ \A e \in Ident \ {d} : line'[e] = line[e]
           /\ line'[d].up = line[d].up
           /\ line'[d].down = line[d].down \/ line'[d].down = Append(line[d].down, m)
<1>1. line[d].down \in Seq(Command) /\ Append(line[d].down, m) \in Seq(Command)
  BY DEF WireType, Stream
<1>2. line' = line \/ line' = [line EXCEPT ![d].down = Append(line[d].down, m)]
  BY DEF SendTo
<1>3. CASE line' = line
  BY <1>3 DEF WireType
<1>4. CASE line' = [line EXCEPT ![d].down = Append(line[d].down, m)]
  <2> DEFINE s == Append(line[d].down, m)
  <2>1. s \in Seq(Command) /\ line' = [line EXCEPT ![d].down = s]
    BY <1>1, <1>4
  <2> HIDE DEF s
  <2>2. /\ line' \in [Ident -> Stream]
        /\ line'[d].down = s /\ line'[d].up = line[d].up
        /\ \A e \in Ident \ {d} : line'[e] = line[e]
    BY <2>1, OneStream DEF WireType
  <2> QED
    BY <2>2 DEF s
<1> QED
  BY <1>2, <1>3, <1>4

\* Failing what waits for an ident changes no more than steps.
LEMMA FailPendingSteps ==
    ASSUME WireType, NEW d \in Ident
    PROVE  /\ FailPending(d) \in [Pty -> OpRec]
           /\ \A p \in Pty : /\ FailPending(d)[p].n = op[p].n
                            /\ \/ FailPending(d)[p] = op[p]
                               \/ op[p].step = "waiting" /\ FailPending(d)[p].step = "denied"
BY DEF WireType, FailPending, OpRec, OpStep

\* An operation's record after a step changed it, and the other records.
OpBecomes(p, st, n) ==
    /\ op' \in [Pty -> OpRec] /\ op'[p].step = st /\ op'[p].n = n
    /\ \A q \in Pty \ {p} : op'[q] = op[q]

\* The record of one operation is replaced.
LEMMA OpTo ==
    ASSUME WireType, NEW p \in Pty, NEW o \in OpRec, op' = [op EXCEPT ![p] = o]
    PROVE  OpBecomes(p, o.step, o.n)
BY DEF WireType, OpBecomes

\* Its step changes, and perhaps the ident it waits on.
LEMMA OpStepTo ==
    ASSUME WireType, NEW p \in Pty, NEW st \in OpStep, NEW d \in Ident,
           st = "upgrading" => op[p].n < MaxSpawns,
           \/ op' = [op EXCEPT ![p].step = st]
           \/ op' = [op EXCEPT ![p].step = st, ![p].at = d]
    PROVE  OpBecomes(p, st, op[p].n)
<1>0. op \in [Pty -> OpRec] /\ op[p] \in OpRec
  BY DEF WireType
<1>1. CASE op' = [op EXCEPT ![p].step = st]
  <2> DEFINE o == [op[p] EXCEPT !.step = st]
  <2>1. o \in OpRec /\ o.step = st /\ o.n = op[p].n
    BY <1>0 DEF OpRec
  <2>2. op' = [op EXCEPT ![p] = o]
    BY <1>0, <1>1
  <2> HIDE DEF o
  <2>3. OpBecomes(p, o.step, o.n)
    BY <2>1, <2>2, OpTo
  <2> QED
    BY <2>1, <2>3
<1>2. CASE op' = [op EXCEPT ![p].step = st, ![p].at = d]
  <2> DEFINE o == [op[p] EXCEPT !.step = st, !.at = d]
  <2>1. o \in OpRec /\ o.step = st /\ o.n = op[p].n
    BY <1>0 DEF OpRec
  <2>2. op' = [op EXCEPT ![p] = o]
    BY <1>0, <1>2
  <2> HIDE DEF o
  <2>3. OpBecomes(p, o.step, o.n)
    BY <2>1, <2>2, OpTo
  <2> QED
    BY <2>1, <2>3
<1> QED
  BY <1>1, <1>2

\* It is over.
LEMMA OpEnds ==
    ASSUME WireType, NEW p \in Pty, op' = [op EXCEPT ![p] = [NoOp EXCEPT !.n = op[p].n]]
    PROVE  OpBecomes(p, "idle", op[p].n)
<1> DEFINE o == [NoOp EXCEPT !.n = op[p].n]
<1>1. o \in OpRec /\ o.step = "idle" /\ o.n = op[p].n
  BY DEF WireType, OpRec, NoOp, OpStep
<1> HIDE DEF o
<1>2. OpBecomes(p, o.step, o.n)
  BY <1>1, OpTo DEF o
<1> QED
  BY <1>1, <1>2

\* One more spawn of the session begins.
LEMMA OpSpawns ==
    ASSUME WireType, NEW p \in Pty, op[p].n < MaxSpawns,
           op' = [op EXCEPT ![p] = [step |-> "persisted", at |-> NoIdent, n |-> @.n + 1]]
    PROVE  OpBecomes(p, "persisted", op[p].n + 1)
<1> DEFINE o == [step |-> "persisted", at |-> NoIdent, n |-> op[p].n + 1]
<1>1. op[p].n \in Nat /\ op[p].n + 1 \in 0 .. MaxSpawns
  BY HostAssumption DEF WireType, OpRec
<1>2. o \in OpRec /\ o.step = "persisted" /\ o.n = op[p].n + 1
  BY <1>1 DEF OpRec, OpStep
<1>3. op' = [op EXCEPT ![p] = o]
  BY DEF WireType
<1> HIDE DEF o
<1>4. OpBecomes(p, o.step, o.n)
  BY <1>2, <1>3, OpTo
<1> QED
  BY <1>2, <1>4

\* A stream that breaks leaves a part of its frames to the old reader.
LEMMA BrokenAtLeaves ==
    ASSUME WireType, NEW d \in Ident, NEW k \in 0 .. Len(line[d].up), BrokenAt(d, k)
    PROVE  /\ line' \in [Ident -> Stream] /\ stale' \in [Ident -> Rest]
           /\ route' \in [Ident -> {"none", "line", "stale"}]
           /\ line'[d] = Closed /\ \A e \in Ident \ {d} : line'[e] = line[e]
           /\ stale'[d].up \in {stale[d].up, SubSeq(line[d].up, 1, k)}
           /\ \A e \in Ident \ {d} : stale'[e] = stale[e]
<1>1. Closed \in Stream
  BY DEF Closed, Stream
<1>2. line[d].up \in Seq(UpFrame) /\ SubSeq(line[d].up, 1, k) \in Seq(UpFrame)
  BY DEF WireType, Stream
<1>3. [on |-> TRUE, up |-> SubSeq(line[d].up, 1, k)] \in Rest
  BY <1>2 DEF Rest
<1>4. \/ stale' = stale
      \/ stale' = [stale EXCEPT ![d] = [on |-> TRUE, up |-> SubSeq(line[d].up, 1, k)]]
  BY DEF BrokenAt
<1>5. stale' \in [Ident -> Rest]
  BY <1>3, <1>4 DEF WireType
<1>6. /\ stale'[d].up \in {stale[d].up, SubSeq(line[d].up, 1, k)}
      /\ \A e \in Ident \ {d} : stale'[e] = stale[e]
  BY <1>4 DEF WireType
<1>7. route' \in [Ident -> {"none", "line", "stale"}]
  BY DEF BrokenAt, WireType
<1>8. /\ line' \in [Ident -> Stream]
      /\ line'[d] = Closed /\ \A e \in Ident \ {d} : line'[e] = line[e]
  BY <1>1, OneStream DEF BrokenAt, WireType
<1> QED
  BY <1>5, <1>6, <1>7, <1>8

\* What one frame does keeps the link's state in its sets.
LEMMA LinkReceiveType ==
    ASSUME WireType, NEW d \in Ident, NEW m \in UpFrame, LinkReceive(d, m)
    PROVE  /\ host' \in [Pty -> Ident \cup {NoIdent}] /\ events' \in Seq(Event)
           /\ op' \in [Pty -> OpRec]
<1>1. CASE m.kind = "hello"
  <2>1. m.inv \in SUBSET Pty /\ Connected(d, m.inv) \in Event
    BY <1>1, FrameTypes
  <2>2. HelloHost(d, m.inv) \in [Pty -> Ident \cup {NoIdent}]
    BY DEF HelloHost, WireType
  <2>3. /\ host' = HelloHost(d, m.inv) /\ op' = FailPending(d)
        /\ events' = Append(events, Connected(d, m.inv))
    BY <1>1 DEF LinkReceive
  <2>4. events' \in Seq(Event)
    BY <2>1, <2>3 DEF WireType
  <2> QED
    BY <2>2, <2>3, <2>4, FailPendingSteps
<1>2. CASE m.kind = "spawned"
  <2>1. m.p \in Pty /\ m.ok \in BOOLEAN
    BY <1>2, FrameTypes
  <2>2. "granted" \in OpStep /\ "denied" \in OpStep
    BY DEF OpStep
  <2>3. \/ op' = op
        \/ op' = [op EXCEPT ![m.p].step = "granted"]
        \/ op' = [op EXCEPT ![m.p].step = "denied"]
    BY <1>2 DEF LinkReceive
  <2>4. op' \in [Pty -> OpRec]
    <3>1. CASE op' = op
      BY <3>1 DEF WireType
    <3>2. CASE op' = [op EXCEPT ![m.p].step = "granted"]
      BY <2>1, <2>2, <3>2, OpStepTo DEF OpBecomes
    <3>3. CASE op' = [op EXCEPT ![m.p].step = "denied"]
      BY <2>1, <2>2, <3>3, OpStepTo DEF OpBecomes
    <3> QED
      BY <2>3, <3>1, <3>2, <3>3
  <2> QED
    BY <1>2, <2>4 DEF LinkReceive, WireType
<1>3. CASE m.kind = "exited"
  <2>1. m.p \in Pty /\ m \in Event
    BY <1>3, FrameTypes
  <2> QED
    <3>1. /\ host' = [host EXCEPT ![m.p] = NoIdent]
          /\ events' = Append(events, m) /\ UNCHANGED op
      BY <1>3 DEF LinkReceive
    <3> QED
      BY <2>1, <3>1 DEF WireType
<1> QED
  BY <1>1, <1>2, <1>3 DEF LinkReceive

\* A step of a devenv or of a reader.
LEMMA DevenvType ==
    ASSUME HostType, NEW d \in Ident, DevenvNext(d)
    PROVE  HostType'
<1> USE DEF HostType
<1>0. /\ line[d] \in Stream /\ stale[d] \in Rest
      /\ line[d].up \in Seq(UpFrame) /\ line[d].down \in Seq(Command) /\ stale[d].up \in Seq(UpFrame)
  BY DEF WireType, Stream, Rest
<1>1. CASE ServerDial(d)
  <2>1. InMap(d) \in SUBSET Pty
    BY DEF InMap
  <2>2. <<Hello(InMap(d))>> \in Seq(UpFrame)
    BY <2>1, FrameTypes
  <2>3. [on |-> "dialed", up |-> <<Hello(InMap(d))>>, down |-> <<>>] \in Stream
    BY <2>2 DEF Stream
  <2>4. line' \in [Ident -> Stream]
    BY <1>1, <2>3, OneStream DEF ServerDial, WireType
  <2> QED
    BY <1>1, <2>4 DEF ServerDial, WireType, RestType, RowsType, launchVars, managerVars
<1>2. CASE ServerReceive(d)
  <2> DEFINE m == Head(line[d].down)
             rest == [line[d] EXCEPT !.down = Tail(@)]
             ok == shells[d][m.p] = "none"
  <2>1. line[d].down # <<>>
    BY <1>2 DEF ServerReceive
  <2>2. m \in Command /\ Tail(line[d].down) \in Seq(Command)
    BY <1>0, <2>1
  <2>3. rest \in Stream
    BY <1>0, <2>2 DEF Stream
  <2>4. m.p \in Pty /\ (m.kind = "spawn" => m.n \in Nat)
    BY <2>2, FrameTypes
  <2>5. ok \in BOOLEAN
    OBVIOUS
  <2>6. ASSUME NEW f \in UpFrame PROVE [rest EXCEPT !.up = Append(@, f)] \in Stream
    <3> HIDE DEF rest
    <3>1. Append(rest.up, f) \in Seq(UpFrame)
      BY <2>3 DEF Stream
    <3> QED
      BY <2>3, <3>1 DEF Stream
  <2>7. m.kind = "spawn" => Spawned(m.p, m.n, ok) \in UpFrame
    BY <2>4, <2>5, FrameTypes
  <2>8. line' \in [Ident -> Stream]
    <3>1. CASE m.kind = "spawn" /\ line' = [line EXCEPT ![d] = [rest EXCEPT !.up = Append(@, Spawned(m.p, m.n, ok))]]
      BY <2>6, <2>7, <3>1, OneStream DEF WireType
    <3>2. CASE line' = [line EXCEPT ![d] = rest]
      BY <2>3, <3>2, OneStream DEF WireType
    <3> QED
      BY <1>2, <3>1, <3>2 DEF ServerReceive
  <2>9. shells' \in [Ident -> [Pty -> {"none", "running", "ended"}]]
    <3>1. \/ shells' = shells
          \/ shells' = [shells EXCEPT ![d][m.p] = "running"]
          \/ shells' = [shells EXCEPT ![d][m.p] = "ended"]
      BY <1>2 DEF ServerReceive
    <3> HIDE DEF m
    <3> QED
      BY <2>4, <3>1 DEF RestType
  <2> QED
    BY <1>2, <2>8, <2>9 DEF ServerReceive, WireType, RestType, RowsType, launchVars, managerVars
<1>3. CASE ReadLine(d)
  <2>1. Head(line[d].up) \in UpFrame /\ Tail(line[d].up) \in Seq(UpFrame)
    BY <1>0, <1>3 DEF ReadLine
  <2>2. [line[d] EXCEPT !.up = Tail(@), !.on = "greeted"] \in Stream
    BY <1>0, <2>1 DEF Stream
  <2>3. line' = [line EXCEPT ![d] = [line[d] EXCEPT !.up = Tail(@), !.on = "greeted"]]
    BY <1>3 DEF ReadLine, WireType
  <2>4. line' \in [Ident -> Stream]
    BY <2>2, <2>3, OneStream DEF WireType
  <2>5. route' \in [Ident -> {"none", "line", "stale"}]
    BY <1>3 DEF ReadLine, WireType
  <2>6. LinkReceive(d, Head(line[d].up))
    BY <1>3 DEF ReadLine
  <2> QED
    BY <1>3, <2>1, <2>4, <2>5, <2>6, LinkReceiveType DEF ReadLine, WireType, RestType, RowsType, launchVars, managerVars
<1>4. CASE ReadStale(d)
  <2>1. Head(stale[d].up) \in UpFrame /\ Tail(stale[d].up) \in Seq(UpFrame)
    BY <1>0, <1>4 DEF ReadStale
  <2>2. [stale[d] EXCEPT !.up = Tail(@)] \in Rest
    BY <1>0, <2>1 DEF Rest
  <2>3. stale' = [stale EXCEPT ![d] = [stale[d] EXCEPT !.up = Tail(@)]]
    BY <1>4 DEF ReadStale, WireType
  <2>4. stale' \in [Ident -> Rest]
    BY <2>2, <2>3 DEF WireType
  <2>6. LinkReceive(d, Head(stale[d].up))
    BY <1>4 DEF ReadStale
  <2> QED
    BY <1>4, <2>1, <2>4, <2>6, LinkReceiveType DEF ReadStale, WireType, RestType, RowsType, launchVars, managerVars
<1>5. CASE Teardown(d)
  <2>1. NoStream \in Rest
    BY DEF NoStream, Rest
  <2>2. stale' \in [Ident -> Rest] /\ route' \in [Ident -> {"none", "line", "stale"}]
    BY <1>5, <2>1 DEF Teardown, WireType
  <2> QED
    BY <1>5, <2>2, FailPendingSteps DEF Teardown, WireType, RestType, RowsType, launchVars, managerVars
<1>6. ASSUME NEW p \in Pty, PumpExit(d, p) PROVE HostType'
  <2>1. Append(line[d].up, Exited(p)) \in Seq(UpFrame)
    BY <1>0, FrameTypes
  <2>3. line' \in [Ident -> Stream]
    <3> DEFINE s == Append(line[d].up, Exited(p))
    <3>1. s \in Seq(UpFrame) /\ line' = [line EXCEPT ![d].up = s]
      BY <1>6, <2>1 DEF PumpExit
    <3> HIDE DEF s
    <3> QED
      BY <3>1, OneStream DEF WireType
  <2>4. shells' \in [Ident -> [Pty -> {"none", "running", "ended"}]]
    BY <1>6 DEF PumpExit, RestType
  <2> QED
    BY <1>6, <2>3, <2>4 DEF PumpExit, WireType, RestType, RowsType, launchVars, managerVars
<1> QED
  BY <1>1, <1>2, <1>3, <1>4, <1>5, <1>6 DEF DevenvNext

\* A step of the manager's event task, or of a spawn or delete it carries on.
LEMMA ManagerType ==
    ASSUME HostType, ManagerNext
    PROVE  HostType'
<1> USE DEF HostType
<1>0. \A st \in {"waiting", "denied", "upgrading"} : st \in OpStep
  BY DEF OpStep
<1>1. CASE ApplyExited
  <2>1. Head(events) \in Event /\ events' \in Seq(Event)
    BY <1>1 DEF ApplyExited, WireType
  <2>2. Head(events).p \in Pty
    BY <1>1, <2>1, FrameTypes DEF ApplyExited
  <2>3. sess' \in [Pty -> PtyRow]
    BY <1>1, <2>2, RowStatementsType DEF ApplyExited, MarkDead, PtyState
  <2>4. handle' \in [Pty -> Ident \cup {NoIdent}]
    BY <1>1, <2>2 DEF ApplyExited, DropHandle, RestType
  <2> QED
    BY <1>1, <2>1, <2>3, <2>4 DEF ApplyExited, WireType, RestType, RowsType, linkVars, launchVars
<1>2. CASE ApplyConnected
  <2>1. Head(events) \in Event /\ events' \in Seq(Event)
    BY <1>2 DEF ApplyConnected, WireType
  <2>2. Head(events).at \in Ident
    BY <1>2, <2>1, FrameTypes DEF ApplyConnected
  <2>3. ASSUME NEW p \in Pty PROVE MarkOrphaned(p)[p] \in PtyRow /\ sess[p] \in PtyRow
    BY RowStatementsType DEF MarkOrphaned, PtyState, RowsType
  <2>4. sess' \in [Pty -> PtyRow]
    BY <1>2, <2>3 DEF ApplyConnected
  <2>5. handle' \in [Pty -> Ident \cup {NoIdent}]
    BY <1>2, <2>2 DEF ApplyConnected, RestType
  <2> QED
    BY <1>2, <2>1, <2>4, <2>5 DEF ApplyConnected, WireType, RestType, RowsType, linkVars, launchVars
<1>3. ASSUME NEW p \in Pty, LinkSpawn(p) PROVE HostType'
  <2>1. published \in Ident /\ op[p].n \in Nat
    BY HostAssumption DEF RestType, WireType, OpRec
  <2>2. [kind |-> "spawn", p |-> p, n |-> op[p].n] \in Command
    BY <2>1, FrameTypes
  <2>3. line' \in [Ident -> Stream]
    BY <1>3, <2>1, <2>2, SendToAdds DEF LinkSpawn, WireType
  <2>4. \/ op' = [op EXCEPT ![p].step = "waiting", ![p].at = published]
        \/ op' = [op EXCEPT ![p].step = "denied"]
    BY <1>3 DEF LinkSpawn
  <2>5. op' \in [Pty -> OpRec]
    <3>1. CASE op' = [op EXCEPT ![p].step = "waiting", ![p].at = published]
      BY <1>0, <2>1, <3>1, OpStepTo DEF OpBecomes
    <3>2. CASE op' = [op EXCEPT ![p].step = "denied"]
      BY <1>0, <2>1, <3>2, OpStepTo DEF OpBecomes
    <3> QED
      BY <2>4, <3>1, <3>2
  <2>6. host' \in [Pty -> Ident \cup {NoIdent}]
    BY <1>3, <2>1 DEF LinkSpawn, WireType
  <2> QED
    BY <1>3, <2>3, <2>5, <2>6 DEF LinkSpawn, WireType, RestType, RowsType, launchVars
<1>4. ASSUME NEW p \in Pty, SpawnDenied(p) PROVE HostType'
  <2>1. sess' \in [Pty -> PtyRow]
    BY <1>4, RowStatementsType DEF SpawnDenied, AbandonUnspawned, PtyState
  <2>2. op' \in [Pty -> OpRec]
    BY <1>4, OpEnds DEF SpawnDenied, OpBecomes
  <2>3. host' \in [Pty -> Ident \cup {NoIdent}]
    BY <1>4 DEF SpawnDenied, WireType
  <2> QED
    BY <1>4, <2>1, <2>2, <2>3 DEF SpawnDenied, WireType, RestType, RowsType, launchVars
<1>5. ASSUME NEW p \in Pty, SpawnGranted(p) PROVE HostType'
  <2>1. handle' \in [Pty -> Ident \cup {NoIdent}]
    BY <1>5 DEF SpawnGranted, RestType, WireType, OpRec
  <2>2. op' \in [Pty -> OpRec]
    BY <1>5, OpEnds DEF SpawnGranted, OpBecomes
  <2> QED
    BY <1>5, <2>1, <2>2 DEF SpawnGranted, WireType, RestType, RowsType, linkVars, launchVars
<1>6. ASSUME NEW p \in Pty, FinishDelete(p) PROVE HostType'
  BY <1>6, RowStatementsType DEF FinishDelete, WireType, RestType, RowsType, linkVars, launchVars
<1>7. ASSUME NEW p \in Pty, UpgradeSpawn(p) PROVE HostType'
  <2>1. op[p].n < MaxSpawns
    BY <1>7 DEF UpgradeSpawn, WireType, OpRec
  <2>2. op' \in [Pty -> OpRec]
    BY <1>7, <2>1, OpSpawns DEF UpgradeSpawn, OpBecomes
  <2>3. boot \in 0 .. MaxBoot
    BY RowsAssumption DEF RestType
  <2>4. sess' \in [Pty -> PtyRow]
    BY <1>7, <2>3, RowStatementsType DEF UpgradeSpawn
  <2> QED
    BY <1>7, <2>2, <2>4 DEF UpgradeSpawn, WireType, RestType, RowsType, linkVars, launchVars
<1> QED
  BY <1>1, <1>2, <1>3, <1>4, <1>5, <1>6, <1>7 DEF ManagerNext, SpawnStep

\* A step a user or a timeout takes, and a shell's own end.
LEMMA UserType ==
    ASSUME HostType, NEW p \in Pty,
           \/ StartSpawn(p) \/ StartUpgrade(p) \/ StartDelete(p)
           \/ SpawnTimeout(p) \/ UpgradeTimeout(p)
    PROVE  HostType'
<1> USE DEF HostType
<1>0. "denied" \in OpStep /\ "upgrading" \in OpStep /\ Old \in Ident
  BY DEF OpStep, Ident
<1>1. CASE StartSpawn(p)
  <2>1. op' \in [Pty -> OpRec]
    BY <1>1, OpSpawns DEF StartSpawn, OpBecomes
  <2>2. boot \in 0 .. MaxBoot
    BY RowsAssumption DEF RestType
  <2>3. sess' \in [Pty -> PtyRow]
    BY <1>1, <2>2, RowStatementsType DEF StartSpawn
  <2> QED
    BY <1>1, <2>1, <2>3 DEF StartSpawn, WireType, RestType, RowsType, linkVars, launchVars
<1>2. CASE StartUpgrade(p)
  <2>1. host[p] \in Ident
    BY <1>2 DEF StartUpgrade, CanSend, WireType
  <2>2. [kind |-> "kill", p |-> p] \in Command
    BY FrameTypes
  <2>3. line' \in [Ident -> Stream]
    BY <1>2, <2>1, <2>2, SendToAdds DEF StartUpgrade, SendKill
  <2>4. op' \in [Pty -> OpRec]
    BY <1>0, <1>2, OpStepTo DEF StartUpgrade, OpBecomes
  <2>5. breaks' \in 0 .. MaxBreaks
    BY <1>2, HostAssumption DEF StartUpgrade, Mishap, RestType
  <2> QED
    BY <1>2, <2>3, <2>4, <2>5 DEF StartUpgrade, WireType, RestType, RowsType, launchVars
<1>3. CASE StartDelete(p)
  <2>1. line' \in [Ident -> Stream]
    <3>1. CASE handle[p] # NoIdent /\ CanSend(p)
      <4>1. host[p] \in Ident
        BY <3>1 DEF CanSend, WireType
      <4>2. [kind |-> "kill", p |-> p] \in Command
        BY FrameTypes
      <4> QED
        BY <1>3, <3>1, <4>1, <4>2, SendToAdds DEF StartDelete, SendKill
    <3>2. CASE ~(handle[p] # NoIdent /\ CanSend(p))
      BY <1>3, <3>2 DEF StartDelete, WireType
    <3> QED
      BY <3>1, <3>2
  <2>2. handle' \in [Pty -> Ident \cup {NoIdent}]
    BY <1>3 DEF StartDelete, DropHandle, RestType
  <2> QED
    BY <1>3, <2>1, <2>2 DEF StartDelete, WireType, RestType, RowsType, launchVars
<1>4. CASE SpawnTimeout(p)
  <2>1. op' \in [Pty -> OpRec]
    BY <1>0, <1>4, OpStepTo DEF SpawnTimeout, OpBecomes
  <2> QED
    BY <1>4, <2>1 DEF SpawnTimeout, WireType, RestType, RowsType, linkVars, launchVars
<1>5. CASE UpgradeTimeout(p)
  <2>1. op' \in [Pty -> OpRec]
    BY <1>5, OpEnds DEF UpgradeTimeout, OpBecomes
  <2> QED
    BY <1>5, <2>1 DEF UpgradeTimeout, WireType, RestType, RowsType, linkVars, launchVars
<1> QED
  BY <1>1, <1>2, <1>3, <1>4, <1>5

\* A step of a fault, of the launcher, of the heartbeat or of the process.
LEMMA FaultType ==
    ASSUME HostType,
           \/ \E d \in Ident : \/ StreamBreak(d) \/ ContainerDown(d, "up")
                              \/ ContainerDown(d, "stopped") \/ ReapDecide(d)
                              \/ \E p \in Pty : ShellExit(d, p)
           \/ EnsureCurrent \/ Publish \/ Reap \/ Restart \/ BeatNext
    PROVE  HostType'
<1> USE DEF HostType
<1>m. Mishap => breaks' \in 0 .. MaxBreaks
  BY HostAssumption DEF Mishap, RestType
<1>1. ASSUME NEW d \in Ident, StreamBreak(d) PROVE HostType'
  <2>1. PICK k \in 0 .. Len(line[d].up) : BrokenAt(d, k)
    BY <1>1 DEF StreamBreak
  <2>2. PICK lost \in SUBSET Pty :
           shells' = [shells EXCEPT ![d] = [p \in Pty |-> IF p \in lost THEN "none" ELSE @[p]]]
    BY <1>1 DEF StreamBreak
  <2>3. shells' \in [Ident -> [Pty -> {"none", "running", "ended"}]]
    BY <2>2 DEF RestType
  <2> QED
    BY <1>1, <1>m, <2>1, <2>3, BrokenAtLeaves
       DEF StreamBreak, WireType, RestType, RowsType, launchVars, managerVars
<1>2. ASSUME NEW d \in Ident, NEW st \in {"up", "stopped"}, ContainerDown(d, st) PROVE HostType'
  <2>1. /\ line' \in [Ident -> Stream] /\ stale' \in [Ident -> Rest]
        /\ route' \in [Ident -> {"none", "line", "stale"}]
    <3>1. CASE line[d].on = "off"
      BY <1>2, <3>1 DEF ContainerDown, WireType
    <3>2. CASE line[d].on # "off"
      BY <1>2, <3>2, BrokenAtLeaves DEF ContainerDown
    <3> QED
      BY <3>1, <3>2
  <2>2. box' \in [Ident -> {"absent", "up", "stopped"}]
    BY <1>2 DEF ContainerDown, RestType
  <2>3. shells' \in [Ident -> [Pty -> {"none", "running", "ended"}]]
    BY <1>2 DEF ContainerDown, RestType
  <2> QED
    BY <1>2, <1>m, <2>1, <2>2, <2>3
       DEF ContainerDown, WireType, RestType, RowsType, managerVars
<1>3. ASSUME NEW d \in Ident, ReapDecide(d) PROVE HostType'
  BY <1>3 DEF ReapDecide, WireType, RestType, RowsType, linkVars, managerVars
<1>4. ASSUME NEW d \in Ident, NEW p \in Pty, ShellExit(d, p) PROVE HostType'
  <2>1. shells' \in [Ident -> [Pty -> {"none", "running", "ended"}]]
    BY <1>4 DEF ShellExit, RestType
  <2> QED
    BY <1>4, <2>1 DEF ShellExit, WireType, RestType, RowsType, linkVars, launchVars, managerVars
<1>5. CASE EnsureCurrent
  <2>1. box' \in [Ident -> {"absent", "up", "stopped"}] /\ ensured' \in Ident
    BY <1>5 DEF EnsureCurrent, RestType
  <2> QED
    BY <1>5, <2>1 DEF EnsureCurrent, WireType, RestType, RowsType, linkVars, managerVars
<1>6. CASE Publish
  BY <1>6 DEF Publish, WireType, RestType, RowsType, linkVars, managerVars
<1>7. CASE Reap
  <2>0. reaping \in Ident
    BY <1>7 DEF Reap, RestType
  <2>1. /\ line' \in [Ident -> Stream] /\ stale' \in [Ident -> Rest]
        /\ route' \in [Ident -> {"none", "line", "stale"}]
    <3>1. CASE line[reaping].on = "off"
      BY <1>7, <3>1 DEF Reap, WireType
    <3>2. CASE line[reaping].on # "off"
      <4>1. Len(line[reaping].up) \in 0 .. Len(line[reaping].up)
        BY <2>0 DEF WireType, Stream
      <4> QED
        BY <1>7, <2>0, <3>2, <4>1, BrokenAtLeaves DEF Reap
    <3> QED
      BY <3>1, <3>2
  <2>2. box' \in [Ident -> {"absent", "up", "stopped"}]
    BY <1>7, <2>0 DEF Reap, RestType
  <2>3. shells' \in [Ident -> [Pty -> {"none", "running", "ended"}]]
    BY <1>7, <2>0 DEF Reap, RestType
  <2> QED
    BY <1>7, <2>1, <2>2, <2>3 DEF Reap, WireType, RestType, RowsType, managerVars
<1>8. CASE Restart
  <2>1. Closed \in Stream /\ NoStream \in Rest
    BY DEF Closed, Stream, NoStream, Rest
  <2>2. op' \in [Pty -> OpRec]
    BY <1>8 DEF Restart, WireType, OpRec, NoOp, OpStep
  <2>3. boot' \in 1 .. MaxBoot
    BY <1>8, RowsAssumption DEF Restart, RestType
  <2>4. beat' \in [on : BOOLEAN, inv : SUBSET Pty]
    BY <1>8 DEF Restart, NoBeat
  <2>5. WireType'
    BY <1>8, <2>1, <2>2 DEF Restart, WireType
  <2> QED
    BY <1>8, <1>m, <2>3, <2>4, <2>5 DEF Restart, RestType, RowsType
<1>9. CASE TakeBeat
  <2>1. beat' \in [on : BOOLEAN, inv : SUBSET Pty]
    BY <1>9 DEF TakeBeat
  <2> QED
    BY <1>9, <2>1 DEF TakeBeat, WireType, RestType, RowsType, linkVars, launchVars, managerVars
<1>10. CASE ApplyBeat
  <2>1. beat' \in [on : BOOLEAN, inv : SUBSET Pty]
    BY <1>10 DEF ApplyBeat, NoBeat
  <2>2. boot \in 0 .. MaxBoot /\ beat.inv \in SUBSET Pty
    BY RowsAssumption DEF RestType
  <2>3. sess' \in [Pty -> PtyRow]
    BY <1>10, <2>2, HeartbeatRowsType DEF ApplyBeat
  <2> QED
    BY <1>10, <2>1, <2>3 DEF ApplyBeat, WireType, RestType, RowsType, linkVars, launchVars, managerVars
<1> QED
  BY <1>1, <1>2, <1>3, <1>4, <1>5, <1>6, <1>7, <1>8, <1>9, <1>10 DEF BeatNext

\* Every step of the shells' side keeps their types.
LEMMA HostTypeStep ==
    ASSUME HostType, ShellNext
    PROVE  HostType'
BY DevenvType, ManagerType, UserType, FaultType DEF ShellNext

-----------------------------------------------------------------------------
(* One life per session.  Until a session is spawned a second time, the    *)
(* spawn is with the manager, on its way to one devenv, in one map, or     *)
(* ended; the exit is reported after the shell left every map.             *)

IsSpawn(m, p) == m.kind = "spawn" /\ m.p = p
NoSpawn(p, s) == \A i \in 1 .. Len(s) : ~IsSpawn(s[i], p)
OneSpawn(p, s) == \A i, j \in 1 .. Len(s) : IsSpawn(s[i], p) /\ IsSpawn(s[j], p) => i = j
InSeq(m, s) == \E i \in 1 .. Len(s) : s[i] = m

\* The exit of p is on its way to the manager.
Reported(p) ==
    \/ InSeq(Exited(p), events)
    \/ \E d \in Ident : InSeq(Exited(p), line[d].up) \/ InSeq(Exited(p), stale[d].up)

\* No devenv has been or will be asked for p, unless it already answered.
Quiet(p) == op[p].step # "persisted" /\ \A d \in Ident : NoSpawn(p, line[d].down)
Gone(p) == \A d \in Ident : shells[d][p] = "none"

Unborn(p) ==
    /\ op[p].step = "idle" /\ handle[p] = NoIdent /\ p \notin deleting
    /\ sess[p].state = "none"
    /\ Quiet(p) /\ Gone(p) /\ ~Reported(p)

OneLife(p) ==
    /\ ~Gone(p) => Quiet(p)
    /\ \A d, e \in Ident : shells[d][p] # "none" /\ shells[e][p] # "none" => d = e
    /\ Reported(p) \/ sess[p].state = "dead" => Quiet(p) /\ Gone(p)
    /\ op[p].step = "persisted" => \A d \in Ident : NoSpawn(p, line[d].down)
    /\ \A d \in Ident : OneSpawn(p, line[d].down)
    /\ \A d, e \in Ident : d # e => NoSpawn(p, line[d].down) \/ NoSpawn(p, line[e].down)

LifeOf(p) ==
    /\ op[p].n = 0 => Unborn(p)
    /\ op[p].n # 0 => sess[p].state # "none"
    /\ op[p].n = 1 => OneLife(p)

\* Commands that come and go at the ends of a stream.
LEMMA SpawnSeqs ==
    ASSUME NEW p \in Pty, NEW s \in Seq(Command), NEW m \in Command
    PROVE  /\ NoSpawn(p, <<>>) /\ OneSpawn(p, <<>>)
           /\ ~IsSpawn(m, p) /\ NoSpawn(p, s) => NoSpawn(p, Append(s, m))
           /\ ~IsSpawn(m, p) /\ OneSpawn(p, s) => OneSpawn(p, Append(s, m))
           /\ NoSpawn(p, s) => OneSpawn(p, Append(s, m))
           /\ s # <<>> /\ NoSpawn(p, s) => NoSpawn(p, Tail(s))
           /\ s # <<>> /\ OneSpawn(p, s) => OneSpawn(p, Tail(s))
           /\ s # <<>> /\ IsSpawn(Head(s), p) => ~NoSpawn(p, s)
           /\ s # <<>> /\ IsSpawn(Head(s), p) /\ OneSpawn(p, s) => NoSpawn(p, Tail(s))
<1> HIDE DEF IsSpawn
<1>1. NoSpawn(p, <<>>) /\ OneSpawn(p, <<>>)
  BY DEF NoSpawn, OneSpawn
<1>2. /\ ~IsSpawn(m, p) /\ NoSpawn(p, s) => NoSpawn(p, Append(s, m))
      /\ NoSpawn(p, s) => OneSpawn(p, Append(s, m))
  BY DEF NoSpawn, OneSpawn
<1>3. ~IsSpawn(m, p) /\ OneSpawn(p, s) => OneSpawn(p, Append(s, m))
  BY DEF OneSpawn
<1>4. s # <<>> /\ NoSpawn(p, s) => NoSpawn(p, Tail(s))
  BY DEF NoSpawn
<1>5. s # <<>> /\ OneSpawn(p, s) => OneSpawn(p, Tail(s))
  <2> SUFFICES ASSUME s # <<>>, OneSpawn(p, s),
                      NEW i \in 1 .. Len(Tail(s)), NEW j \in 1 .. Len(Tail(s)),
                      IsSpawn(Tail(s)[i], p), IsSpawn(Tail(s)[j], p)
               PROVE  i = j
    BY DEF OneSpawn
  <2>1. i + 1 \in 1 .. Len(s) /\ j + 1 \in 1 .. Len(s)
    OBVIOUS
  <2>2. Tail(s)[i] = s[i + 1] /\ Tail(s)[j] = s[j + 1]
    OBVIOUS
  <2> QED
    BY <2>1, <2>2 DEF OneSpawn
<1>6. s # <<>> /\ IsSpawn(Head(s), p) => ~NoSpawn(p, s)
  BY DEF NoSpawn
<1>7. s # <<>> /\ IsSpawn(Head(s), p) /\ OneSpawn(p, s) => NoSpawn(p, Tail(s))
  <2> SUFFICES ASSUME s # <<>>, IsSpawn(Head(s), p), OneSpawn(p, s),
                      NEW i \in 1 .. Len(Tail(s)), IsSpawn(Tail(s)[i], p)
               PROVE  FALSE
    BY DEF NoSpawn
  <2>1. i + 1 \in 1 .. Len(s) /\ 1 \in 1 .. Len(s)
    OBVIOUS
  <2>2. Tail(s)[i] = s[i + 1] /\ Head(s) = s[1]
    OBVIOUS
  <2> QED
    BY <2>1, <2>2 DEF OneSpawn
<1> QED
  BY <1>1, <1>2, <1>3, <1>4, <1>5, <1>6, <1>7

\* Elements that come and go at the ends of a sequence.
LEMMA InSeqs ==
    ASSUME NEW S, NEW s \in Seq(S), NEW x \in S, NEW m
    PROVE  /\ ~InSeq(m, <<>>)
           /\ InSeq(m, Append(s, x)) <=> InSeq(m, s) \/ m = x
           /\ s # <<>> /\ InSeq(m, Tail(s)) => InSeq(m, s)
           /\ s # <<>> => InSeq(Head(s), s)
           /\ \A k \in 0 .. Len(s) : InSeq(m, SubSeq(s, 1, k)) => InSeq(m, s)
<1>1. ~InSeq(m, <<>>)
  BY DEF InSeq
<1>2. InSeq(m, Append(s, x)) => InSeq(m, s) \/ m = x
  BY DEF InSeq
<1>3. InSeq(m, s) \/ m = x => InSeq(m, Append(s, x))
  <2>1. ASSUME NEW i \in 1 .. Len(s), s[i] = m PROVE InSeq(m, Append(s, x))
    <3>1. i \in 1 .. Len(Append(s, x)) /\ Append(s, x)[i] = m
      BY <2>1
    <3> QED
      BY <3>1 DEF InSeq
  <2>2. ASSUME m = x PROVE InSeq(m, Append(s, x))
    <3>1. Len(s) + 1 \in 1 .. Len(Append(s, x)) /\ Append(s, x)[Len(s) + 1] = m
      BY <2>2
    <3> QED
      BY <3>1 DEF InSeq
  <2> QED
    BY <2>1, <2>2 DEF InSeq
<1>4. s # <<>> /\ InSeq(m, Tail(s)) => InSeq(m, s)
  <2> SUFFICES ASSUME s # <<>>, NEW i \in 1 .. Len(Tail(s)), Tail(s)[i] = m
               PROVE  InSeq(m, s)
    BY DEF InSeq
  <2>1. i + 1 \in 1 .. Len(s) /\ s[i + 1] = m
    OBVIOUS
  <2> QED
    BY <2>1 DEF InSeq
<1>5. s # <<>> => InSeq(Head(s), s)
  <2> SUFFICES ASSUME s # <<>> PROVE InSeq(Head(s), s)
    OBVIOUS
  <2>1. 1 \in 1 .. Len(s) /\ s[1] = Head(s)
    OBVIOUS
  <2> QED
    BY <2>1 DEF InSeq
<1>6. ASSUME NEW k \in 0 .. Len(s), InSeq(m, SubSeq(s, 1, k)) PROVE InSeq(m, s)
  <2>1. PICK i \in 1 .. Len(SubSeq(s, 1, k)) : SubSeq(s, 1, k)[i] = m
    BY <1>6 DEF InSeq
  <2>2. i \in 1 .. Len(s) /\ s[i] = m
    BY <2>1
  <2> QED
    BY <2>2 DEF InSeq
<1> QED
  BY <1>1, <1>2, <1>3, <1>4, <1>5, <1>6

\* What most steps do to a session: its spawns and shells at most go, its
\* exit is reported where it already was, its row is marked dead for it.
DownShrinks(p) ==
    \A d \in Ident : /\ NoSpawn(p, line[d].down) => NoSpawn(p, line'[d].down)
                     /\ OneSpawn(p, line[d].down) => OneSpawn(p, line'[d].down)
ShellsShrink(p) == \A d \in Ident : shells'[d][p] # "none" => shells[d][p] # "none"
RowKeeps(p) ==
    /\ sess'[p].state = "none" <=> sess[p].state = "none"
    /\ sess'[p].state = "dead" => sess[p].state = "dead" \/ Reported(p)
    /\ sess'[p].state = "live" => sess[p].state = "live"
OpKeeps(p) ==
    /\ op'[p].n = op[p].n
    /\ op'[p].step = "persisted" => op[p].step = "persisted"
    /\ op[p].step = "idle" /\ op[p].n = 0 => op'[p].step = "idle"
HandleKeeps(p) ==
    op[p].n = 0 /\ Unborn(p) => handle'[p] = NoIdent /\ p \notin deleting'
Shrunk(p) == DownShrinks(p) /\ ShellsShrink(p) /\ RowKeeps(p) /\ OpKeeps(p)

\* The steps that carry p from one stage of its life to the next.
Turn(p) ==
    \/ StartSpawn(p) \/ LinkSpawn(p) \/ UpgradeSpawn(p)
    \/ \E d \in Ident : ServerReceive(d) /\ IsSpawn(Head(line[d].down), p)
    \/ \E d \in Ident : PumpExit(d, p)

Lives(p) == LifeOf(p)' /\ (Shrunk(p) \/ Turn(p))

\* Such a step keeps one life per session.
LEMMA LifeShrinks ==
    ASSUME NEW p \in Pty, LifeOf(p), DownShrinks(p), ShellsShrink(p), RowKeeps(p),
           OpKeeps(p), HandleKeeps(p), Reported(p)' => Reported(p)
    PROVE  Lives(p)
<1>0. (Quiet(p) => Quiet(p)') /\ (Gone(p) => Gone(p)')
  BY DEF DownShrinks, ShellsShrink, OpKeeps, Quiet, Gone
<1>1. op'[p].n = 0 => Unborn(p)'
  BY <1>0 DEF LifeOf, Unborn, RowKeeps, OpKeeps, HandleKeeps
<1>2. op'[p].n # 0 => sess'[p].state # "none"
  BY DEF LifeOf, OpKeeps, RowKeeps
<1>3. ASSUME op'[p].n = 1 PROVE OneLife(p)'
  <2>0. OneLife(p)
    BY <1>3 DEF LifeOf, OpKeeps
  <2>1. ~Gone(p)' => Quiet(p)'
    BY <1>0, <2>0 DEF OneLife
  <2>2. \A d, e \in Ident : shells'[d][p] # "none" /\ shells'[e][p] # "none" => d = e
    BY <2>0 DEF OneLife, ShellsShrink
  <2>3. Reported(p)' \/ sess'[p].state = "dead" => Quiet(p)' /\ Gone(p)'
    BY <1>0, <2>0 DEF OneLife, RowKeeps
  <2>4. op'[p].step = "persisted" => \A d \in Ident : NoSpawn(p, line'[d].down)
    BY <2>0 DEF OneLife, DownShrinks, OpKeeps
  <2>5. \A d \in Ident : OneSpawn(p, line'[d].down)
    BY <2>0 DEF OneLife, DownShrinks
  <2>6. \A d, e \in Ident : d # e => NoSpawn(p, line'[d].down) \/ NoSpawn(p, line'[e].down)
    BY <2>0 DEF OneLife, DownShrinks
  <2> QED
    BY <2>1, <2>2, <2>3, <2>4, <2>5, <2>6 DEF OneLife
<1> QED
  BY <1>1, <1>2, <1>3 DEF LifeOf, Lives, Shrunk

\* The statements on the rows write no death but mark_dead's own.
LEMMA RowEffects ==
    ASSUME RowsType, NEW p \in Pty, NEW q \in Pty, NEW b, NEW l
    PROVE  /\ \A st \in {"orphaned", "deleted"} :
                 /\ EndLive(q, st)[p].state = "none" <=> sess[p].state = "none"
                 /\ EndLive(q, st)[p].state = "dead" => sess[p].state = "dead"
                 /\ EndLive(q, st)[p].state = "live" => sess[p].state = "live"
           /\ MarkDead(q)[p].state = "none" <=> sess[p].state = "none"
           /\ MarkDead(q)[p].state = "dead" => sess[p].state = "dead" \/ p = q
           /\ MarkDead(q)[p].state = "live" => sess[p].state = "live"
           /\ sess[q].state # "none" =>
                 (DeleteRow(q)[p].state = "none" <=> sess[p].state = "none")
           /\ DeleteRow(q)[p].state = "dead" => sess[p].state = "dead"
           /\ DeleteRow(q)[p].state = "live" => sess[p].state = "live"
           /\ p # q => PersistSpawn(q, b)[p] = sess[p]
           /\ PersistSpawn(p, b)[p].state = "live"
           /\ HeartbeatRows(b, l)[p].state = "none" <=> sess[p].state = "none"
           /\ HeartbeatRows(b, l)[p].state = "dead" => sess[p].state = "dead"
           /\ HeartbeatRows(b, l)[p].state = "live" => sess[p].state = "live"
<1> USE DEF RowsType, PtyRow
<1>1. \A st \in {"orphaned", "deleted"} :
                 /\ EndLive(q, st)[p].state = "none" <=> sess[p].state = "none"
                 /\ EndLive(q, st)[p].state = "dead" => sess[p].state = "dead"
                 /\ EndLive(q, st)[p].state = "live" => sess[p].state = "live"
  BY DEF EndLive, IsLive
<1>2. /\ MarkDead(q)[p].state = "none" <=> sess[p].state = "none"
      /\ MarkDead(q)[p].state = "dead" => sess[p].state = "dead" \/ p = q
      /\ MarkDead(q)[p].state = "live" => sess[p].state = "live"
  BY DEF MarkDead, EndLive, IsLive
<1>3. /\ sess[q].state # "none" =>
                 (DeleteRow(q)[p].state = "none" <=> sess[p].state = "none")
      /\ DeleteRow(q)[p].state = "dead" => sess[p].state = "dead"
      /\ DeleteRow(q)[p].state = "live" => sess[p].state = "live"
  BY DEF DeleteRow
<1>4. /\ p # q => PersistSpawn(q, b)[p] = sess[p]
      /\ PersistSpawn(p, b)[p].state = "live"
  BY DEF PersistSpawn
<1>5. /\ HeartbeatRows(b, l)[p].state = "none" <=> sess[p].state = "none"
      /\ HeartbeatRows(b, l)[p].state = "dead" => sess[p].state = "dead"
      /\ HeartbeatRows(b, l)[p].state = "live" => sess[p].state = "live"
  BY DEF HeartbeatRows, ReconcileMissing, Adopt
<1> QED
  BY <1>1, <1>2, <1>3, <1>4, <1>5

\* What is left alone shrinks.
LEMMA LeftAlone ==
    ASSUME NEW p \in Pty
    PROVE  /\ UNCHANGED line => DownShrinks(p)
           /\ UNCHANGED shells => ShellsShrink(p)
           /\ sess'[p] = sess[p] => RowKeeps(p)
           /\ op'[p] = op[p] => OpKeeps(p)
           /\ UNCHANGED <<handle, deleting>> => HandleKeeps(p)
           /\ UNCHANGED <<line, stale, events>> => (Reported(p)' => Reported(p))
BY DEF DownShrinks, ShellsShrink, RowKeeps, OpKeeps, HandleKeeps, Unborn, Reported

\* A frame answers who waits, and queues the exit it carries.
LEMMA LinkOps ==
    ASSUME HostType, NEW p \in Pty, NEW d \in Ident, NEW m \in UpFrame, LinkReceive(d, m)
    PROVE  /\ OpKeeps(p)
           /\ InSeq(Exited(p), events') => InSeq(Exited(p), events) \/ m = Exited(p)
<1> USE DEF HostType
<1>0. events \in Seq(Event)
  BY DEF WireType
<1>1. CASE m.kind = "hello"
  <2>1. op' = FailPending(d) /\ events' = Append(events, Connected(d, m.inv))
    BY <1>1 DEF LinkReceive
  <2>2. Connected(d, m.inv) \in Event /\ Connected(d, m.inv) # Exited(p)
    BY <1>1, FrameTypes DEF Connected, Exited
  <2>3. OpKeeps(p)
    BY <2>1, FailPendingSteps DEF OpKeeps
  <2> QED
    BY <1>0, <2>1, <2>2, <2>3, InSeqs
<1>2. CASE m.kind = "spawned"
  <2>1. m.p \in Pty /\ UNCHANGED events
    BY <1>2, FrameTypes DEF LinkReceive
  <2>2. \/ op' = op
        \/ op[m.p].step = "waiting" /\ op' = [op EXCEPT ![m.p].step = "granted"]
        \/ op[m.p].step = "waiting" /\ op' = [op EXCEPT ![m.p].step = "denied"]
    BY <1>2 DEF LinkReceive
  <2>3. "granted" \in OpStep /\ "denied" \in OpStep
    BY DEF OpStep
  <2>4. CASE op' = op
    BY <2>1, <2>4 DEF OpKeeps
  <2>5. CASE op[m.p].step = "waiting" /\ op' = [op EXCEPT ![m.p].step = "granted"]
    <3>1. OpBecomes(m.p, "granted", op[m.p].n)
      BY <2>1, <2>3, <2>5, OpStepTo
    <3> QED
      BY <2>1, <2>5, <3>1 DEF OpKeeps, OpBecomes
  <2>6. CASE op[m.p].step = "waiting" /\ op' = [op EXCEPT ![m.p].step = "denied"]
    <3>1. OpBecomes(m.p, "denied", op[m.p].n)
      BY <2>1, <2>3, <2>6, OpStepTo
    <3> QED
      BY <2>1, <2>6, <3>1 DEF OpKeeps, OpBecomes
  <2> QED
    BY <2>2, <2>4, <2>5, <2>6
<1>3. CASE m.kind = "exited"
  <2>1. m \in Event /\ events' = Append(events, m) /\ UNCHANGED op
    BY <1>3, FrameTypes DEF LinkReceive
  <2> QED
    BY <1>0, <2>1, InSeqs DEF OpKeeps
<1> QED
  BY <1>1, <1>2, <1>3 DEF LinkReceive

\* A frame that is read moves an exit from the stream to the event queue.
LEMMA ReadLife ==
    ASSUME HostType, NEW p \in Pty, LifeOf(p), NEW d \in Ident, ReadLine(d) \/ ReadStale(d)
    PROVE  Lives(p)
<1> USE DEF HostType
<1>0. /\ line[d] \in Stream /\ stale[d] \in Rest /\ events \in Seq(Event)
      /\ line[d].up \in Seq(UpFrame) /\ line[d].down \in Seq(Command) /\ stale[d].up \in Seq(UpFrame)
  BY DEF WireType, Stream, Rest
<1>1. ASSUME NEW m \in UpFrame, LinkReceive(d, m)
      PROVE  /\ OpKeeps(p)
             /\ InSeq(Exited(p), events') => InSeq(Exited(p), events) \/ m = Exited(p)
  BY <1>1, LinkOps
<1>2. CASE ReadLine(d)
  <2> DEFINE m == Head(line[d].up)
  <2>1. m \in UpFrame /\ InSeq(m, line[d].up) /\ LinkReceive(d, m)
        /\ (InSeq(Exited(p), Tail(line[d].up)) => InSeq(Exited(p), line[d].up))
    BY <1>0, <1>2, InSeqs DEF ReadLine
  <2>2. line' = [line EXCEPT ![d] = [line[d] EXCEPT !.up = Tail(@), !.on = "greeted"]]
    BY <1>2 DEF ReadLine, WireType
  <2>3. /\ line'[d].up = Tail(line[d].up) /\ line'[d].down = line[d].down
        /\ \A e \in Ident \ {d} : line'[e] = line[e]
    BY <1>0, <2>2 DEF WireType, Stream
  <2>4. DownShrinks(p)
    BY <2>3 DEF DownShrinks
  <2>5. Reported(p)' => Reported(p)
    BY <1>1, <1>2, <2>1, <2>3 DEF Reported, ReadLine
  <2>6. UNCHANGED <<sess, shells, handle, deleting>>
    BY <1>2 DEF ReadLine
  <2> QED
    BY <1>1, <2>1, <2>4, <2>5, <2>6, LeftAlone, LifeShrinks
<1>3. CASE ReadStale(d)
  <2> DEFINE m == Head(stale[d].up)
  <2>1. m \in UpFrame /\ InSeq(m, stale[d].up) /\ LinkReceive(d, m)
        /\ (InSeq(Exited(p), Tail(stale[d].up)) => InSeq(Exited(p), stale[d].up))
    BY <1>0, <1>3, InSeqs DEF ReadStale
  <2>2. stale' = [stale EXCEPT ![d] = [stale[d] EXCEPT !.up = Tail(@)]]
    BY <1>3 DEF ReadStale, WireType
  <2>3. /\ stale'[d].up = Tail(stale[d].up)
        /\ \A e \in Ident \ {d} : stale'[e] = stale[e]
    BY <1>0, <2>2 DEF WireType, Rest
  <2>5. Reported(p)' => Reported(p)
    BY <1>1, <1>3, <2>1, <2>3 DEF Reported, ReadStale
  <2>6. UNCHANGED <<sess, shells, line, handle, deleting>>
    BY <1>3 DEF ReadStale
  <2> QED
    BY <1>1, <2>1, <2>5, <2>6, LeftAlone, LifeShrinks
<1> QED
  BY <1>2, <1>3

\* A spawn becomes a shell, a shell an exit that is reported.
LEMMA DevenvLife ==
    ASSUME HostType, NEW p \in Pty, LifeOf(p), NEW d \in Ident, DevenvNext(d)
    PROVE  Lives(p)
<1> USE DEF HostType
<1>0. /\ line[d] \in Stream /\ stale[d] \in Rest
      /\ line[d].up \in Seq(UpFrame) /\ line[d].down \in Seq(Command)
      /\ shells \in [Ident -> [Pty -> {"none", "running", "ended"}]]
      /\ line \in [Ident -> Stream]
  BY DEF WireType, RestType, Stream
<1>1. CASE ServerDial(d)
  <2>1. /\ line'[d].up = <<Hello(InMap(d))>> /\ line'[d].down = <<>>
        /\ \A e \in Ident \ {d} : line'[e] = line[e]
    BY <1>0, <1>1 DEF ServerDial
  <2>2. DownShrinks(p)
    BY <2>1, SpawnSeqs, FrameTypes DEF DownShrinks, NoSpawn, OneSpawn
  <2>3. ~InSeq(Exited(p), <<Hello(InMap(d))>>)
    BY DEF InSeq, Exited, Hello
  <2>4. Reported(p)' => Reported(p)
    BY <1>1, <2>1, <2>3 DEF Reported, ServerDial, managerVars
  <2>5. UNCHANGED <<sess, shells, handle, deleting, op>>
    BY <1>1 DEF ServerDial, managerVars
  <2> QED
    BY <2>2, <2>4, <2>5, LeftAlone, LifeShrinks
<1>2. CASE ServerReceive(d)
  <2> DEFINE m == Head(line[d].down)
             rest == [line[d] EXCEPT !.down = Tail(@)]
             ok == shells[d][m.p] = "none"
  <2>1. line[d].down # <<>> /\ m \in Command /\ Tail(line[d].down) \in Seq(Command) /\ m.p \in Pty
    BY <1>0, <1>2, FrameTypes DEF ServerReceive
  <2>2. /\ line'[d].down = Tail(line[d].down)
        /\ \A e \in Ident \ {d} : line'[e] = line[e]
        /\ \/ line'[d].up = line[d].up
           \/ line'[d].up = Append(line[d].up, Spawned(m.p, m.n, ok)) /\ m.kind = "spawn"
    <3>1. CASE m.kind = "spawn" /\ line' = [line EXCEPT ![d] = [rest EXCEPT !.up = Append(@, Spawned(m.p, m.n, ok))]]
      BY <1>0, <3>1 DEF Stream
    <3>2. CASE line' = [line EXCEPT ![d] = rest]
      BY <1>0, <3>2 DEF Stream
    <3> QED
      BY <1>2, <3>1, <3>2 DEF ServerReceive
  <2>3. UNCHANGED <<sess, stale, events, handle, deleting, op>>
    BY <1>2 DEF ServerReceive, managerVars
  <2>4. InSeq(Exited(p), line'[d].up) => InSeq(Exited(p), line[d].up)
    <3>1. CASE line'[d].up = Append(line[d].up, Spawned(m.p, m.n, ok)) /\ m.kind = "spawn"
      <4>1. Spawned(m.p, m.n, ok) \in UpFrame
        BY <2>1, <3>1, FrameTypes
      <4>2. Exited(p) # Spawned(m.p, m.n, ok)
        BY DEF Exited, Spawned
      <4> QED
        BY <1>0, <3>1, <4>1, <4>2, InSeqs
    <3> QED
      BY <2>2, <3>1
  <2>5. Reported(p)' => Reported(p)
    BY <2>2, <2>3, <2>4 DEF Reported
  <2>6. DownShrinks(p)
    BY <1>0, <2>1, <2>2, SpawnSeqs DEF DownShrinks
  <2>7. CASE ~IsSpawn(m, p)
    <3>1. ShellsShrink(p)
      <4>1. \/ shells' = shells
            \/ m.kind = "spawn" /\ shells' = [shells EXCEPT ![d][m.p] = "running"]
            \/ shells[d][m.p] # "none" /\ shells' = [shells EXCEPT ![d][m.p] = "ended"]
        BY <1>2 DEF ServerReceive
      <4> HIDE DEF m
      <4> QED
        BY <1>0, <2>1, <2>7, <4>1 DEF ShellsShrink, IsSpawn
    <3> QED
      BY <2>3, <2>5, <2>6, <3>1, LeftAlone, LifeShrinks
  <2>8. CASE IsSpawn(m, p)
    <3>1. ~NoSpawn(p, line[d].down) /\ (OneSpawn(p, line[d].down) => NoSpawn(p, line'[d].down))
      BY <1>0, <2>1, <2>2, <2>8, SpawnSeqs
    <3>2. op[p].n # 0
      BY <3>1 DEF LifeOf, Unborn, Quiet
    <3>3. ASSUME op[p].n = 1 PROVE OneLife(p)'
      <4>0. OneLife(p)
        BY <3>3 DEF LifeOf
      <4>1. ~Quiet(p)
        BY <3>1 DEF Quiet
      <4>2. /\ Gone(p) /\ ~Reported(p) /\ sess[p].state # "dead" /\ op[p].step # "persisted"
        BY <3>1, <4>0, <4>1 DEF OneLife
      <4>3. /\ shells' = [shells EXCEPT ![d][p] = "running"]
        BY <1>2, <2>8, <4>2 DEF ServerReceive, IsSpawn, Gone
      <4>4. \A e \in Ident : NoSpawn(p, line'[e].down)
        BY <2>2, <3>1, <4>0 DEF OneLife
      <4>5. Quiet(p)'
        BY <2>3, <4>2, <4>4 DEF Quiet
      <4>6. \A e \in Ident \ {d} : shells'[e][p] = "none"
        BY <1>0, <4>2, <4>3 DEF Gone
      <4>7. ~Reported(p)' /\ sess'[p].state # "dead"
        BY <2>3, <2>5, <4>2
      <4>8. \A e \in Ident : OneSpawn(p, line'[e].down)
        BY <4>4 DEF NoSpawn, OneSpawn
      <4> QED
        BY <4>4, <4>5, <4>6, <4>7, <4>8 DEF OneLife
    <3> QED
      BY <1>2, <2>3, <2>8, <3>2, <3>3 DEF LifeOf, Lives, Turn
  <2> QED
    BY <2>7, <2>8
<1>3. CASE ReadLine(d) \/ ReadStale(d)
  BY <1>3, ReadLife
<1>4. CASE Teardown(d)
  <2>1. stale' = [stale EXCEPT ![d] = NoStream] /\ op' = FailPending(d)
        /\ UNCHANGED <<sess, shells, line, handle, events, deleting>>
    BY <1>4 DEF Teardown
  <2>2. /\ stale'[d].up = <<>>
        /\ \A e \in Ident \ {d} : stale'[e] = stale[e]
    BY <2>1 DEF WireType, NoStream
  <2>3. ~InSeq(Exited(p), <<>>)
    BY DEF InSeq
  <2>4. Reported(p)' => Reported(p)
    BY <2>1, <2>2, <2>3 DEF Reported
  <2>5. OpKeeps(p)
    BY <2>1, FailPendingSteps DEF OpKeeps
  <2> QED
    BY <2>1, <2>4, <2>5, LeftAlone, LifeShrinks
<1>5. ASSUME NEW q \in Pty, PumpExit(d, q) PROVE Lives(p)
  <2>1. /\ shells[d][q] = "ended" /\ shells' = [shells EXCEPT ![d][q] = "none"]
        /\ UNCHANGED <<sess, stale, handle, events, deleting, op>>
    BY <1>5 DEF PumpExit, managerVars
  <2>2. /\ line'[d].up = Append(line[d].up, Exited(q)) /\ line'[d].down = line[d].down
        /\ \A e \in Ident \ {d} : line'[e] = line[e]
    <3> DEFINE s == Append(line[d].up, Exited(q))
    <3>1. s \in Seq(UpFrame) /\ line' = [line EXCEPT ![d].up = s]
      BY <1>0, <1>5, FrameTypes DEF PumpExit
    <3> HIDE DEF s
    <3>2. /\ line'[d].up = s /\ line'[d].down = line[d].down
          /\ \A e \in Ident \ {d} : line'[e] = line[e]
      BY <3>1, OneStream DEF WireType
    <3> QED
      BY <3>2 DEF s
  <2>3. DownShrinks(p)
    BY <2>2 DEF DownShrinks
  <2>4. ShellsShrink(p)
    BY <1>0, <2>1 DEF ShellsShrink
  <2>5. CASE q # p
    <3>1. Exited(q) \in UpFrame /\ Exited(p) # Exited(q)
      BY <2>5, FrameTypes DEF Exited
    <3>2. InSeq(Exited(p), line'[d].up) => InSeq(Exited(p), line[d].up)
      BY <1>0, <2>2, <3>1, InSeqs
    <3>3. Reported(p)' => Reported(p)
      BY <2>1, <2>2, <3>2 DEF Reported
    <3> QED
      BY <2>1, <2>3, <2>4, <3>3, LeftAlone, LifeShrinks
  <2>6. CASE q = p
    <3>1. ~Gone(p)
      BY <2>1, <2>6 DEF Gone
    <3>2. op[p].n # 0
      BY <3>1 DEF LifeOf, Unborn
    <3>3. ASSUME op[p].n = 1 PROVE OneLife(p)'
      <4>0. OneLife(p)
        BY <3>3 DEF LifeOf
      <4>1. Quiet(p)
        BY <3>1, <4>0 DEF OneLife
      <4>2. Quiet(p)'
        BY <2>1, <2>3, <4>1 DEF Quiet, DownShrinks
      <4>3. Gone(p)'
        BY <1>0, <2>1, <2>6, <4>0 DEF Gone, OneLife
      <4>4. \A e \in Ident : OneSpawn(p, line'[e].down)
        BY <2>3, <4>0 DEF OneLife, DownShrinks
      <4> QED
        BY <4>2, <4>3, <4>4 DEF OneLife, Quiet, Gone
    <3> QED
      BY <1>5, <2>1, <2>6, <3>2, <3>3 DEF LifeOf, Lives, Turn
  <2> QED
    BY <2>5, <2>6
<1> QED
  BY <1>1, <1>2, <1>3, <1>4, <1>5 DEF DevenvNext

\* A command of the manager is a spawn of its own session, or none.
LEMMA SendLife ==
    ASSUME HostType, NEW p \in Pty, NEW d \in Ident, NEW m \in Command, SendTo(d, m)
    PROVE  /\ ~IsSpawn(m, p) => DownShrinks(p)
           /\ (\A e \in Ident : NoSpawn(p, line[e].down)) =>
                /\ \A e \in Ident : OneSpawn(p, line'[e].down)
                /\ \A e \in Ident \ {d} : NoSpawn(p, line'[e].down)
           /\ UNCHANGED <<stale, events>> => (Reported(p)' => Reported(p))
<1> USE DEF HostType
<1>1. /\ \A e \in Ident \ {d} : line'[e] = line[e]
      /\ line'[d].up = line[d].up
      /\ line'[d].down = line[d].down \/ line'[d].down = Append(line[d].down, m)
  BY SendToAdds
<1>2. \A e \in Ident : line[e].down \in Seq(Command)
  BY DEF WireType, Stream
<1>a. /\ ~IsSpawn(m, p) /\ NoSpawn(p, line[d].down) => NoSpawn(p, Append(line[d].down, m))
      /\ ~IsSpawn(m, p) /\ OneSpawn(p, line[d].down) => OneSpawn(p, Append(line[d].down, m))
      /\ NoSpawn(p, line[d].down) => OneSpawn(p, Append(line[d].down, m))
  <2>1. line[d].down \in Seq(Command)
    BY <1>2
  <2> QED
    BY <2>1, SpawnSeqs
<1>3. ASSUME ~IsSpawn(m, p) PROVE DownShrinks(p)
  <2>1. /\ NoSpawn(p, line[d].down) => NoSpawn(p, line'[d].down)
        /\ OneSpawn(p, line[d].down) => OneSpawn(p, line'[d].down)
    <3>1. CASE line'[d].down = line[d].down
      BY <3>1
    <3>2. CASE line'[d].down = Append(line[d].down, m)
      BY <1>3, <1>a, <3>2
    <3> QED
      BY <1>1, <3>1, <3>2
  <2> QED
    BY <1>1, <2>1 DEF DownShrinks
<1>4. ASSUME \A e \in Ident : NoSpawn(p, line[e].down)
      PROVE  /\ \A e \in Ident : OneSpawn(p, line'[e].down)
             /\ \A e \in Ident \ {d} : NoSpawn(p, line'[e].down)
  <2>1. \A e \in Ident \ {d} : NoSpawn(p, line'[e].down)
    BY <1>1, <1>4
  <2>2. \A e \in Ident \ {d} : OneSpawn(p, line'[e].down)
    BY <2>1 DEF NoSpawn, OneSpawn
  <2>3. NoSpawn(p, line[d].down) => OneSpawn(p, line[d].down)
    BY DEF NoSpawn, OneSpawn
  <2>4. OneSpawn(p, line'[d].down)
    <3>1. CASE line'[d].down = line[d].down
      BY <1>4, <2>3, <3>1
    <3>2. CASE line'[d].down = Append(line[d].down, m)
      BY <1>4, <1>a, <3>2
    <3> QED
      BY <1>1, <3>1, <3>2
  <2> QED
    BY <2>1, <2>2, <2>4
<1>5. UNCHANGED <<stale, events>> => (Reported(p)' => Reported(p))
  BY <1>1 DEF Reported
<1> QED
  BY <1>3, <1>4, <1>5

\* Events and the steps of a spawn.  Only the exit of p marks p dead.
LEMMA ManagerLife ==
    ASSUME HostType, NEW p \in Pty, LifeOf(p), ManagerNext
    PROVE  Lives(p)
<1> USE DEF HostType
<1>1. CASE ApplyExited
  <2>1. events # <<>> /\ events \in Seq(Event) /\ Head(events) \in Event /\ Head(events).kind = "exited"
    BY <1>1 DEF ApplyExited, WireType
  <2>2. Head(events).p \in Pty /\ Head(events) = Exited(Head(events).p) /\ InSeq(Head(events), events)
    BY <2>1, FrameTypes, InSeqs
  <2>3. RowKeeps(p)
    BY <1>1, <2>2, RowEffects DEF ApplyExited, RowKeeps, Reported
  <2>4. InSeq(Exited(p), events') => InSeq(Exited(p), events)
    BY <1>1, <2>1, InSeqs DEF ApplyExited
  <2>5. UNCHANGED <<shells, line, stale, op, deleting>>
    BY <1>1 DEF ApplyExited, linkVars
  <2>6. Reported(p)' => Reported(p)
    BY <2>4, <2>5 DEF Reported
  <2>7. HandleKeeps(p)
    BY <1>1, <2>2, <2>5 DEF HandleKeeps, ApplyExited, DropHandle, Unborn, RestType
  <2> QED
    BY <2>3, <2>5, <2>6, <2>7, LeftAlone, LifeShrinks
<1>2. CASE ApplyConnected
  <2>1. events # <<>> /\ events \in Seq(Event) /\ Head(events) \in Event
    BY <1>2 DEF ApplyConnected, WireType
  <2>3. RowKeeps(p)
    <3>1. sess'[p] = sess[p] \/ sess'[p] = EndLive(p, "orphaned")[p]
      BY <1>2 DEF ApplyConnected, MarkOrphaned
    <3> QED
      BY <3>1, RowEffects DEF RowKeeps
  <2>4. InSeq(Exited(p), events') => InSeq(Exited(p), events)
    BY <1>2, <2>1, InSeqs DEF ApplyConnected
  <2>5. UNCHANGED <<shells, line, stale, op, deleting>>
    BY <1>2 DEF ApplyConnected, linkVars
  <2>6. Reported(p)' => Reported(p)
    BY <2>4, <2>5 DEF Reported
  <2>7. HandleKeeps(p)
    <3>1. sess[p].state = "none" /\ handle[p] = NoIdent => handle'[p] = NoIdent
      BY <1>2 DEF ApplyConnected
    <3> QED
      BY <2>5, <3>1 DEF HandleKeeps, Unborn
  <2> QED
    BY <2>3, <2>5, <2>6, <2>7, LeftAlone, LifeShrinks
<1>3. ASSUME NEW q \in Pty, LinkSpawn(q) PROVE Lives(p)
  <2> DEFINE m == [kind |-> "spawn", p |-> q, n |-> op[q].n]
  <2>0. published \in Ident /\ op[q].n \in Nat
    BY HostAssumption DEF RestType, WireType, OpRec
  <2>1. m \in Command /\ (q # p => ~IsSpawn(m, p))
    BY <2>0, FrameTypes DEF IsSpawn
  <2>2. UNCHANGED <<sess, shells, stale, handle, events, deleting>> /\ op[q].step = "persisted"
    BY <1>3 DEF LinkSpawn
  <2>3. SendTo(published, m) \/ UNCHANGED line
    BY <1>3 DEF LinkSpawn
  <2>4. OpBecomes(q, "waiting", op[q].n) \/ OpBecomes(q, "denied", op[q].n)
    <3>0. "waiting" \in OpStep /\ "denied" \in OpStep
      BY DEF OpStep
    <3>1. CASE op' = [op EXCEPT ![q].step = "waiting", ![q].at = published]
      BY <2>0, <3>0, <3>1, OpStepTo
    <3>2. CASE op' = [op EXCEPT ![q].step = "denied"]
      BY <2>0, <3>0, <3>2, OpStepTo
    <3> QED
      BY <1>3, <3>1, <3>2 DEF LinkSpawn
  <2>5. op'[q].step # "persisted" /\ op'[q].n = op[q].n /\ \A r \in Pty \ {q} : op'[r] = op[r]
    BY <2>4 DEF OpBecomes
  <2>6. Reported(p)' => Reported(p)
    BY <2>0, <2>1, <2>2, <2>3, SendLife, LeftAlone
  <2> HIDE DEF m
  <2>7. CASE q # p
    <3>1. DownShrinks(p)
      BY <2>0, <2>1, <2>3, <2>7, SendLife, LeftAlone
    <3> QED
      BY <2>2, <2>5, <2>6, <2>7, <3>1, LeftAlone, LifeShrinks
  <2>8. CASE q = p
    <3>1. op[p].n # 0
      BY <2>2, <2>8 DEF LifeOf, Unborn
    <3>2. ASSUME op[p].n = 1 PROVE OneLife(p)'
      <4>0. OneLife(p)
        BY <3>2 DEF LifeOf
      <4>1. ~Quiet(p) /\ \A e \in Ident : NoSpawn(p, line[e].down)
        BY <2>2, <2>8, <4>0 DEF OneLife, Quiet
      <4>2. Gone(p) /\ ~Reported(p) /\ sess[p].state # "dead"
        BY <4>0, <4>1 DEF OneLife
      <4>3. Gone(p)' /\ ~Reported(p)' /\ sess'[p].state # "dead"
        BY <2>2, <2>6, <4>2 DEF Gone
      <4>4. /\ \A e \in Ident : OneSpawn(p, line'[e].down)
            /\ \A e \in Ident \ {published} : NoSpawn(p, line'[e].down)
        <5>1. CASE UNCHANGED line
          BY <4>0, <4>1, <5>1 DEF OneLife
        <5>2. CASE SendTo(published, m)
          BY <2>0, <2>1, <4>1, <5>2, SendLife
        <5> QED
          BY <2>3, <5>1, <5>2
      <4> QED
        BY <2>5, <2>8, <4>3, <4>4 DEF OneLife, Gone
    <3> QED
      BY <1>3, <2>2, <2>5, <2>8, <3>1, <3>2 DEF LifeOf, Lives, Turn
  <2> QED
    BY <2>7, <2>8
<1>4. ASSUME NEW q \in Pty, SpawnDenied(q) PROVE Lives(p)
  <2>1. UNCHANGED <<shells, line, stale, handle, events, deleting>>
        /\ op[q].step = "denied"
    BY <1>4 DEF SpawnDenied
  <2>2. OpBecomes(q, "idle", op[q].n)
    BY <1>4, OpEnds DEF SpawnDenied
  <2>3. OpKeeps(p)
    BY <2>1, <2>2 DEF OpKeeps, OpBecomes
  <2>4. RowKeeps(p)
    BY <1>4, RowEffects DEF SpawnDenied, AbandonUnspawned, RowKeeps
  <2> QED
    BY <2>1, <2>3, <2>4, LeftAlone, LifeShrinks
<1>5. ASSUME NEW q \in Pty, SpawnGranted(q) PROVE Lives(p)
  <2>1. UNCHANGED <<sess, shells, line, stale, events, deleting>>
        /\ op[q].step = "granted"
    BY <1>5 DEF SpawnGranted, linkVars
  <2>2. OpBecomes(q, "idle", op[q].n)
    BY <1>5, OpEnds DEF SpawnGranted
  <2>3. OpKeeps(p)
    BY <2>1, <2>2 DEF OpKeeps, OpBecomes
  <2>4. HandleKeeps(p)
    BY <1>5, <2>1 DEF SpawnGranted, HandleKeeps, Unborn, RestType
  <2> QED
    BY <2>1, <2>3, <2>4, LeftAlone, LifeShrinks
<1>6. ASSUME NEW q \in Pty, UpgradeSpawn(q) PROVE Lives(p)
  <2>1. UNCHANGED <<shells, line, stale, handle, events, deleting>>
        /\ op[q].step = "upgrading" /\ sess' = PersistSpawn(q, boot)
    BY <1>6 DEF UpgradeSpawn, linkVars
  <2>2. op[q].n < MaxSpawns /\ op[q].n \in Nat
    BY <1>6, HostAssumption DEF UpgradeSpawn, WireType, OpRec
  <2>3. OpBecomes(q, "persisted", op[q].n + 1)
    BY <1>6, <2>2, OpSpawns DEF UpgradeSpawn
  <2>4. CASE q # p
    BY <2>1, <2>3, <2>4, RowEffects, LeftAlone, LifeShrinks DEF OpBecomes
  <2>5. CASE q = p
    <3>1. op[p].n # 0
      BY <2>1, <2>5 DEF LifeOf, Unborn
    <3>2. op'[p].n # 0 /\ op'[p].n # 1
      BY <2>2, <2>3, <2>5, <3>1 DEF OpBecomes
    <3>3. sess'[p].state # "none"
      BY <2>1, <2>5, RowEffects
    <3> QED
      BY <1>6, <2>5, <3>2, <3>3 DEF LifeOf, Lives, Turn
  <2> QED
    BY <2>4, <2>5
<1>7. ASSUME NEW q \in Pty, FinishDelete(q) PROVE Lives(p)
  <2>1. UNCHANGED <<shells, line, stale, handle, events, op>>
        /\ q \in deleting /\ sess' = DeleteRow(q) /\ deleting' \subseteq deleting
    BY <1>7 DEF FinishDelete, linkVars
  <2>2. RowKeeps(p)
    <3>1. q = p => sess[q].state # "none"
      BY <2>1 DEF LifeOf, Unborn
    <3>2. q # p => DeleteRow(q)[p] = sess[p]
      BY DEF DeleteRow, RowsType
    <3> QED
      BY <2>1, <3>1, <3>2, RowEffects DEF RowKeeps
  <2>3. HandleKeeps(p)
    BY <2>1 DEF HandleKeeps, Unborn
  <2> QED
    BY <2>1, <2>2, <2>3, LeftAlone, LifeShrinks
<1> QED
  BY <1>1, <1>2, <1>3, <1>4, <1>5, <1>6, <1>7 DEF ManagerNext, SpawnStep

\* Users, timeouts, faults, the launcher and the heartbeat only take away; a
\* session is spawned first where there is none.
LEMMA UserLife ==
    ASSUME HostType, NEW p \in Pty, LifeOf(p), NEW q \in Pty,
           \/ StartSpawn(q) \/ StartUpgrade(q) \/ StartDelete(q)
           \/ SpawnTimeout(q) \/ UpgradeTimeout(q)
    PROVE  Lives(p)
<1> USE DEF HostType
<1>0. "denied" \in OpStep /\ "upgrading" \in OpStep /\ Old \in Ident
  BY DEF OpStep, Ident
<1>k. [kind |-> "kill", p |-> q] \in Command /\ ~IsSpawn([kind |-> "kill", p |-> q], p)
  BY FrameTypes DEF IsSpawn
<1>1. CASE StartSpawn(q)
  <2>1. UNCHANGED <<shells, line, stale, handle, events, deleting>>
        /\ sess[q].state = "none" /\ sess' = PersistSpawn(q, boot)
        /\ op[q].n < MaxSpawns /\ handle[q] = NoIdent
    BY <1>1 DEF StartSpawn, linkVars
  <2>2. OpBecomes(q, "persisted", op[q].n + 1)
    BY <1>1, <2>1, OpSpawns DEF StartSpawn
  <2>3. CASE q # p
    BY <2>1, <2>2, <2>3, RowEffects, LeftAlone, LifeShrinks DEF OpBecomes
  <2>4. CASE q = p
    <3>1. op[p].n = 0 /\ Unborn(p)
      BY <2>1, <2>4 DEF LifeOf
    <3>2. op'[p].n = 1 /\ op'[p].step = "persisted"
      BY <2>2, <2>4, <3>1 DEF OpBecomes
    <3>3. sess'[p].state = "live"
      BY <2>1, <2>4, RowEffects
    <3>4. Gone(p)' /\ ~Reported(p)' /\ \A d \in Ident : NoSpawn(p, line'[d].down)
      BY <2>1, <3>1, LeftAlone DEF Unborn, Gone, Quiet
    <3>5. \A d \in Ident : OneSpawn(p, line'[d].down)
      BY <3>4 DEF NoSpawn, OneSpawn
    <3>6. OneLife(p)'
      BY <3>2, <3>3, <3>4, <3>5 DEF OneLife, Gone
    <3> QED
      BY <1>1, <2>4, <3>2, <3>3, <3>6 DEF LifeOf, Lives, Turn
  <2> QED
    BY <2>3, <2>4
<1>2. CASE StartUpgrade(q)
  <2>1. UNCHANGED <<sess, shells, stale, handle, events, deleting>>
        /\ op[q].step = "idle" /\ op[q].n < MaxSpawns /\ handle[q] \in Ident
        /\ op' = [op EXCEPT ![q].step = "upgrading"]
    BY <1>2 DEF StartUpgrade
  <2>2. host[q] \in Ident /\ SendTo(host[q], [kind |-> "kill", p |-> q])
    BY <1>2 DEF StartUpgrade, CanSend, SendKill, WireType
  <2>3. DownShrinks(p) /\ (Reported(p)' => Reported(p))
    BY <1>k, <2>1, <2>2, SendLife
  <2>4. OpBecomes(q, "upgrading", op[q].n)
    BY <1>0, <2>1, OpStepTo
  <2>5. q = p => op[p].n # 0
    BY <2>1, HostAssumption DEF LifeOf, Unborn
  <2>6. OpKeeps(p)
    BY <2>4, <2>5 DEF OpKeeps, OpBecomes
  <2> QED
    BY <2>1, <2>3, <2>6, LeftAlone, LifeShrinks
<1>3. CASE StartDelete(q)
  <2>1. UNCHANGED <<sess, shells, stale, events, op>>
        /\ sess[q].state # "none" /\ handle' = DropHandle(q) /\ deleting' = deleting \cup {q}
    BY <1>3 DEF StartDelete
  <2>2. DownShrinks(p) /\ (Reported(p)' => Reported(p))
    <3>1. CASE handle[q] # NoIdent /\ CanSend(q)
      <4>1. host[q] \in Ident /\ SendTo(host[q], [kind |-> "kill", p |-> q])
        BY <1>3, <3>1 DEF StartDelete, CanSend, SendKill, WireType
      <4> QED
        BY <1>k, <2>1, <4>1, SendLife
    <3>2. CASE ~(handle[q] # NoIdent /\ CanSend(q))
      BY <1>3, <2>1, <3>2, LeftAlone DEF StartDelete
    <3> QED
      BY <3>1, <3>2
  <2>3. HandleKeeps(p)
    BY <2>1 DEF HandleKeeps, Unborn, DropHandle, RestType
  <2> QED
    BY <2>1, <2>2, <2>3, LeftAlone, LifeShrinks
<1>4. CASE SpawnTimeout(q)
  <2>1. UNCHANGED <<sess, shells, line, stale, handle, events, deleting>>
        /\ op[q].step = "waiting" /\ op' = [op EXCEPT ![q].step = "denied"]
    BY <1>4 DEF SpawnTimeout, linkVars
  <2>2. OpBecomes(q, "denied", op[q].n)
    BY <1>0, <2>1, OpStepTo
  <2>3. OpKeeps(p)
    BY <2>1, <2>2 DEF OpKeeps, OpBecomes
  <2> QED
    BY <2>1, <2>3, LeftAlone, LifeShrinks
<1>5. CASE UpgradeTimeout(q)
  <2>1. UNCHANGED <<sess, shells, line, stale, handle, events, deleting>>
        /\ op[q].step = "upgrading"
    BY <1>5 DEF UpgradeTimeout, linkVars
  <2>2. OpBecomes(q, "idle", op[q].n)
    BY <1>5, OpEnds DEF UpgradeTimeout
  <2>3. OpKeeps(p)
    BY <2>1, <2>2 DEF OpKeeps, OpBecomes
  <2> QED
    BY <2>1, <2>3, LeftAlone, LifeShrinks
<1> QED
  BY <1>1, <1>2, <1>3, <1>4, <1>5

\* A stream that breaks loses commands and may lose exits, and invents neither.
LEMMA BrokenLife ==
    ASSUME HostType, NEW p \in Pty, NEW d \in Ident, UNCHANGED events,
           \/ UNCHANGED <<line, stale>>
           \/ \E k \in 0 .. Len(line[d].up) : BrokenAt(d, k)
    PROVE  DownShrinks(p) /\ (Reported(p)' => Reported(p))
<1> USE DEF HostType
<1>1. CASE UNCHANGED <<line, stale>>
  BY <1>1, LeftAlone
<1>2. ASSUME NEW k \in 0 .. Len(line[d].up), BrokenAt(d, k)
      PROVE  DownShrinks(p) /\ (Reported(p)' => Reported(p))
  <2>1. /\ line'[d] = Closed /\ \A e \in Ident \ {d} : line'[e] = line[e]
        /\ stale'[d].up \in {stale[d].up, SubSeq(line[d].up, 1, k)}
        /\ \A e \in Ident \ {d} : stale'[e] = stale[e]
    BY <1>2, BrokenAtLeaves
  <2>2. line'[d].up = <<>> /\ line'[d].down = <<>>
    BY <2>1 DEF Closed
  <2>3. NoSpawn(p, <<>>) /\ OneSpawn(p, <<>>) /\ ~InSeq(Exited(p), <<>>)
    BY DEF NoSpawn, OneSpawn, InSeq
  <2>4. line[d].up \in Seq(UpFrame) /\ Exited(p) \in UpFrame
    BY FrameTypes DEF WireType, Stream
  <2>5. InSeq(Exited(p), SubSeq(line[d].up, 1, k)) => InSeq(Exited(p), line[d].up)
    BY <2>4, InSeqs
  <2>6. DownShrinks(p)
    BY <2>1, <2>2, <2>3 DEF DownShrinks
  <2>7. Reported(p)' => Reported(p)
    BY <2>1, <2>2, <2>3, <2>5 DEF Reported
  <2> QED
    BY <2>6, <2>7
<1> QED
  BY <1>1, <1>2

\* Faults, the launcher and the heartbeat.
LEMMA FaultLife ==
    ASSUME HostType, NEW p \in Pty, LifeOf(p),
           \/ \E d \in Ident : \/ StreamBreak(d) \/ ContainerDown(d, "up")
                              \/ ContainerDown(d, "stopped") \/ ReapDecide(d)
                              \/ \E q \in Pty : ShellExit(d, q)
           \/ EnsureCurrent \/ Publish \/ Reap \/ Restart \/ BeatNext
    PROVE  Lives(p)
<1> USE DEF HostType
<1>0. shells \in [Ident -> [Pty -> {"none", "running", "ended"}]]
  BY DEF RestType
<1>1. ASSUME NEW d \in Ident, StreamBreak(d) PROVE Lives(p)
  <2>1. UNCHANGED <<sess, handle, events, op, deleting>> /\ \E k \in 0 .. Len(line[d].up) : BrokenAt(d, k)
    BY <1>1 DEF StreamBreak, managerVars
  <2>2. ShellsShrink(p)
    <3>1. PICK lost \in SUBSET Pty :
             shells' = [shells EXCEPT ![d] = [r \in Pty |-> IF r \in lost THEN "none" ELSE @[r]]]
      BY <1>1 DEF StreamBreak
    <3> QED
      BY <1>0, <3>1 DEF ShellsShrink
  <2> QED
    BY <2>1, <2>2, BrokenLife, LeftAlone, LifeShrinks
<1>2. ASSUME NEW d \in Ident, NEW st \in {"up", "stopped"}, ContainerDown(d, st) PROVE Lives(p)
  <2>1. UNCHANGED <<sess, handle, events, op, deleting>>
        /\ (UNCHANGED <<line, stale>> \/ \E k \in 0 .. Len(line[d].up) : BrokenAt(d, k))
    BY <1>2 DEF ContainerDown, managerVars
  <2>2. ShellsShrink(p)
    BY <1>0, <1>2 DEF ContainerDown, ShellsShrink
  <2> QED
    BY <2>1, <2>2, BrokenLife, LeftAlone, LifeShrinks
<1>3. ASSUME NEW d \in Ident, ReapDecide(d) PROVE Lives(p)
  <2>1. UNCHANGED <<sess, shells, line, stale, handle, events, op, deleting>>
    BY <1>3 DEF ReapDecide, linkVars, managerVars
  <2> QED
    BY <2>1, LeftAlone, LifeShrinks
<1>4. ASSUME NEW d \in Ident, NEW q \in Pty, ShellExit(d, q) PROVE Lives(p)
  <2>1. UNCHANGED <<sess, line, stale, handle, events, op, deleting>>
    BY <1>4 DEF ShellExit, linkVars, managerVars
  <2>2. ShellsShrink(p)
    BY <1>0, <1>4 DEF ShellExit, ShellsShrink
  <2> QED
    BY <2>1, <2>2, LeftAlone, LifeShrinks
<1>5. CASE EnsureCurrent \/ Publish
  <2>1. UNCHANGED <<sess, shells, line, stale, handle, events, op, deleting>>
    BY <1>5 DEF EnsureCurrent, Publish, linkVars, managerVars
  <2> QED
    BY <2>1, LeftAlone, LifeShrinks
<1>6. CASE Reap
  <2>0. reaping \in Ident
    BY <1>6 DEF Reap, RestType
  <2>1. Len(line[reaping].up) \in 0 .. Len(line[reaping].up)
    BY <2>0 DEF WireType, Stream
  <2>2. UNCHANGED <<sess, handle, events, op, deleting>>
        /\ (UNCHANGED <<line, stale>> \/ \E k \in 0 .. Len(line[reaping].up) : BrokenAt(reaping, k))
    BY <1>6, <2>1 DEF Reap, managerVars
  <2>3. ShellsShrink(p)
    BY <1>0, <1>6, <2>0 DEF Reap, ShellsShrink
  <2> QED
    BY <2>0, <2>2, <2>3, BrokenLife, LeftAlone, LifeShrinks
<1>7. CASE Restart
  <2>1. /\ UNCHANGED <<sess, shells>> /\ events' = <<>> /\ deleting' = {} /\ handle'[p] = NoIdent
        /\ \A d \in Ident : line'[d] = Closed /\ stale'[d] = NoStream
        /\ op'[p] = [NoOp EXCEPT !.n = op[p].n]
    BY <1>7 DEF Restart
  <2>2. \A d \in Ident : line'[d].up = <<>> /\ line'[d].down = <<>> /\ stale'[d].up = <<>>
    BY <2>1 DEF Closed, NoStream
  <2>3. NoSpawn(p, <<>>) /\ OneSpawn(p, <<>>) /\ ~InSeq(Exited(p), <<>>)
    BY DEF NoSpawn, OneSpawn, InSeq
  <2>4. DownShrinks(p) /\ ~Reported(p)'
    BY <2>1, <2>2, <2>3 DEF DownShrinks, Reported
  <2>5. OpKeeps(p) /\ HandleKeeps(p)
    BY <2>1 DEF OpKeeps, HandleKeeps, NoOp
  <2> QED
    BY <2>1, <2>4, <2>5, LeftAlone, LifeShrinks
<1>8. CASE BeatNext
  <2>1. UNCHANGED <<shells, line, stale, handle, events, op, deleting>>
    BY <1>8 DEF BeatNext, TakeBeat, ApplyBeat, linkVars, managerVars
  <2>2. RowKeeps(p)
    BY <1>8, RowEffects, LeftAlone DEF BeatNext, TakeBeat, ApplyBeat, RowKeeps
  <2> QED
    BY <2>1, <2>2, LeftAlone, LifeShrinks
<1> QED
  BY <1>1, <1>2, <1>3, <1>4, <1>5, <1>6, <1>7, <1>8

\* Every step of the shells' side keeps one life per session.
LEMMA LifeStep ==
    ASSUME HostType, NEW p \in Pty, LifeOf(p), ShellNext
    PROVE  Lives(p)
BY DevenvLife, ManagerLife, UserLife, FaultLife DEF ShellNext

-----------------------------------------------------------------------------
(* Where the link believes a session is.  A live session whose shell is in *)
(* a routed devenv's map has its route there, so a devenv without routes   *)
(* hosts no live session.                                                  *)

NoHello(s) == \A i \in 1 .. Len(s) : s[i].kind # "hello"

\* A hello that was not read lists p.
Listed(d, p) == line[d].on = "dialed" /\ p \in Head(line[d].up).inv

\* A stream starts with its hello, which lists what the map holds, and carries
\* no command before it is read; a broken stream has none left; a container
\* that is not up has no stream and no shell.
Greeting(d) ==
    /\ line[d].on = "dialed" =>
          /\ line[d].up # <<>> /\ Head(line[d].up).kind = "hello"
          /\ InMap(d) \subseteq Head(line[d].up).inv
          /\ NoHello(Tail(line[d].up))
          /\ line[d].down = <<>>
    /\ line[d].on # "dialed" => NoHello(line[d].up)
    /\ line[d].on = "off" => line[d].up = <<>> /\ line[d].down = <<>>
    /\ NoHello(stale[d].up)
    /\ route[d] = "line" => line[d].on = "greeted"
    /\ box[d] # "up" => line[d].on = "off" /\ InMap(d) = {}

\* The frames at the ends of a stream.
LEMMA HelloSeqs ==
    ASSUME NEW s \in Seq(UpFrame), NEW m \in UpFrame
    PROVE  /\ NoHello(<<>>)
           /\ NoHello(s) /\ m.kind # "hello" => NoHello(Append(s, m))
           /\ s # <<>> => Head(Append(s, m)) = Head(s) /\ Append(s, m) # <<>>
           /\ s # <<>> /\ NoHello(Tail(s)) /\ m.kind # "hello" => NoHello(Tail(Append(s, m)))
           /\ s # <<>> /\ NoHello(s) => NoHello(Tail(s)) /\ Head(s).kind # "hello"
           /\ \A k \in 0 .. Len(s) : NoHello(s) => NoHello(SubSeq(s, 1, k))
<1>1. NoHello(<<>>)
  BY DEF NoHello
<1>2. NoHello(s) /\ m.kind # "hello" => NoHello(Append(s, m))
  BY DEF NoHello
<1>3. s # <<>> => Head(Append(s, m)) = Head(s) /\ Append(s, m) # <<>>
  OBVIOUS
<1>4. ASSUME s # <<>>, NoHello(Tail(s)), m.kind # "hello" PROVE NoHello(Tail(Append(s, m)))
  <2> SUFFICES ASSUME NEW i \in 1 .. Len(Tail(Append(s, m)))
               PROVE  Tail(Append(s, m))[i].kind # "hello"
    BY DEF NoHello
  <2>1. i \in 1 .. Len(s) /\ Tail(Append(s, m))[i] = Append(s, m)[i + 1]
    BY <1>4
  <2>2. CASE i = Len(s)
    BY <1>4, <2>1, <2>2
  <2>3. CASE i # Len(s)
    <3>1. i \in 1 .. Len(Tail(s)) /\ Append(s, m)[i + 1] = Tail(s)[i]
      BY <1>4, <2>1, <2>3
    <3> QED
      BY <1>4, <2>1, <3>1 DEF NoHello
  <2> QED
    BY <2>2, <2>3
<1>5. ASSUME s # <<>>, NoHello(s) PROVE NoHello(Tail(s)) /\ Head(s).kind # "hello"
  <2>1. Head(s).kind # "hello"
    BY <1>5 DEF NoHello
  <2>2. ASSUME NEW i \in 1 .. Len(Tail(s)) PROVE Tail(s)[i].kind # "hello"
    <3>1. i + 1 \in 1 .. Len(s) /\ Tail(s)[i] = s[i + 1]
      BY <1>5
    <3> QED
      BY <1>5, <3>1 DEF NoHello
  <2> QED
    BY <2>1, <2>2 DEF NoHello
<1>6. ASSUME NEW k \in 0 .. Len(s), NoHello(s) PROVE NoHello(SubSeq(s, 1, k))
  BY <1>6 DEF NoHello
<1> QED
  BY <1>1, <1>2, <1>3, <1>4, <1>5, <1>6

\* A step that leaves the stream of d alone.
LEMMA GreetingSame ==
    ASSUME HostType, NEW d \in Ident, Greeting(d),
           line'[d] = line[d], NoHello(stale'[d].up),
           route'[d] = "line" => route[d] = "line",
           InMap(d)' \subseteq InMap(d),
           box'[d] = box[d] \/ box'[d] = "up"
    PROVE  Greeting(d)'
BY DEF Greeting, InMap

\* Commands are only sent on a stream that was greeted.
LEMMA GreetingSend ==
    ASSUME HostType, NEW d \in Ident, Greeting(d), UNCHANGED <<stale, route, box, shells>>,
           \/ UNCHANGED line
           \/ \E e \in Ident, m \in Command : SendTo(e, m)
    PROVE  Greeting(d)'
<1>1. CASE line'[d] = line[d]
  BY <1>1, GreetingSame DEF Greeting, InMap
<1>2. ASSUME NEW e \in Ident, NEW m \in Command, SendTo(e, m), line'[d] # line[d]
      PROVE  Greeting(d)'
  <2>1. e = d /\ line'[d].up = line[d].up
    BY <1>2, SendToAdds DEF HostType
  <2>2. route[d] = "line" /\ line' = [line EXCEPT ![d].down = Append(@, m)]
    BY <1>2, <2>1 DEF SendTo
  <2>3. line'[d].on = line[d].on /\ line[d].on = "greeted"
    BY <2>2 DEF HostType, WireType, Stream, Greeting
  <2> QED
    BY <2>1, <2>3 DEF Greeting, InMap
<1> QED
  BY <1>1, <1>2

\* A stream that breaks, or does not.
LEMMA GreetingBreak ==
    ASSUME HostType, NEW d \in Ident, Greeting(d), NEW e \in Ident,
           \/ UNCHANGED <<line, stale, route>> /\ line[e].on = "off"
           \/ \E k \in 0 .. Len(line[e].up) : BrokenAt(e, k),
           InMap(d)' \subseteq InMap(d),
           d # e => box'[d] = box[d],
           box'[e] # "up" => InMap(e)' = {}
    PROVE  Greeting(d)'
<1> USE DEF HostType
<1>1. CASE UNCHANGED <<line, stale, route>> /\ line[e].on = "off"
  BY <1>1 DEF Greeting
<1>2. ASSUME NEW k \in 0 .. Len(line[e].up), BrokenAt(e, k) PROVE Greeting(d)'
  <2>1. /\ line'[e] = Closed /\ \A x \in Ident \ {e} : line'[x] = line[x]
        /\ \A x \in Ident \ {e} : stale'[x] = stale[x]
    BY <1>2, BrokenAtLeaves
  <2>2. \A x \in Ident : route'[x] = "line" => route[x] = "line" /\ x # e
    BY <1>2 DEF BrokenAt, WireType
  <2>3. CASE d # e
    BY <2>1, <2>2, <2>3, GreetingSame DEF Greeting
  <2>4. CASE d = e
    <3>1. NoHello(stale'[d].up)
      <4>1. line[d].up \in Seq(UpFrame)
        BY DEF WireType, Stream
      <4>2. CASE line[d].on = "dialed"
        BY <1>2, <2>4, <4>2 DEF BrokenAt, Greeting
      <4>3. CASE line[d].on # "dialed"
        <5>1. stale' = [stale EXCEPT ![d] = [on |-> TRUE, up |-> SubSeq(line[d].up, 1, k)]]
          BY <1>2, <2>4, <4>3 DEF BrokenAt
        <5>2. stale'[d].up = SubSeq(line[d].up, 1, k)
          BY <5>1 DEF WireType
        <5>3. NoHello(SubSeq(line[d].up, 1, k))
          BY <2>4, <4>1, <4>3, HelloSeqs, FrameTypes DEF Greeting, NoHello
        <5> QED
          BY <5>2, <5>3
      <4> QED
        BY <4>2, <4>3
    <3>2. line'[d].on = "off" /\ line'[d].up = <<>> /\ line'[d].down = <<>>
      BY <2>1, <2>4 DEF Closed
    <3>3. NoHello(<<>>)
      BY DEF NoHello
    <3> QED
      BY <2>2, <2>4, <3>1, <3>2, <3>3 DEF Greeting
  <2> QED
    BY <2>3, <2>4
<1> QED
  BY <1>1, <1>2

\* A step of the devenv e or of its readers.
LEMMA GreetingDevenv ==
    ASSUME HostType, NEW d \in Ident, Greeting(d), NEW e \in Ident, DevenvNext(e)
    PROVE  Greeting(d)'
<1> USE DEF HostType
<1>0. /\ line \in [Ident -> Stream] /\ stale \in [Ident -> Rest] /\ line[e] \in Stream
      /\ line[e].up \in Seq(UpFrame) /\ line[e].down \in Seq(Command) /\ stale[e].up \in Seq(UpFrame)
      /\ shells \in [Ident -> [Pty -> {"none", "running", "ended"}]]
      /\ route \in [Ident -> {"none", "line", "stale"}]
  BY DEF WireType, RestType, Stream, Rest
<1>h. NoHello(<<>>)
  BY DEF NoHello
<1>1. CASE ServerDial(e)
  <2>1. UNCHANGED <<shells, route, stale, box>> /\ box[e] = "up" /\ line[e].on = "off"
    BY <1>1 DEF ServerDial, launchVars
  <2>2. CASE d # e
    <3>1. line'[d] = line[d]
      BY <1>0, <1>1, <2>2 DEF ServerDial
    <3> QED
      BY <2>1, <3>1, GreetingSame DEF Greeting, InMap
  <2>3. CASE d = e
    <3>1. line'[d] = [on |-> "dialed", up |-> <<Hello(InMap(d))>>, down |-> <<>>]
      BY <1>0, <1>1, <2>3 DEF ServerDial
    <3>2. /\ line'[d].up # <<>> /\ Head(line'[d].up) = Hello(InMap(d)) /\ Tail(line'[d].up) = <<>>
          /\ line'[d].on = "dialed" /\ line'[d].down = <<>>
      BY <3>1
    <3>3. Hello(InMap(d)).kind = "hello" /\ Hello(InMap(d)).inv = InMap(d) /\ InMap(d)' = InMap(d)
      BY <2>1 DEF Hello, InMap
    <3>4. route'[d] # "line"
      BY <2>1, <2>3 DEF Greeting
    <3> QED
      BY <1>h, <2>1, <2>3, <3>2, <3>3, <3>4 DEF Greeting
  <2> QED
    BY <2>2, <2>3
<1>2. CASE ServerReceive(e)
  <2> DEFINE m == Head(line[e].down)
             rest == [line[e] EXCEPT !.down = Tail(@)]
             ok == shells[e][m.p] = "none"
  <2>1. line[e].down # <<>> /\ UNCHANGED <<route, stale, box>>
    BY <1>2 DEF ServerReceive, launchVars
  <2>2. m \in Command /\ m.p \in Pty
    BY <1>0, <2>1, FrameTypes
  <2>3. \/ line' = [line EXCEPT ![e] = rest]
        \/ /\ m.kind = "spawn"
           /\ line' = [line EXCEPT ![e] = [rest EXCEPT !.up = Append(@, Spawned(m.p, m.n, ok))]]
    BY <1>2 DEF ServerReceive
  <2>4. \/ shells' = shells
        \/ shells' = [shells EXCEPT ![e][m.p] = "running"]
        \/ shells' = [shells EXCEPT ![e][m.p] = "ended"]
    BY <1>2 DEF ServerReceive
  <2>5. CASE d # e
    <3>1. line'[d] = line[d]
      BY <1>0, <2>3, <2>5
    <3>2. InMap(d)' = InMap(d)
      <4> HIDE DEF m
      <4> QED
        BY <1>0, <2>2, <2>4, <2>5 DEF InMap
    <3> QED
      BY <2>1, <3>1, <3>2, GreetingSame DEF Greeting
  <2>6. CASE d = e
    <3>1. line[d].on = "greeted" /\ box[d] = "up" /\ NoHello(line[d].up)
      BY <1>0, <2>1, <2>6 DEF Greeting, Stream
    <3>2. line'[d].on = "greeted" /\ NoHello(line'[d].up)
      <4>1. CASE line' = [line EXCEPT ![e] = rest]
        BY <1>0, <2>6, <3>1, <4>1 DEF Stream
      <4>2. CASE m.kind = "spawn" /\ line' = [line EXCEPT ![e] = [rest EXCEPT !.up = Append(@, Spawned(m.p, m.n, ok))]]
        <5>1. line'[d].on = "greeted" /\ line'[d].up = Append(line[d].up, Spawned(m.p, m.n, ok))
          BY <1>0, <2>6, <3>1, <4>2 DEF Stream
        <5>2. Spawned(m.p, m.n, ok) \in UpFrame /\ Spawned(m.p, m.n, ok).kind # "hello"
          BY <2>2, <4>2, FrameTypes DEF Spawned
        <5> QED
          BY <1>0, <2>6, <3>1, <5>1, <5>2, HelloSeqs
      <4> QED
        BY <2>3, <4>1, <4>2
    <3> QED
      BY <2>1, <3>1, <3>2 DEF Greeting
  <2> QED
    BY <2>5, <2>6
<1>3. CASE ReadLine(e)
  <2>0. UNCHANGED <<shells, stale, box>> /\ line[e].up # <<>>
    BY <1>3 DEF ReadLine, launchVars
  <2>1. line' = [line EXCEPT ![e] = [line[e] EXCEPT !.up = Tail(@), !.on = "greeted"]]
    BY <1>3 DEF ReadLine, WireType
  <2>2. \A x \in Ident \ {e} : line'[x] = line[x] /\ route'[x] = route[x]
    BY <1>0, <1>3, <2>1 DEF ReadLine
  <2>3. CASE d # e
    BY <2>0, <2>2, <2>3, GreetingSame DEF Greeting, InMap
  <2>4. CASE d = e
    <3>1. line'[d].up = Tail(line[d].up) /\ line'[d].on = "greeted"
      BY <1>0, <2>1, <2>4 DEF Stream
    <3>2. NoHello(Tail(line[d].up))
      <4>1. CASE line[d].on = "dialed"
        BY <4>1 DEF Greeting
      <4>2. CASE line[d].on # "dialed"
        BY <1>0, <2>0, <2>4, <4>2, HelloSeqs, FrameTypes DEF Greeting
      <4> QED
        BY <4>1, <4>2
    <3>3. box[d] = "up"
      BY <2>0, <2>4 DEF Greeting
    <3> QED
      BY <2>0, <3>1, <3>2, <3>3 DEF Greeting
  <2> QED
    BY <2>3, <2>4
<1>4. CASE ReadStale(e)
  <2>0. UNCHANGED <<shells, line, route, box>> /\ stale[e].up # <<>>
    BY <1>4 DEF ReadStale, launchVars
  <2>1. NoHello(stale'[d].up)
    <3>1. stale' = [stale EXCEPT ![e] = [stale[e] EXCEPT !.up = Tail(@)]]
      BY <1>0, <1>4 DEF ReadStale
    <3>2. CASE d # e
      BY <1>0, <3>1, <3>2 DEF Greeting
    <3>3. CASE d = e
      <4>1. stale'[d].up = Tail(stale[d].up)
        BY <1>0, <3>1, <3>3 DEF Rest
      <4>2. NoHello(Tail(stale[d].up))
        BY <1>0, <2>0, <3>3, HelloSeqs, FrameTypes DEF Greeting
      <4> QED
        BY <4>1, <4>2
    <3> QED
      BY <3>2, <3>3
  <2> QED
    BY <2>0, <2>1, GreetingSame DEF InMap
<1>5. CASE Teardown(e)
  <2>1. UNCHANGED <<shells, line, box>> /\ stale' = [stale EXCEPT ![e] = NoStream]
        /\ route' = [route EXCEPT ![e] = IF @ = "stale" THEN "none" ELSE @]
    BY <1>5 DEF Teardown, launchVars
  <2>2. NoHello(stale'[d].up)
    BY <1>0, <1>h, <2>1 DEF Greeting, NoStream
  <2>3. route'[d] = "line" => route[d] = "line"
    BY <1>0, <2>1
  <2> QED
    BY <2>1, <2>2, <2>3, GreetingSame DEF InMap
<1>6. ASSUME NEW q \in Pty, PumpExit(e, q) PROVE Greeting(d)'
  <2>1. UNCHANGED <<route, stale, box>> /\ line[e].on # "off"
        /\ shells' = [shells EXCEPT ![e][q] = "none"]
    BY <1>6 DEF PumpExit, launchVars
  <2>2. InMap(d)' \subseteq InMap(d)
    BY <1>0, <2>1 DEF InMap
  <2>3. /\ line'[e].up = Append(line[e].up, Exited(q)) /\ line'[e].down = line[e].down
        /\ line'[e].on = line[e].on
        /\ \A x \in Ident \ {e} : line'[x] = line[x]
    <3> DEFINE s == Append(line[e].up, Exited(q))
    <3>1. s \in Seq(UpFrame) /\ line' = [line EXCEPT ![e].up = s]
      BY <1>0, <1>6, FrameTypes DEF PumpExit
    <3> HIDE DEF s
    <3>2. /\ line'[e].up = s /\ line'[e].down = line[e].down /\ line'[e].on = line[e].on
          /\ \A x \in Ident \ {e} : line'[x] = line[x]
      BY <3>1, OneStream DEF WireType
    <3> QED
      BY <3>2 DEF s
  <2>4. CASE d # e
    BY <2>1, <2>2, <2>3, <2>4, GreetingSame DEF Greeting
  <2>5. CASE d = e
    <3>1. Exited(q) \in UpFrame /\ Exited(q).kind # "hello"
      BY FrameTypes DEF Exited
    <3>2. CASE line[d].on = "dialed"
      <4>1. /\ Head(line'[d].up) = Head(line[d].up) /\ line'[d].up # <<>>
            /\ NoHello(Tail(line'[d].up))
        BY <1>0, <2>3, <2>5, <3>1, <3>2, HelloSeqs DEF Greeting
      <4> QED
        BY <2>1, <2>2, <2>3, <2>5, <3>2, <4>1 DEF Greeting
    <3>3. CASE line[d].on # "dialed"
      <4>1. NoHello(line'[d].up)
        BY <1>0, <2>3, <2>5, <3>1, <3>3, HelloSeqs DEF Greeting
      <4> QED
        BY <2>1, <2>2, <2>3, <2>5, <3>3, <4>1 DEF Greeting
    <3> QED
      BY <3>2, <3>3
  <2> QED
    BY <2>4, <2>5
<1> QED
  BY <1>1, <1>2, <1>3, <1>4, <1>5, <1>6 DEF DevenvNext

\* Every other step of the shells' side.
LEMMA GreetingStep ==
    ASSUME HostType, NEW d \in Ident, Greeting(d), ShellNext
    PROVE  Greeting(d)'
<1> USE DEF HostType
<1>0. /\ shells \in [Ident -> [Pty -> {"none", "running", "ended"}]]
      /\ box \in [Ident -> {"absent", "up", "stopped"}]
  BY DEF RestType
<1>1. ASSUME NEW e \in Ident, DevenvNext(e) PROVE Greeting(d)'
  BY <1>1, GreetingDevenv
<1>2. ASSUME NEW p \in Pty, \/ LinkSpawn(p) \/ StartUpgrade(p) \/ StartDelete(p)
      PROVE  Greeting(d)'
  <2>1. UNCHANGED <<stale, route, box, shells>>
    BY <1>2 DEF LinkSpawn, StartUpgrade, StartDelete, launchVars
  <2>2. [kind |-> "spawn", p |-> p, n |-> op[p].n] \in Command /\ [kind |-> "kill", p |-> p] \in Command
        /\ published \in Ident
    <3>1. op[p].n \in Nat
      BY HostAssumption DEF WireType, OpRec
    <3> QED
      BY <3>1, FrameTypes DEF RestType
  <2>3. CanSend(p) => host[p] \in Ident
    BY DEF CanSend, WireType
  <2>4. UNCHANGED line \/ \E e \in Ident, m \in Command : SendTo(e, m)
    <3>1. CASE LinkSpawn(p)
      BY <2>2, <3>1 DEF LinkSpawn
    <3>2. CASE StartUpgrade(p)
      BY <2>2, <2>3, <3>2 DEF StartUpgrade, SendKill
    <3>3. CASE StartDelete(p)
      BY <2>2, <2>3, <3>3 DEF StartDelete, SendKill
    <3> QED
      BY <1>2, <3>1, <3>2, <3>3
  <2> QED
    BY <2>1, <2>4, GreetingSend
<1>3. ASSUME \/ ApplyExited \/ ApplyConnected \/ BeatNext \/ Publish
             \/ \E p \in Pty : \/ SpawnDenied(p) \/ SpawnGranted(p) \/ UpgradeSpawn(p) \/ FinishDelete(p)
                              \/ StartSpawn(p) \/ SpawnTimeout(p) \/ UpgradeTimeout(p)
             \/ \E e \in Ident : ReapDecide(e)
      PROVE  Greeting(d)'
  <2>1. UNCHANGED <<line, stale, route, box, shells>>
    BY <1>3 DEF ApplyExited, ApplyConnected, BeatNext, TakeBeat, ApplyBeat, Publish, SpawnDenied,
       SpawnGranted, UpgradeSpawn, FinishDelete, StartSpawn, SpawnTimeout, UpgradeTimeout, ReapDecide,
       linkVars, launchVars
  <2> QED
    BY <2>1, GreetingSend
<1>4. ASSUME NEW e \in Ident, StreamBreak(e) PROVE Greeting(d)'
  <2>1. UNCHANGED box /\ \E k \in 0 .. Len(line[e].up) : BrokenAt(e, k)
    BY <1>4 DEF StreamBreak, launchVars
  <2>2. PICK lost \in SUBSET Pty :
           shells' = [shells EXCEPT ![e] = [r \in Pty |-> IF r \in lost THEN "none" ELSE @[r]]]
    BY <1>4 DEF StreamBreak
  <2>3. \A x \in Ident : InMap(x)' \subseteq InMap(x)
    BY <1>0, <2>2 DEF InMap
  <2>4. line[e].on # "off"
    BY <2>1 DEF BrokenAt
  <2>5. CASE d = e
    <3>1. box'[e] = "up"
      BY <2>1, <2>4, <2>5 DEF Greeting, RestType
    <3> QED
      BY <2>1, <2>3, <3>1, GreetingBreak
  <2>6. CASE d # e
    <3>1. PICK k \in 0 .. Len(line[e].up) : BrokenAt(e, k)
      BY <2>1
    <3>2. line'[d] = line[d] /\ stale'[d] = stale[d]
      BY <2>6, <3>1, BrokenAtLeaves
    <3>3. route'[d] = route[d]
      BY <2>6, <3>1 DEF BrokenAt, WireType
    <3> QED
      BY <2>1, <2>3, <3>2, <3>3, GreetingSame DEF Greeting
  <2> QED
    BY <2>5, <2>6
<1>5. ASSUME NEW e \in Ident, NEW st \in {"up", "stopped"}, ContainerDown(e, st) PROVE Greeting(d)'
  <2>1. \/ UNCHANGED <<line, stale, route>> /\ line[e].on = "off"
        \/ \E k \in 0 .. Len(line[e].up) : BrokenAt(e, k)
    BY <1>5 DEF ContainerDown
  <2>2. InMap(d)' \subseteq InMap(d) /\ InMap(e)' = {}
    BY <1>0, <1>5 DEF ContainerDown, InMap
  <2>3. d # e => box'[d] = box[d]
    BY <1>0, <1>5 DEF ContainerDown
  <2> QED
    BY <2>1, <2>2, <2>3, GreetingBreak
<1>6. ASSUME NEW e \in Ident, NEW p \in Pty, ShellExit(e, p) PROVE Greeting(d)'
  <2>1. UNCHANGED <<line, stale, route, box>> /\ InMap(d)' \subseteq InMap(d)
    BY <1>0, <1>6 DEF ShellExit, linkVars, launchVars, InMap
  <2> QED
    BY <2>1, GreetingSame DEF Greeting
<1>7. CASE EnsureCurrent
  <2>1. UNCHANGED <<line, stale, route, shells>> /\ (box'[d] = box[d] \/ box'[d] = "up")
    BY <1>0, <1>7 DEF EnsureCurrent, linkVars
  <2> QED
    BY <2>1, GreetingSame DEF Greeting, InMap
<1>8. CASE Reap
  <2>0. PICK r \in Ident : r = reaping
    BY <1>8 DEF Reap, RestType
  <2>1. Len(line[r].up) \in 0 .. Len(line[r].up)
    BY DEF WireType, Stream
  <2>2. \/ UNCHANGED <<line, stale, route>> /\ line[r].on = "off"
        \/ \E k \in 0 .. Len(line[r].up) : BrokenAt(r, k)
    BY <1>8, <2>0, <2>1 DEF Reap
  <2>3. InMap(d)' \subseteq InMap(d) /\ InMap(r)' = {}
    BY <1>0, <1>8, <2>0 DEF Reap, InMap
  <2>4. d # r => box'[d] = box[d]
    BY <1>0, <1>8, <2>0 DEF Reap
  <2> QED
    BY <2>2, <2>3, <2>4, GreetingBreak
<1>9. CASE Restart
  <2>1. line'[d] = Closed /\ stale'[d] = NoStream /\ route'[d] = "none" /\ UNCHANGED <<box, shells>>
    BY <1>9 DEF Restart
  <2>2. line'[d].on = "off" /\ line'[d].up = <<>> /\ line'[d].down = <<>> /\ stale'[d].up = <<>>
    BY <2>1 DEF Closed, NoStream
  <2>3. NoHello(<<>>) /\ InMap(d)' = InMap(d)
    BY <2>1 DEF NoHello, InMap
  <2> QED
    BY <2>1, <2>2, <2>3 DEF Greeting
<1> QED
  BY <1>1, <1>2, <1>3, <1>4, <1>5, <1>6, <1>7, <1>8, <1>9 DEF ShellNext, ManagerNext, SpawnStep

\* The routes of a live session, until its second spawn: to the devenv whose
\* map holds it, or that is asked to start it; an unread hello lists it for no
\* other; and it is not in a container that is about to be removed.
Homed(p) ==
    /\ \A d \in Ident : shells[d][p] # "none" /\ route[d] # "none" => host[p] = d
    /\ \A d \in Ident : ~NoSpawn(p, line[d].down) => host[p] = d
    /\ \A d \in Ident : Listed(d, p) => Quiet(p) /\ \A e \in Ident \ {d} : shells[e][p] = "none"
    /\ reaping # NoIdent /\ reaping # published
          => shells[reaping][p] = "none" /\ NoSpawn(p, line[reaping].down)

HomeOf(p) ==
    /\ op[p].n = 0 => \A d \in Ident : ~Listed(d, p)
    /\ op[p].n = 1 /\ IsLive(p) => Homed(p)

\* Most steps leave the routes, the hellos and the launcher's choice alone.
ListKeeps(p) == \A d \in Ident : Listed(d, p)' => Listed(d, p)
ReapKeeps == reaping' = NoIdent \/ UNCHANGED <<reaping, published>>
RoutesKeep(p) ==
    /\ \A d \in Ident : shells[d][p] # "none" /\ route'[d] # "none" => host'[p] = d
    /\ \A d \in Ident : ~NoSpawn(p, line[d].down) => host'[p] = d

\* Such a step keeps a live session where the link believes it is.
LEMMA HomeShrinks ==
    ASSUME HostType, NEW p \in Pty, HomeOf(p), Shrunk(p), ListKeeps(p), ReapKeeps,
           op[p].n = 1 /\ IsLive(p) /\ IsLive(p)' /\ Homed(p) => RoutesKeep(p)
    PROVE  HomeOf(p)'
<1>1. op'[p].n = 0 => \A d \in Ident : ~Listed(d, p)'
  BY DEF HomeOf, Shrunk, OpKeeps, ListKeeps
<1>2. ASSUME op'[p].n = 1, IsLive(p)' PROVE Homed(p)'
  <2>0. op[p].n = 1 /\ IsLive(p) /\ Homed(p) /\ RoutesKeep(p)
    BY <1>2 DEF HomeOf, Shrunk, OpKeeps, RowKeeps, IsLive
  <2>1. \A d \in Ident : shells'[d][p] # "none" /\ route'[d] # "none" => host'[p] = d
    BY <2>0 DEF RoutesKeep, Shrunk, ShellsShrink
  <2>2. \A d \in Ident : ~NoSpawn(p, line'[d].down) => host'[p] = d
    BY <2>0 DEF RoutesKeep, Shrunk, DownShrinks
  <2>3. Quiet(p) => Quiet(p)'
    BY DEF Quiet, Shrunk, DownShrinks, OpKeeps
  <2>4. \A d \in Ident : Listed(d, p)' => Quiet(p)' /\ \A e \in Ident \ {d} : shells'[e][p] = "none"
    BY <2>0, <2>3 DEF Homed, ListKeeps, Shrunk, ShellsShrink
  <2>5. reaping' # NoIdent /\ reaping' # published'
          => shells'[reaping'][p] = "none" /\ NoSpawn(p, line'[reaping'].down)
    <3> SUFFICES ASSUME reaping' # NoIdent, reaping' # published'
                 PROVE  shells'[reaping'][p] = "none" /\ NoSpawn(p, line'[reaping'].down)
      OBVIOUS
    <3>1. UNCHANGED <<reaping, published>>
      BY DEF ReapKeeps
    <3>2. reaping \in Ident /\ shells[reaping][p] = "none" /\ NoSpawn(p, line[reaping].down)
      BY <2>0, <3>1 DEF Homed, HostType, RestType
    <3> QED
      BY <3>1, <3>2 DEF Shrunk, ShellsShrink, DownShrinks
  <2> QED
    BY <2>1, <2>2, <2>4, <2>5 DEF Homed
<1> QED
  BY <1>1, <1>2 DEF HomeOf

\* A step that touches neither routes nor hosts.
LEMMA RoutesAlone ==
    ASSUME NEW p \in Pty, host'[p] = host[p], \A d \in Ident : route'[d] # "none" => route[d] # "none"
    PROVE  Homed(p) => RoutesKeep(p)
BY DEF Homed, RoutesKeep

\* A frame that is read: a hello brings the routes in line with the map, an
\* exit takes the route of a session that has no shell any more.
LEMMA HomeRead ==
    ASSUME HostType, NEW p \in Pty, LifeOf(p), HomeOf(p), Shrunk(p), NEW e \in Ident, Greeting(e),
           ReadLine(e) \/ ReadStale(e)
    PROVE  HomeOf(p)'
<1> USE DEF HostType
<1>0. /\ line \in [Ident -> Stream] /\ line[e] \in Stream /\ stale[e].up \in Seq(UpFrame)
      /\ line[e].up \in Seq(UpFrame) /\ route \in [Ident -> {"none", "line", "stale"}]
  BY DEF WireType, Stream, Rest
<1>1. ASSUME NEW m \in UpFrame, m.kind # "hello", LinkReceive(e, m), UNCHANGED route,
             op[p].n = 1, Homed(p),
             m.kind = "exited" /\ m.p = p => Reported(p)
      PROVE  RoutesKeep(p)
  <2>1. CASE host'[p] = host[p]
    BY <1>1, <2>1, RoutesAlone
  <2>2. CASE host'[p] # host[p]
    <3>1. m.kind = "exited" /\ m.p = p
      BY <1>1, <2>2, FrameTypes DEF LinkReceive, WireType
    <3>2. Quiet(p) /\ Gone(p)
      BY <1>1, <3>1 DEF LifeOf, OneLife
    <3> QED
      BY <3>2 DEF RoutesKeep, Quiet, Gone
  <2> QED
    BY <2>1, <2>2
<1>2. CASE ReadLine(e)
  <2> DEFINE m == Head(line[e].up)
  <2>1. UNCHANGED <<reaping, published, stale, shells>> /\ line[e].up # <<>> /\ LinkReceive(e, m)
    BY <1>2 DEF ReadLine, launchVars
  <2>2. m \in UpFrame /\ InSeq(m, line[e].up)
    BY <1>0, <2>1, InSeqs
  <2>3. line' = [line EXCEPT ![e] = [line[e] EXCEPT !.up = Tail(@), !.on = "greeted"]]
    BY <1>2 DEF ReadLine, WireType
  <2>4. /\ line'[e].on = "greeted" /\ line'[e].down = line[e].down
        /\ \A x \in Ident \ {e} : line'[x] = line[x]
    BY <1>0, <2>3 DEF Stream
  <2>5. ListKeeps(p)
    BY <2>4 DEF ListKeeps, Listed
  <2>6. ASSUME op[p].n = 1, Homed(p) PROVE RoutesKeep(p)
    <3>1. CASE m.kind # "hello"
      <4>1. UNCHANGED route
        BY <1>2, <3>1 DEF ReadLine
      <4>2. m.kind = "exited" /\ m.p = p => Reported(p)
        BY <2>2, FrameTypes DEF Reported
      <4> QED
        BY <1>1, <2>1, <2>2, <2>6, <3>1, <4>1, <4>2
    <3>2. CASE m.kind = "hello"
      <4>1. line[e].on = "dialed"
        BY <1>0, <2>1, <3>2, HelloSeqs, FrameTypes DEF Greeting
      <4>2. /\ InMap(e) \subseteq m.inv /\ line[e].down = <<>>
        BY <4>1 DEF Greeting
      <4>3. host' = HelloHost(e, m.inv) /\ route' = [route EXCEPT ![e] = "line"]
        BY <1>2, <2>1, <3>2 DEF LinkReceive, ReadLine
      <4>4. Listed(e, p) <=> p \in m.inv
        BY <4>1 DEF Listed
      <4>5. host'[p] = IF p \in m.inv THEN e ELSE IF host[p] = e THEN NoIdent ELSE host[p]
        BY <4>3 DEF HelloHost
      <4>6. ASSUME NEW d \in Ident, shells[d][p] # "none", route'[d] # "none" PROVE host'[p] = d
        <5>1. CASE d = e
          BY <4>2, <4>5, <4>6, <5>1 DEF InMap
        <5>2. CASE d # e
          <6>1. route[d] # "none"
            BY <1>0, <4>3, <4>6, <5>2
          <6>2. host[p] = d /\ ~Listed(e, p)
            BY <2>6, <4>6, <5>2, <6>1 DEF Homed
          <6> QED
            BY <4>4, <4>5, <5>2, <6>2
        <5> QED
          BY <5>1, <5>2
      <4>7. ASSUME NEW d \in Ident, ~NoSpawn(p, line[d].down) PROVE host'[p] = d
        <5>1. d # e
          BY <4>2, <4>7 DEF NoSpawn
        <5>2. host[p] = d /\ ~Listed(e, p)
          BY <2>6, <4>7 DEF Homed, Quiet
        <5> QED
          BY <4>4, <4>5, <5>1, <5>2
      <4> QED
        BY <4>6, <4>7 DEF RoutesKeep
    <3> QED
      BY <3>1, <3>2
  <2> QED
    BY <2>1, <2>5, <2>6, HomeShrinks DEF ReapKeeps
<1>3. CASE ReadStale(e)
  <2> DEFINE m == Head(stale[e].up)
  <2>1. UNCHANGED <<reaping, published, line, route, shells>> /\ stale[e].up # <<>> /\ LinkReceive(e, m)
    BY <1>3 DEF ReadStale, launchVars
  <2>2. m \in UpFrame /\ InSeq(m, stale[e].up) /\ m.kind # "hello"
    BY <1>0, <2>1, InSeqs, HelloSeqs DEF Greeting
  <2>3. m.kind = "exited" /\ m.p = p => Reported(p)
    BY <2>2, FrameTypes DEF Reported
  <2>4. op[p].n = 1 /\ Homed(p) => RoutesKeep(p)
    BY <1>1, <2>1, <2>2, <2>3
  <2>5. ListKeeps(p)
    BY <2>1 DEF ListKeeps, Listed
  <2> QED
    BY <2>1, <2>4, <2>5, HomeShrinks DEF ReapKeeps
<1> QED
  BY <1>2, <1>3

\* A step of the devenv e or of its readers.
LEMMA HomeDevenv ==
    ASSUME HostType, NEW p \in Pty, LifeOf(p), HomeOf(p), Lives(p), NEW e \in Ident, Greeting(e),
           DevenvNext(e)
    PROVE  HomeOf(p)'
<1> USE DEF HostType
<1>0. /\ line \in [Ident -> Stream] /\ line[e] \in Stream /\ line[e].down \in Seq(Command)
      /\ line[e].up \in Seq(UpFrame) /\ route \in [Ident -> {"none", "line", "stale"}]
      /\ shells \in [Ident -> [Pty -> {"none", "running", "ended"}]]
  BY DEF WireType, RestType, Stream
<1>1. CASE ServerDial(e)
  <2>1. UNCHANGED <<sess, shells, op, route, host, reaping, published>> /\ line[e].on = "off"
    BY <1>1 DEF ServerDial, launchVars, managerVars
  <2>2. /\ line'[e] = [on |-> "dialed", up |-> <<Hello(InMap(e))>>, down |-> <<>>]
        /\ \A x \in Ident \ {e} : line'[x] = line[x]
    BY <1>0, <1>1 DEF ServerDial
  <2>3. Listed(e, p)' <=> shells[e][p] # "none"
    BY <2>2 DEF Listed, Hello, InMap
  <2>4. \A x \in Ident \ {e} : Listed(x, p)' <=> Listed(x, p)
    BY <2>2 DEF Listed
  <2>5. /\ line'[e].down = <<>> /\ NoSpawn(p, <<>>)
    BY <2>2 DEF NoSpawn
  <2>6. \A x \in Ident : NoSpawn(p, line[x].down) => NoSpawn(p, line'[x].down)
    BY <2>2, <2>5
  <2>7. op'[p].n = 0 => \A x \in Ident : ~Listed(x, p)'
    BY <2>1, <2>3, <2>4 DEF HomeOf, LifeOf, Unborn, Gone
  <2>8. ASSUME op'[p].n = 1, IsLive(p)' PROVE Homed(p)'
    <3>0. Homed(p) /\ OneLife(p)
      BY <2>1, <2>8 DEF HomeOf, LifeOf, IsLive
    <3>1. shells[e][p] # "none" => Quiet(p) /\ \A x \in Ident \ {e} : shells[x][p] = "none"
      BY <3>0 DEF OneLife, Gone
    <3>2. Quiet(p) => Quiet(p)'
      BY <2>1, <2>6 DEF Quiet
    <3>3. \A d \in Ident : Listed(d, p)' => Quiet(p)' /\ \A x \in Ident \ {d} : shells'[x][p] = "none"
      BY <2>1, <2>3, <2>4, <3>0, <3>1, <3>2 DEF Homed
    <3>4. \A d \in Ident : shells'[d][p] # "none" /\ route'[d] # "none" => host'[p] = d
      BY <2>1, <3>0 DEF Homed
    <3>5. \A d \in Ident : ~NoSpawn(p, line'[d].down) => host'[p] = d
      BY <2>1, <2>6, <3>0 DEF Homed
    <3>6. reaping' # NoIdent /\ reaping' # published'
            => shells'[reaping'][p] = "none" /\ NoSpawn(p, line'[reaping'].down)
      BY <2>1, <2>6, <3>0 DEF Homed, RestType
    <3> QED
      BY <3>3, <3>4, <3>5, <3>6 DEF Homed
  <2> QED
    BY <2>7, <2>8 DEF HomeOf
<1>2. CASE ServerReceive(e)
  <2> DEFINE m == Head(line[e].down)
             rest == [line[e] EXCEPT !.down = Tail(@)]
             ok == shells[e][m.p] = "none"
  <2>1. line[e].down # <<>> /\ UNCHANGED <<sess, op, route, host, reaping, published>>
    BY <1>2 DEF ServerReceive, launchVars, managerVars
  <2>2. line[e].on = "greeted"
    BY <1>0, <2>1 DEF Greeting, Stream
  <2>3. /\ line'[e].on = "greeted" /\ line'[e].down = Tail(line[e].down)
        /\ \A x \in Ident \ {e} : line'[x] = line[x]
    <3>1. CASE line' = [line EXCEPT ![e] = rest]
      BY <1>0, <2>2, <3>1 DEF Stream
    <3>2. CASE line' = [line EXCEPT ![e] = [rest EXCEPT !.up = Append(@, Spawned(m.p, m.n, ok))]]
      BY <1>0, <2>2, <3>2 DEF Stream
    <3> QED
      BY <1>2, <3>1, <3>2 DEF ServerReceive
  <2>4. ListKeeps(p)
    BY <2>3 DEF ListKeeps, Listed
  <2>5. CASE Shrunk(p)
    BY <2>1, <2>4, <2>5, RoutesAlone, HomeShrinks DEF ReapKeeps
  <2>6. CASE IsSpawn(m, p)
    <3>1. ~NoSpawn(p, line[e].down)
      BY <1>0, <2>1, <2>6, SpawnSeqs
    <3>2. op[p].n # 0
      BY <3>1 DEF LifeOf, Unborn, Quiet
    <3>3. ASSUME op[p].n = 1, IsLive(p) PROVE Homed(p)'
      <4>0. OneLife(p) /\ Homed(p) /\ OneLife(p)'
        BY <2>1, <3>3 DEF LifeOf, HomeOf, Lives
      <4>1. ~Quiet(p) /\ Gone(p) /\ host[p] = e /\ \A d \in Ident : ~Listed(d, p)
        BY <3>1, <4>0 DEF OneLife, Homed, Quiet
      <4>2. shells' = [shells EXCEPT ![e][p] = "running"]
        BY <1>2, <2>6, <4>1 DEF ServerReceive, IsSpawn, Gone
      <4>3. shells'[e][p] = "running" /\ \A d \in Ident \ {e} : shells'[d][p] = "none"
        BY <1>0, <4>1, <4>2 DEF Gone
      <4>4. \A d \in Ident : NoSpawn(p, line'[d].down)
        BY <4>0, <4>3 DEF OneLife, Gone, Quiet
      <4>5. reaping # NoIdent /\ reaping # published => reaping # e /\ reaping \in Ident
        BY <3>1, <4>0 DEF Homed, RestType
      <4>6. reaping' # NoIdent /\ reaping' # published'
              => shells'[reaping'][p] = "none" /\ NoSpawn(p, line'[reaping'].down)
        BY <2>1, <4>3, <4>4, <4>5
      <4>7. \A d \in Ident : ~Listed(d, p)'
        BY <2>4, <4>1 DEF ListKeeps
      <4> QED
        BY <2>1, <4>1, <4>3, <4>4, <4>6, <4>7 DEF Homed
    <3> QED
      BY <2>1, <3>2, <3>3 DEF HomeOf, IsLive
  <2>7. Shrunk(p) \/ IsSpawn(m, p)
    <3>1. CASE ~IsSpawn(m, p)
      <4>1. m \in Command /\ m.p \in Pty
        BY <1>0, <2>1, FrameTypes
      <4>2. \/ shells' = shells
            \/ m.kind = "spawn" /\ shells' = [shells EXCEPT ![e][m.p] = "running"]
            \/ shells[e][m.p] # "none" /\ shells' = [shells EXCEPT ![e][m.p] = "ended"]
        BY <1>2 DEF ServerReceive
      <4>3. ShellsShrink(p)
        <5> HIDE DEF m
        <5> QED
          BY <1>0, <3>1, <4>1, <4>2 DEF ShellsShrink, IsSpawn
      <4>4. DownShrinks(p)
        BY <1>0, <2>1, <2>3, <4>1, SpawnSeqs DEF DownShrinks
      <4> QED
        BY <2>1, <4>3, <4>4, LeftAlone DEF Shrunk
    <3> QED
      BY <3>1
  <2> QED
    BY <2>5, <2>6, <2>7
<1>3. CASE ReadLine(e) \/ ReadStale(e)
  <2>1. UNCHANGED <<sess, shells>> /\ OpKeeps(p) /\ DownShrinks(p)
    <3>1. UNCHANGED <<sess, shells>>
      BY <1>3 DEF ReadLine, ReadStale
    <3>2. \A d \in Ident : line'[d].down = line[d].down
      <4>1. CASE ReadLine(e)
        <5>1. line' = [line EXCEPT ![e] = [line[e] EXCEPT !.up = Tail(@), !.on = "greeted"]]
          BY <1>0, <4>1 DEF ReadLine
        <5> QED
          BY <1>0, <5>1 DEF Stream
      <4>2. CASE ReadStale(e)
        BY <4>2 DEF ReadStale
      <4> QED
        BY <1>3, <4>1, <4>2
    <3>3. OpKeeps(p)
      <4>1. PICK m \in UpFrame : LinkReceive(e, m)
        BY <1>0, <1>3 DEF ReadLine, ReadStale, WireType, Rest
      <4> QED
        BY <4>1, LinkOps
    <3> QED
      BY <3>1, <3>2, <3>3 DEF DownShrinks
  <2> QED
    BY <1>3, <2>1, LeftAlone, HomeRead DEF Shrunk
<1>4. CASE Teardown(e)
  <2>1. UNCHANGED <<sess, shells, line, host, reaping, published>>
        /\ route' = [route EXCEPT ![e] = IF @ = "stale" THEN "none" ELSE @]
        /\ op' = FailPending(e)
    BY <1>4 DEF Teardown, launchVars
  <2>2. \A d \in Ident : route'[d] # "none" => route[d] # "none"
    BY <1>0, <2>1
  <2>3. OpKeeps(p) /\ ListKeeps(p)
    BY <2>1, FailPendingSteps DEF OpKeeps, ListKeeps, Listed
  <2>4. Shrunk(p)
    BY <2>1, <2>3, LeftAlone DEF Shrunk
  <2> QED
    BY <2>1, <2>2, <2>3, <2>4, RoutesAlone, HomeShrinks DEF ReapKeeps
<1>5. ASSUME NEW q \in Pty, PumpExit(e, q) PROVE HomeOf(p)'
  <2>1. UNCHANGED <<sess, op, route, host, reaping, published>> /\ line[e].on # "off"
        /\ shells' = [shells EXCEPT ![e][q] = "none"]
    BY <1>5 DEF PumpExit, launchVars, managerVars
  <2>2. /\ line'[e].up = Append(line[e].up, Exited(q)) /\ line'[e].down = line[e].down
        /\ line'[e].on = line[e].on
        /\ \A x \in Ident \ {e} : line'[x] = line[x]
    <3> DEFINE s == Append(line[e].up, Exited(q))
    <3>1. s \in Seq(UpFrame) /\ line' = [line EXCEPT ![e].up = s]
      BY <1>0, <1>5, FrameTypes DEF PumpExit
    <3> HIDE DEF s
    <3>2. /\ line'[e].up = s /\ line'[e].down = line[e].down /\ line'[e].on = line[e].on
          /\ \A x \in Ident \ {e} : line'[x] = line[x]
      BY <3>1, OneStream DEF WireType
    <3> QED
      BY <3>2 DEF s
  <2>3. ListKeeps(p)
    <3>1. line[e].on = "dialed" => Head(line'[e].up) = Head(line[e].up)
      BY <1>0, <2>2, HelloSeqs, FrameTypes DEF Greeting
    <3> QED
      BY <2>2, <3>1 DEF ListKeeps, Listed
  <2>4. Shrunk(p)
    <3>1. ShellsShrink(p)
      BY <1>0, <2>1 DEF ShellsShrink
    <3>2. DownShrinks(p)
      BY <2>2 DEF DownShrinks
    <3> QED
      BY <2>1, <3>1, <3>2, LeftAlone DEF Shrunk
  <2> QED
    BY <2>1, <2>3, <2>4, RoutesAlone, HomeShrinks DEF ReapKeeps
<1> QED
  BY <1>1, <1>2, <1>3, <1>4, <1>5 DEF DevenvNext

\* A session that is spawned, or asked for, gets its route with it.
LEMMA HomeTurn ==
    ASSUME HostType, NEW p \in Pty, LifeOf(p), HomeOf(p), Lives(p), \A d \in Ident : Greeting(d),
           Turn(p)
    PROVE  HomeOf(p)'
<1> USE DEF HostType
<1>1. CASE StartSpawn(p)
  <2>1. UNCHANGED <<shells, line, route, host, reaping, published>> /\ sess[p].state = "none"
        /\ op[p].n < MaxSpawns
    BY <1>1 DEF StartSpawn, linkVars, launchVars
  <2>2. op[p].n = 0 /\ Unborn(p) /\ \A d \in Ident : ~Listed(d, p)
    BY <2>1 DEF LifeOf, HomeOf
  <2>3. Gone(p)' /\ (\A d \in Ident : NoSpawn(p, line'[d].down)) /\ \A d \in Ident : ~Listed(d, p)'
    BY <2>1, <2>2 DEF Unborn, Gone, Quiet, Listed
  <2>4. Homed(p)'
    BY <2>1, <2>3 DEF Homed, Gone, RestType
  <2> QED
    BY <2>3, <2>4 DEF HomeOf
<1>2. CASE UpgradeSpawn(p)
  <2>1. op[p].step = "upgrading" /\ op[p].n \in Nat /\ op[p].n < MaxSpawns
    BY <1>2, HostAssumption DEF UpgradeSpawn, WireType, OpRec
  <2>2. OpBecomes(p, "persisted", op[p].n + 1)
    BY <1>2, <2>1, OpSpawns DEF UpgradeSpawn
  <2>3. op[p].n # 0
    BY <2>1 DEF LifeOf, Unborn
  <2> QED
    BY <2>1, <2>2, <2>3 DEF HomeOf, OpBecomes
<1>3. CASE LinkSpawn(p)
  <2> DEFINE m == [kind |-> "spawn", p |-> p, n |-> op[p].n]
  <2>0. published \in Ident /\ op[p].n \in Nat /\ m \in Command
    <3>1. published \in Ident /\ op[p].n \in Nat
      BY HostAssumption DEF RestType, WireType, OpRec
    <3> QED
      BY <3>1, FrameTypes
  <2>1. UNCHANGED <<sess, shells, route, reaping, published>> /\ op[p].step = "persisted"
    BY <1>3 DEF LinkSpawn, launchVars
  <2>2. \/ SendTo(published, m) /\ host' = [host EXCEPT ![p] = published]
        \/ UNCHANGED <<line, host>>
    BY <1>3 DEF LinkSpawn
  <2>3. op[p].n # 0
    BY <2>1 DEF LifeOf, Unborn
  <2>4. op'[p].n = op[p].n
    BY <1>3 DEF LinkSpawn, WireType, OpRec
  <2>5. ASSUME op[p].n = 1, IsLive(p) PROVE Homed(p)'
    <3>0. OneLife(p) /\ Homed(p)
      BY <2>5 DEF LifeOf, HomeOf
    <3>1. ~Quiet(p) /\ Gone(p) /\ \A d \in Ident : NoSpawn(p, line[d].down)
      BY <2>1, <3>0 DEF OneLife, Quiet
    <3>2. Gone(p)' /\ \A d \in Ident : ~Listed(d, p)
      BY <2>1, <3>0, <3>1 DEF Homed, Gone
    <3>3. \A d \in Ident : ~Listed(d, p)'
      <4>1. UNCHANGED line \/ line' = [line EXCEPT ![published].down = Append(@, m)]
        BY <2>2 DEF SendTo
      <4>2. \A d \in Ident : line'[d].on = line[d].on /\ line'[d].up = line[d].up
        <5>1. CASE UNCHANGED line
          BY <5>1
        <5>2. CASE SendTo(published, m)
          <6>1. line' \in [Ident -> Stream] /\ line'[published].up = line[published].up
                /\ \A d \in Ident \ {published} : line'[d] = line[d]
            BY <2>0, <5>2, SendToAdds
          <6>2. line'[published].on = line[published].on
            BY <2>0, <5>2 DEF SendTo, WireType, Stream
          <6> QED
            BY <6>1, <6>2
        <5> QED
          BY <2>2, <5>1, <5>2
      <4> QED
        BY <3>2, <4>2 DEF Listed
    <3>4. \A d \in Ident : ~NoSpawn(p, line'[d].down) => host'[p] = d /\ d = published
      <4>1. CASE UNCHANGED <<line, host>>
        BY <3>1, <4>1
      <4>2. CASE SendTo(published, m) /\ host' = [host EXCEPT ![p] = published]
        <5>1. \A d \in Ident \ {published} : line'[d] = line[d]
          BY <2>0, <4>2, SendToAdds
        <5> QED
          BY <3>1, <4>2, <5>1 DEF WireType
      <4> QED
        BY <2>2, <4>1, <4>2
    <3>5. reaping' # NoIdent /\ reaping' # published'
            => shells'[reaping'][p] = "none" /\ NoSpawn(p, line'[reaping'].down)
      BY <2>1, <3>2, <3>4 DEF Gone, RestType
    <3> QED
      BY <3>2, <3>3, <3>4, <3>5 DEF Homed, Gone
  <2> QED
    BY <2>1, <2>3, <2>4, <2>5 DEF HomeOf, IsLive
<1>4. ASSUME NEW e \in Ident, ServerReceive(e) \/ PumpExit(e, p) PROVE HomeOf(p)'
  BY <1>4, HomeDevenv DEF DevenvNext
<1> QED
  BY <1>1, <1>2, <1>3, <1>4 DEF Turn

\* A container that is chosen for removal hosts no live session.
LEMMA HomeReap ==
    ASSUME HostType, NEW p \in Pty, HomeOf(p), NEW e \in Ident, Greeting(e), ReapDecide(e)
    PROVE  HomeOf(p)'
<1> USE DEF HostType
<1>1. UNCHANGED <<sess, shells, line, route, host, op, published>> /\ reaping' = e /\ ShouldReap(e)
  BY DEF ReapDecide, linkVars, managerVars
<1>2. \A d \in Ident : Listed(d, p)' <=> Listed(d, p)
  BY <1>1 DEF Listed
<1>3. ASSUME op[p].n = 1, IsLive(p) PROVE Homed(p)'
  <2>0. Homed(p)
    BY <1>3 DEF HomeOf
  <2>1. shells[e][p] = "none" /\ NoSpawn(p, line[e].down)
    <3>1. CASE box[e] = "stopped"
      <4>1. InMap(e) = {} /\ line[e].down = <<>>
        BY <3>1 DEF Greeting
      <4>2. NoSpawn(p, <<>>)
        BY DEF NoSpawn
      <4> QED
        BY <4>1, <4>2 DEF InMap
    <3>2. CASE Routable(e) /\ Hosted(e) = 0
      <4>1. IsFiniteSet({q \in Pty : host[q] = e})
        BY RowsAssumption, FS_Subset
      <4>2. {q \in Pty : host[q] = e} = {}
        BY <3>2, <4>1, FS_EmptySet DEF Hosted
      <4>3. host[p] # e
        BY <4>2
      <4> QED
        BY <2>0, <3>2, <4>3 DEF Homed, Routable
    <3> QED
      BY <1>1, <3>1, <3>2 DEF ShouldReap
  <2>2. Quiet(p)' <=> Quiet(p)
    BY <1>1 DEF Quiet
  <2> QED
    BY <1>1, <1>2, <2>0, <2>1, <2>2 DEF Homed
<1> QED
  BY <1>1, <1>2, <1>3 DEF HomeOf, IsLive

\* Every step of the shells' side keeps live sessions where the link believes
\* they are.
LEMMA HomeStep ==
    ASSUME HostType, NEW p \in Pty, LifeOf(p), HomeOf(p), \A d \in Ident : Greeting(d), ShellNext
    PROVE  HomeOf(p)'
<1> USE DEF HostType
<1>0. /\ shells \in [Ident -> [Pty -> {"none", "running", "ended"}]]
      /\ line \in [Ident -> Stream] /\ route \in [Ident -> {"none", "line", "stale"}]
  BY DEF RestType, WireType
<1>l. Lives(p)
  BY LifeStep
<1>t. CASE Turn(p)
  BY <1>l, <1>t, HomeTurn
<1>1. ASSUME NEW e \in Ident, DevenvNext(e) PROVE HomeOf(p)'
  BY <1>1, <1>l, HomeDevenv
<1>2. ASSUME Shrunk(p),
             \/ ApplyExited \/ ApplyConnected \/ BeatNext \/ EnsureCurrent \/ Publish
             \/ \E q \in Pty : \/ SpawnGranted(q) \/ UpgradeSpawn(q) \/ FinishDelete(q)
                              \/ StartSpawn(q) \/ SpawnTimeout(q) \/ UpgradeTimeout(q)
             \/ \E e \in Ident, q \in Pty : ShellExit(e, q)
      PROVE  HomeOf(p)'
  <2>1. UNCHANGED <<line, route, host, reaping>> /\ (reaping = NoIdent \/ UNCHANGED published)
    BY <1>2 DEF ApplyExited, ApplyConnected, BeatNext, TakeBeat, ApplyBeat, EnsureCurrent, Publish,
       SpawnGranted, UpgradeSpawn, FinishDelete, StartSpawn, SpawnTimeout, UpgradeTimeout, ShellExit,
       linkVars, launchVars
  <2>2. ListKeeps(p) /\ ReapKeeps
    BY <2>1 DEF ListKeeps, Listed, ReapKeeps
  <2> QED
    BY <1>2, <2>1, <2>2, RoutesAlone, HomeShrinks
<1>3. ASSUME Shrunk(p), NEW q \in Pty,
             StartUpgrade(q) \/ StartDelete(q) \/ (LinkSpawn(q) /\ q # p)
      PROVE  HomeOf(p)'
  <2>1. UNCHANGED <<route, reaping, published>> /\ host'[p] = host[p]
    BY <1>3 DEF StartUpgrade, StartDelete, LinkSpawn, launchVars, WireType
  <2>2. \A d \in Ident : line'[d].on = line[d].on /\ line'[d].up = line[d].up
    <3>1. CanSend(q) => host[q] \in Ident
      BY DEF CanSend, WireType
    <3>2. PICK d0 \in Ident, m \in Command : UNCHANGED line \/ line' = [line EXCEPT ![d0].down = Append(@, m)]
      <4>1. published \in Ident /\ op[q].n \in Nat
        BY HostAssumption DEF RestType, WireType, OpRec
      <4>2. [kind |-> "kill", p |-> q] \in Command /\ [kind |-> "spawn", p |-> q, n |-> op[q].n] \in Command
        BY <4>1, FrameTypes
      <4>3. CASE StartUpgrade(q) \/ StartDelete(q)
        BY <3>1, <4>1, <4>2, <4>3 DEF StartUpgrade, StartDelete, SendKill, SendTo
      <4>4. CASE LinkSpawn(q)
        BY <4>1, <4>2, <4>4 DEF LinkSpawn, SendTo
      <4> QED
        BY <1>3, <4>3, <4>4
    <3>3. CASE UNCHANGED line
      BY <3>3
    <3>4. CASE line' = [line EXCEPT ![d0].down = Append(@, m)]
      <4> DEFINE x == Append(line[d0].down, m)
      <4>1. x \in Seq(Command) /\ line' = [line EXCEPT ![d0].down = x]
        BY <1>0, <3>4 DEF Stream
      <4> HIDE DEF x
      <4>2. /\ line'[d0].up = line[d0].up /\ line'[d0].on = line[d0].on
            /\ \A d \in Ident \ {d0} : line'[d] = line[d]
        BY <1>0, <4>1, OneStream
      <4> QED
        BY <4>2
    <3> QED
      BY <3>2, <3>3, <3>4
  <2>3. ListKeeps(p)
    BY <2>2 DEF ListKeeps, Listed
  <2> QED
    BY <1>3, <2>1, <2>3, RoutesAlone, HomeShrinks DEF ReapKeeps
<1>4. ASSUME NEW q \in Pty, Shrunk(p), SpawnDenied(q) PROVE HomeOf(p)'
  <2>1. UNCHANGED <<line, route, reaping, published>> /\ (q # p => host'[p] = host[p])
    BY <1>4 DEF SpawnDenied, launchVars, WireType
  <2>2. q = p => ~IsLive(p)'
    BY <1>4 DEF SpawnDenied, AbandonUnspawned, EndLive, IsLive, RowsType, PtyRow
  <2>3. ListKeeps(p) /\ ReapKeeps
    BY <2>1 DEF ListKeeps, Listed, ReapKeeps
  <2> QED
    BY <1>4, <2>1, <2>2, <2>3, RoutesAlone, HomeShrinks
<1>5. ASSUME NEW e \in Ident, Shrunk(p), UNCHANGED host, ReapKeeps,
             \/ UNCHANGED <<line, route>>
             \/ \E k \in 0 .. Len(line[e].up) : BrokenAt(e, k)
      PROVE  HomeOf(p)'
  <2>1. \A d \in Ident : route'[d] # "none" => route[d] # "none"
    BY <1>0, <1>5 DEF BrokenAt
  <2>2. ListKeeps(p)
    <3>1. \A d \in Ident : line'[d] = line[d] \/ line'[d] = Closed
      BY <1>0, <1>5 DEF BrokenAt
    <3> QED
      BY <3>1 DEF ListKeeps, Listed, Closed
  <2> QED
    BY <1>5, <2>1, <2>2, RoutesAlone, HomeShrinks
<1>6. ASSUME NEW e \in Ident, Shrunk(p),
             StreamBreak(e) \/ ContainerDown(e, "up") \/ ContainerDown(e, "stopped")
      PROVE  HomeOf(p)'
  <2>1. UNCHANGED <<host, reaping, published>>
    BY <1>6 DEF StreamBreak, ContainerDown, launchVars
  <2>2. UNCHANGED <<line, route>> \/ \E k \in 0 .. Len(line[e].up) : BrokenAt(e, k)
    BY <1>6 DEF StreamBreak, ContainerDown
  <2> QED
    BY <1>5, <1>6, <2>1, <2>2 DEF ReapKeeps
<1>7. ASSUME Shrunk(p), Reap PROVE HomeOf(p)'
  <2>0. reaping \in Ident
    BY <1>7 DEF Reap, RestType
  <2>1. Len(line[reaping].up) \in 0 .. Len(line[reaping].up)
    BY <1>0, <2>0 DEF Stream
  <2>2. UNCHANGED <<line, route>> \/ \E k \in 0 .. Len(line[reaping].up) : BrokenAt(reaping, k)
    BY <1>7, <2>1 DEF Reap
  <2>3. UNCHANGED host /\ reaping' = NoIdent
    BY <1>7 DEF Reap
  <2> QED
    BY <1>5, <1>7, <2>0, <2>2, <2>3 DEF ReapKeeps
<1>8. ASSUME Shrunk(p), Restart PROVE HomeOf(p)'
  <2>1. /\ reaping' = NoIdent /\ \A d \in Ident : line'[d] = Closed /\ route'[d] = "none"
    BY <1>8 DEF Restart
  <2>2. \A d \in Ident : ~Listed(d, p)' /\ line'[d].down = <<>>
    BY <2>1 DEF Listed, Closed
  <2>3. NoSpawn(p, <<>>)
    BY DEF NoSpawn
  <2> QED
    BY <2>1, <2>2, <2>3 DEF HomeOf, Homed
<1>9. ASSUME NEW e \in Ident, ReapDecide(e) PROVE HomeOf(p)'
  BY <1>9, HomeReap
<1>10. ASSUME NEW q \in Pty, LinkSpawn(q), q = p PROVE HomeOf(p)'
  BY <1>10, <1>l, HomeTurn DEF Turn
<1> QED
  BY <1>l, <1>t, <1>1, <1>2, <1>3, <1>4, <1>6, <1>7, <1>8, <1>9, <1>10
     DEF ShellNext, ManagerNext, SpawnStep, Lives

-----------------------------------------------------------------------------
(* Both together.  Each part keeps its invariant by its own steps, and the *)
(* other leaves it alone but for the rows' types.                          *)

FleetIInv ==
    /\ focus \in {"registry", "shells"}
    /\ NodeInv /\ HostType
    /\ focus = "shells" => /\ \A d \in Ident : Greeting(d)
                           /\ \A p \in Pty : LifeOf(p) /\ HomeOf(p)
    /\ focus = "registry" => \A p \in Pty : Gone(p)

\* The initial state, in either focus.
LEMMA FleetInit == Init => FleetIInv
<1> SUFFICES ASSUME Init PROVE FleetIInv
  OBVIOUS
<1>1. ActiveHasTask
  BY DEF Init, NodeInit, ActiveHasTask
<1>2. PICK k \in Key :
        /\ node = [key |-> k, pending |-> NoKey, boot |-> 0, conn |-> NoConn,
                   state |-> "enrolled", late |-> FALSE]
        /\ client = [boot |-> 1, key |-> k, conn |-> NoConn, hosted |-> {}]
  BY ControlAssumption DEF Init, NodeInit
<1>3. node \in NodeRow /\ client \in Client
  BY <1>2, RowsAssumption DEF NodeRow, Client
<1>4. sess \in [Pty -> PtyRow] /\ \A p \in Pty : sess[p].state = "none"
  BY RowsAssumption DEF Init, NodeInit, InitRows, NoRow, PtyRow, PtyState
<1>5. sock \in [Conn -> Socket]
  BY RowsAssumption DEF Init, NodeInit, FreeSocket, Socket, Phase
<1>6. /\ active = NoConn /\ sample = NoConn /\ expiring = NoConn /\ approved = FALSE
      /\ faults = 0 /\ focus \in {"registry", "shells"}
  BY DEF Init, NodeInit
<1>7. /\ active \in Conn \cup {NoConn} /\ sample \in Conn \cup {NoConn}
      /\ expiring \in Conn \cup {NoConn} /\ approved \in BOOLEAN
  BY <1>6
<1>8. faults \in 0 .. MaxFaults
  BY <1>6, ControlAssumption
<1>9. NodeInv
  BY <1>1, <1>3, <1>4, <1>5, <1>7, <1>8 DEF NodeInv, NodeTypeOK
<1>10. Closed \in Stream /\ NoStream \in Rest /\ NoOp \in OpRec
  BY HostAssumption DEF Closed, Stream, NoStream, Rest, NoOp, OpRec, OpStep
<1>11. WireType
  BY <1>10 DEF Init, ShellInit, WireType
<1>12. NoBeat \in [on : BOOLEAN, inv : SUBSET Pty] /\ Old \in Ident
       /\ 1 \in 1 .. MaxBoot /\ 0 \in 0 .. MaxBreaks
  BY RowsAssumption, HostAssumption DEF NoBeat, Ident
<1>13. RestType
  BY <1>12 DEF Init, ShellInit, RestType
<1>14. \A p \in Pty : Gone(p)
  BY DEF Init, ShellInit, Gone
<1>15. ASSUME NEW p \in Pty PROVE LifeOf(p)
  <2>1. op[p].n = 0 /\ op[p].step = "idle" /\ handle[p] = NoIdent /\ deleting = {} /\ events = <<>>
    BY DEF Init, ShellInit, NoOp
  <2>2. \A d \in Ident : line[d].up = <<>> /\ line[d].down = <<>> /\ stale[d].up = <<>>
    BY DEF Init, ShellInit, Closed, NoStream
  <2>3. NoSpawn(p, <<>>) /\ ~InSeq(Exited(p), <<>>)
    BY DEF NoSpawn, InSeq
  <2>4. Quiet(p) /\ ~Reported(p)
    BY <2>1, <2>2, <2>3 DEF Quiet, Reported
  <2>5. Unborn(p)
    BY <1>4, <1>14, <2>1, <2>4 DEF Unborn
  <2> QED
    BY <2>1, <2>5 DEF LifeOf
<1>16. ASSUME NEW d \in Ident PROVE Greeting(d) /\ ~(line[d].on = "dialed")
  <2>1. /\ line[d].on = "off" /\ line[d].up = <<>> /\ line[d].down = <<>> /\ stale[d].up = <<>>
        /\ route[d] = "none"
    BY DEF Init, ShellInit, Closed, NoStream
  <2>2. NoHello(<<>>) /\ InMap(d) = {}
    BY <1>14 DEF NoHello, InMap, Gone
  <2> QED
    BY <2>1, <2>2 DEF Greeting
<1>17. \A p \in Pty : HomeOf(p)
  BY <1>4, <1>16 DEF HomeOf, Listed, IsLive
<1> QED
  BY <1>4, <1>6, <1>9, <1>11, <1>13, <1>14, <1>15, <1>16, <1>17 DEF FleetIInv, HostType, RowsType

\* A step of either part, or none.
LEMMA FleetInductive == FleetIInv /\ [Next]_fleetVars => FleetIInv'
<1> SUFFICES ASSUME FleetIInv, [Next]_fleetVars PROVE FleetIInv'
  OBVIOUS
<1>1. CASE /\ focus = "registry" /\ NodeNext
           /\ UNCHANGED <<focus, shells, linkVars, launchVars, managerVars, boot, beat, breaks>>
  <2>1. NodeInv'
    BY <1>1, RegistryStep DEF FleetIInv
  <2>2. sess' \in [Pty -> PtyRow]
    BY <2>1 DEF NodeInv, NodeTypeOK
  <2>3. HostType'
    BY <1>1, <2>2 DEF FleetIInv, HostType, RowsType, WireType, RestType, linkVars, launchVars, managerVars
  <2>4. focus' = "registry" /\ \A p \in Pty : Gone(p)'
    BY <1>1 DEF FleetIInv, Gone
  <2> QED
    BY <2>1, <2>3, <2>4 DEF FleetIInv
<1>2. CASE focus = "shells" /\ ShellNext /\ UNCHANGED <<focus, controlVars>>
  <2>1. HostType'
    BY <1>2, HostTypeStep DEF FleetIInv
  <2>2. sess' \in [Pty -> PtyRow]
    BY <2>1 DEF HostType, RowsType
  <2>3. NodeInv'
    BY <1>2, <2>2 DEF FleetIInv, NodeInv, NodeTypeOK, ActiveHasTask, controlVars
  <2>4. \A p \in Pty : LifeOf(p)' /\ HomeOf(p)'
    BY <1>2, LifeStep, HomeStep DEF FleetIInv, Lives
  <2>5. \A d \in Ident : Greeting(d)'
    BY <1>2, GreetingStep DEF FleetIInv
  <2> QED
    BY <1>2, <2>1, <2>3, <2>4, <2>5 DEF FleetIInv
<1>3. CASE UNCHANGED fleetVars
  <2>1. UNCHANGED <<focus, sess, controlVars>> /\ UNCHANGED <<shells, linkVars, launchVars, managerVars>>
        /\ UNCHANGED <<boot, beat, breaks>>
    BY <1>3 DEF fleetVars, shellVars
  <2>2. NodeInv'
    BY <2>1 DEF FleetIInv, NodeInv, NodeTypeOK, ActiveHasTask, controlVars
  <2>3. HostType'
    BY <2>1 DEF FleetIInv, HostType, RowsType, WireType, RestType, linkVars, launchVars, managerVars
  <2>4. ASSUME NEW p \in Pty PROVE (Gone(p) => Gone(p)') /\ (LifeOf(p) => LifeOf(p)')
    <3>1. UNCHANGED <<sess, shells, line, stale, handle, events, op, deleting>>
      BY <2>1 DEF linkVars, managerVars
    <3> QED
      BY <3>1, LeftAlone, LifeShrinks DEF Gone, Lives
  <2>5. UNCHANGED <<line, stale, route, box, host, reaping, published, sess, shells, op>>
    BY <2>1 DEF linkVars, launchVars, managerVars
  <2>6. ASSUME NEW d \in Ident PROVE Greeting(d) => Greeting(d)'
    BY <2>5 DEF Greeting, InMap
  <2>7. ASSUME NEW p \in Pty PROVE HomeOf(p) => HomeOf(p)'
    BY <2>5 DEF HomeOf, Homed, Listed, Quiet, IsLive
  <2> QED
    BY <2>1, <2>2, <2>3, <2>4, <2>6, <2>7 DEF FleetIInv
<1> QED
  BY <1>1, <1>2, <1>3 DEF Next

\* For any number of sessions, connections, keys, boots, spawns and faults,
\* every variable of the fleet keeps its type.
THEOREM FleetIsTyped == Spec => []FleetTypeOK
<1>1. FleetIInv => FleetTypeOK
  <2> SUFFICES ASSUME FleetIInv PROVE ShellTypeOK
    BY DEF FleetIInv, NodeInv, FleetTypeOK
  <2>1. \A d \in Ident : line[d].on \in {"off", "dialed", "greeted"} /\ stale[d].on \in BOOLEAN
    BY DEF FleetIInv, HostType, WireType, Stream, Rest
  <2>2. op \in [Pty -> [step : OpStep, at : Ident \cup {NoIdent}, n : 0 .. MaxSpawns]]
    BY DEF FleetIInv, HostType, WireType, OpRec
  <2> QED
    BY <2>1, <2>2 DEF FleetIInv, HostType, RowsType, WireType, RestType, ShellTypeOK
<1> QED
  BY <1>1, FleetInit, FleetInductive, PTL DEF Spec

\* However hellos, exits, heartbeats, breaks, crashes and restarts interleave,
\* a row is marked dead only once the shell it names ended: until an upgrade,
\* no exit is reported before the shell has left every devenv's map and while
\* a spawn could still start it (pty.rs mark_dead, devenv/link.rs).
THEOREM DeadRowsHaveNoShell == Spec => []DeadMeansExited
<1>1. FleetIInv => DeadMeansExited
  <2> SUFFICES ASSUME FleetIInv, NEW p \in Pty, sess[p].state = "dead", op[p].n = 1,
                      NEW d \in Ident, shells[d][p] = "running"
               PROVE  FALSE
    BY DEF DeadMeansExited, FirstShell, Running
  <2>1. ~Gone(p)
    BY DEF Gone
  <2>2. OneLife(p)
    BY <2>1 DEF FleetIInv, LifeOf
  <2> QED
    BY <2>1, <2>2 DEF OneLife
<1> QED
  BY <1>1, FleetInit, FleetInductive, PTL DEF Spec

\* Removing an emptied container takes no live session with it, whatever breaks
\* between the decision and the removal: until an upgrade the routes the count
\* is taken from name every devenv that holds, or may still start, a live
\* session's shell (devenv/launcher.rs reap_emptied_containers).
THEOREM ReapIsSafe == Spec => ReapSparesShells
<1>1. FleetIInv /\ [Next]_fleetVars =>
        [\A p \in Pty :
            Reap /\ reaping # published /\ shells[reaping][p] = "running" /\ FirstShell(p)
               => handle[p] # reaping \/ ~IsLive(p)]_shellVars
  <2> SUFFICES ASSUME FleetIInv, NEW p \in Pty, Reap, reaping # published,
                      shells[reaping][p] = "running", op[p].n = 1, IsLive(p)
               PROVE  FALSE
    BY DEF FirstShell
  <2>1. reaping \in Ident
    BY DEF Reap, FleetIInv, HostType, RestType
  <2>2. Homed(p)
    BY <2>1 DEF FleetIInv, HomeOf, Gone
  <2> QED
    BY <2>1, <2>2, HostAssumption DEF Homed
<1> QED
  BY <1>1, FleetInit, FleetInductive, PTL DEF Spec, ReapSparesShells

\* For any number of connections, keys and faults: a connection in the active
\* map always has a task that serves it, and no teardown of a connection that
\* was replaced takes its successor's row (node_protocol/mod.rs register,
\* disconnected; node_protocol/store.rs disconnect).
THEOREM RegistryIsSafe == Spec => RegistryHolds
<1>1. FleetIInv => ActiveHasTask
  BY DEF FleetIInv, NodeInv
<1>2. FleetIInv /\ [Next]_fleetVars =>
        [\A c \in Conn : node.conn = c /\ node'.conn = NoConn
             => \/ sock[c].phase = "left"
                \/ node.late
                \/ node'.key # node.key \/ node'.pending # node.pending]_nodeVars
  <2> SUFFICES ASSUME FleetIInv, [Next]_fleetVars, NEW c \in Conn,
                      node.conn = c, node'.conn = NoConn
               PROVE  \/ sock[c].phase = "left"
                      \/ node.late
                      \/ node'.key # node.key \/ node'.pending # node.pending
    OBVIOUS
  <2>1. node' # node
    BY ControlAssumption
  <2>2. focus = "registry" /\ NodeNext
    BY <2>1 DEF Next, fleetVars, controlVars
  <2> QED
    BY <2>2, TeardownStep DEF FleetIInv
<1> QED
  BY <1>1, <1>2, FleetInit, FleetInductive, PTL DEF Spec, RegistryHolds, LateTeardownIsHarmless

=============================================================================
