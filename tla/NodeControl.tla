----------------------------- MODULE NodeControl -----------------------------
(***************************************************************************)
(* Control's registry of the development node: the dev_nodes row, the      *)
(* in-memory map of active connections, and the task of every socket the   *)
(* node opens.  The row and the map are written in separate steps, by      *)
(* tasks of connections that may already have been replaced; the           *)
(* connection id is what tells a live owner from a late one.               *)
(*                                                                         *)
(* A socket's task goes through the phases                                 *)
(*   hello -> recorded -> open (-> beat -> stored -> open)* -> left -> free *)
(* and each phase change is one step between two awaits.  Time is the flag *)
(* `late`: last_heartbeat_at is older than the timeout.                    *)
(***************************************************************************)
EXTENDS SessionRows

CONSTANTS
    Conn,       \* connection ids; one is used again once nothing refers to it
    NoConn,     \* no connection
    Key,        \* public keys a node may hold
    NoKey,      \* no key
    MaxFaults   \* bound: dropped sockets, restarts, new keys, slow heartbeats

ASSUME ControlAssumption ==
    /\ NoConn \notin Conn /\ NoKey \notin Key
    /\ IsFiniteSet(Conn) /\ Key # {} /\ MaxFaults \in Nat

VARIABLES
    node,       \* the dev_nodes row
    active,     \* NodeControl.active: the connection registered for the node
    sample,     \* NodeControl.host_stats and devenv_status: the connection it came from
    sock,       \* the task of each socket
    expiring,   \* what expire_heartbeats returned and the map has not seen yet
    approved,   \* an approval is recorded and cancel_active has not run yet
    client,     \* the node process
    faults

controlVars == <<node, active, sample, sock, expiring, approved, client, faults>>
nodeVars == <<sess, controlVars>>

NodeRow == [key : Key \cup {NoKey}, pending : Key \cup {NoKey},
            boot : 0 .. MaxBoot, conn : Conn \cup {NoConn},
            state : {"pending", "enrolled", "connected", "disconnected"}, late : BOOLEAN]

Phase == {"free", "hello", "recorded", "open", "beat", "stored", "left"}

\* `known`: the key was the approved one when the hello was checked; `peer`: the node still holds its end; `wire`: the inventories of the
\* heartbeats on their way; `beat`: the one being handled.
Socket == [phase : Phase, boot : 0 .. MaxBoot, key : Key \cup {NoKey}, known : BOOLEAN,
           canceled : BOOLEAN, peer : BOOLEAN,
           wire : {<<>>} \cup {<<l>> : l \in SUBSET Pty}, beat : SUBSET Pty]

\* The node process: its boot, its key, its connection and the sessions its
\* PtyManager has a handle of.
Client == [boot : 1 .. MaxBoot, key : Key, conn : Conn \cup {NoConn}, hosted : SUBSET Pty]

FreeSocket == [phase |-> "free", boot |-> 0, key |-> NoKey, known |-> FALSE, canceled |-> FALSE,
               peer |-> FALSE, wire |-> <<>>, beat |-> {}]

NodeTypeOK ==
    /\ sess \in [Pty -> PtyRow]
    /\ node \in NodeRow
    /\ active \in Conn \cup {NoConn}
    /\ sample \in Conn \cup {NoConn}
    /\ sock \in [Conn -> Socket]
    /\ expiring \in Conn \cup {NoConn}
    /\ approved \in BOOLEAN
    /\ client \in Client
    /\ faults \in 0 .. MaxFaults

\* A paired node that is not connected.
NodeInit ==
    /\ InitRows
    /\ LET k == CHOOSE any \in Key : TRUE
       IN /\ node = [key |-> k, pending |-> NoKey, boot |-> 0, conn |-> NoConn,
                     state |-> "enrolled", late |-> FALSE]
          /\ client = [boot |-> 1, key |-> k, conn |-> NoConn, hosted |-> {}]
    /\ active = NoConn
    /\ sample = NoConn
    /\ sock = [c \in Conn |-> FreeSocket]
    /\ expiring = NoConn
    /\ approved = FALSE
    /\ faults = 0

NodeFault == faults < MaxFaults /\ faults' = faults + 1

-----------------------------------------------------------------------------
(* The handshake.                                                          *)

Unreferenced(c) ==
    /\ sock[c].phase = "free"
    /\ c \notin {active, sample, expiring, node.conn, client.conn}

\* The next id: uuids are never in order, so any unused one stands for all.
FreshConn(c) == Unreferenced(c) /\ c = CHOOSE d \in Conn : Unreferenced(d)

\* The node dials, answers the challenge with a signed hello, and
\* authenticate_and_register reads the credential it is checked against.
Dial(c) ==
    /\ client.conn = NoConn
    /\ FreshConn(c)
    /\ client' = [client EXCEPT !.conn = c]
    /\ sock' = [sock EXCEPT ![c] = [FreeSocket EXCEPT
                   !.phase = "hello", !.boot = client.boot, !.peer = TRUE,
                   !.key = client.key, !.known = (node.key = client.key)]]
    /\ UNCHANGED <<approved, sess, node, active, sample, expiring, faults>>

\* A key that is not the approved one is offered for approval, and refused.
RequestPairing(c) ==
    /\ sock[c].phase = "hello"
    /\ ~sock[c].known
    /\ node' = [node EXCEPT !.pending = sock[c].key,
                            !.state = IF node.key = NoKey THEN "pending" ELSE @]
    /\ sock' = [sock EXCEPT ![c] = FreeSocket]
    /\ client' = [client EXCEPT !.conn = IF @ = c THEN NoConn ELSE @]
    /\ UNCHANGED <<approved, sess, active, sample, expiring, faults>>

\* store.record_connection: the row names the connection before the map does.
RecordConnection(c) ==
    /\ sock[c].phase = "hello"
    /\ sock[c].known
    /\ node' = [node EXCEPT !.boot = sock[c].boot, !.conn = c,
                            !.state = "connected", !.late = FALSE]
    /\ sock' = [sock EXCEPT ![c].phase = "recorded"]
    /\ UNCHANGED <<approved, sess, active, sample, expiring, client, faults>>

\* register: the map takes the new connection and the one it held is canceled.
Superseding(c) ==
    [d \in Conn |-> IF d = c THEN [sock[d] EXCEPT !.phase = "open"]
                    ELSE IF d = active THEN [sock[d] EXCEPT !.canceled = TRUE]
                    ELSE sock[d]]

Register(c) ==
    /\ sock[c].phase = "recorded"
    /\ sock' = Superseding(c)
    /\ active' = c
    /\ UNCHANGED <<approved, sess, node, sample, expiring, client, faults>>

-----------------------------------------------------------------------------
(* The open connection.                                                    *)

\* The node's heartbeat tick: the sessions it has a handle of, as a complete
\* inventory.
SendHeartbeat(c) ==
    /\ client.conn = c
    /\ sock[c].phase \in {"open", "beat", "stored"}
    /\ sock[c].peer /\ sock[c].wire = <<>>
    /\ sock' = [sock EXCEPT ![c].wire = <<client.hosted>>]
    /\ UNCHANGED <<approved, sess, node, active, sample, expiring, client, faults>>

\* run_connection ends: the socket closes, at the node's end too.
EndSocket(c) == [sock EXCEPT ![c].phase = "left", ![c].peer = FALSE, ![c].wire = <<>>,
                             ![c].canceled = FALSE]
Hangup(c) == client' = [client EXCEPT !.conn = IF @ = c THEN NoConn ELSE @]

\* NodeControl.disconnected, under the map's lock: the entry and the sample
\* go only when they are still this connection's.
Unregister(c) ==
    /\ active' = IF active = c THEN NoConn ELSE active
    /\ sample' = IF active = c THEN NoConn ELSE sample

\* receive_envelope: validate_active, for a message of the connection's boot.
TakeHeartbeat(c) ==
    /\ sock[c].phase = "open"
    /\ sock[c].wire # <<>>
    /\ IF active = c
       THEN /\ sock' = [sock EXCEPT ![c].phase = "beat", ![c].wire = <<>>,
                                    ![c].beat = sock[c].wire[1]]
            /\ UNCHANGED <<active, sample, client>>
       ELSE sock' = EndSocket(c) /\ Hangup(c) /\ Unregister(c)
    /\ UNCHANGED <<approved, sess, node, expiring, faults>>

\* store.heartbeat: nothing is written unless the row still names this
\* connection of this boot; a refusal closes the socket.
RowNames(c) == node.conn = c /\ node.boot = sock[c].boot

\* Mutant: a refused heartbeat leaves the socket open.
StoreHeartbeatTolerant(c) ==
    /\ sock[c].phase = "beat"
    /\ IF RowNames(c)
       THEN /\ node' = [node EXCEPT !.state = "connected", !.late = FALSE]
            /\ sess' = HeartbeatRows(sock[c].boot, sock[c].beat)
       ELSE UNCHANGED <<sess, node>>
    /\ sock' = [sock EXCEPT ![c].phase = "stored", ![c].beat = {}]
    /\ UNCHANGED <<active, sample, client, approved, expiring, faults>>

StoreHeartbeat(c) ==
    /\ sock[c].phase = "beat"
    /\ IF RowNames(c)
       THEN /\ node' = [node EXCEPT !.state = "connected", !.late = FALSE]
            /\ sess' = HeartbeatRows(sock[c].boot, sock[c].beat)
            /\ sock' = [sock EXCEPT ![c].phase = "stored", ![c].beat = {}]
            /\ UNCHANGED <<active, sample, client>>
       ELSE /\ sock' = [EndSocket(c) EXCEPT ![c].beat = {}] /\ Hangup(c) /\ Unregister(c)
            /\ UNCHANGED <<sess, node>>
    /\ UNCHANGED <<approved, expiring, faults>>

\* The machine sample and the devenv report are kept last, without another look.
KeepSample(c) ==
    /\ sock[c].phase = "stored"
    /\ sample' = c
    /\ sock' = [sock EXCEPT ![c].phase = "open"]
    /\ UNCHANGED <<approved, sess, node, active, expiring, client, faults>>

\* The loop sees its cancel flag, or the end of the socket.
Leave(c) ==
    /\ sock[c].phase = "open"
    /\ sock[c].canceled \/ ~sock[c].peer
    /\ sock' = EndSocket(c)
    /\ Hangup(c)
    /\ Unregister(c)
    /\ UNCHANGED <<approved, sess, node, expiring, faults>>

\* Mutant: a teardown that trusts the boot id alone.
RecordDisconnectOfBoot(c) ==
    /\ sock[c].phase = "left"
    /\ node.boot = sock[c].boot
    /\ node' = [node EXCEPT !.state = "disconnected", !.conn = NoConn]
    /\ sess' = DisconnectBoot(sock[c].boot)
    /\ sock' = [sock EXCEPT ![c] = FreeSocket]
    /\ UNCHANGED <<approved, active, sample, expiring, client, faults>>

\* store.disconnect, after the map: only the connection the row still names.
RecordDisconnect(c) ==
    /\ sock[c].phase = "left"
    /\ IF RowNames(c)
       THEN /\ node' = [node EXCEPT !.state = "disconnected", !.conn = NoConn]
            /\ sess' = DisconnectBoot(sock[c].boot)
       ELSE UNCHANGED <<node, sess>>
    /\ sock' = [sock EXCEPT ![c] = FreeSocket]
    /\ UNCHANGED <<approved, active, sample, expiring, client, faults>>

-----------------------------------------------------------------------------
(* The heartbeat monitor and the operator.                                 *)

\* store.expire_heartbeats: one transaction over the rows that are late.
ExpireRow ==
    /\ expiring = NoConn
    /\ node.state = "connected" /\ node.late /\ node.conn # NoConn
    /\ node' = [node EXCEPT !.state = "disconnected", !.conn = NoConn]
    /\ sess' = DisconnectBoot(node.boot)
    /\ expiring' = node.conn
    /\ UNCHANGED <<approved, active, sample, sock, client, faults>>

\* expire_heartbeats_at, then: cancel the connection if the map still has it.
ExpireActive ==
    /\ expiring # NoConn
    /\ expiring' = NoConn
    /\ IF active = expiring
       THEN active' = NoConn /\ sock' = [sock EXCEPT ![expiring].canceled = TRUE]
       ELSE UNCHANGED <<active, sock>>
    /\ UNCHANGED <<approved, sess, node, sample, client, faults>>

\* approve_pairing: the row first, then cancel_active.
ApprovePairing ==
    /\ node.pending # NoKey
    /\ node' = [node EXCEPT !.key = node.pending, !.pending = NoKey,
                            !.conn = NoConn, !.state = "enrolled"]
    /\ sess' = MarkSessionsDisconnected
    /\ approved' = TRUE
    /\ UNCHANGED <<active, sample, sock, expiring, client, faults>>

CancelActive ==
    /\ approved
    /\ approved' = FALSE
    /\ IF active = NoConn
       THEN UNCHANGED <<active, sample, sock>>
       ELSE /\ active' = NoConn
            /\ sample' = NoConn
            /\ sock' = [sock EXCEPT ![active].canceled = TRUE]
    /\ UNCHANGED <<sess, node, expiring, client, faults>>

-----------------------------------------------------------------------------
(* The node process and its faults.                                        *)

\* A shell starts, or exits and is reported.  ShellHost has the steps.
NodeSpawn(p) ==
    /\ p \notin client.hosted /\ CanPersist(p)
    /\ sess[p].state = "none"
    /\ sess' = PersistSpawn(p, client.boot)
    /\ client' = [client EXCEPT !.hosted = @ \cup {p}]
    /\ UNCHANGED <<approved, node, active, sample, sock, expiring, faults>>

NodeExit(p) ==
    /\ p \in client.hosted
    /\ sess' = MarkDead(p)
    /\ client' = [client EXCEPT !.hosted = @ \ {p}]
    /\ UNCHANGED <<approved, node, active, sample, sock, expiring, faults>>

\* The node loses its end: the next dial may come before control notices.
DropSocket ==
    /\ client.conn # NoConn
    /\ NodeFault
    /\ sock' = [sock EXCEPT ![client.conn].peer = FALSE]
    /\ client' = [client EXCEPT !.conn = NoConn]
    /\ UNCHANGED <<approved, sess, node, active, sample, expiring>>

\* The process restarts; the sessions its devenv still hosts come back.
NodeRestart ==
    /\ NodeFault
    /\ client.boot < MaxBoot
    /\ sock' = IF client.conn = NoConn THEN sock
               ELSE [sock EXCEPT ![client.conn].peer = FALSE]
    /\ \E kept \in SUBSET client.hosted :
          client' = [client EXCEPT !.boot = @ + 1, !.conn = NoConn, !.hosted = kept]
    /\ UNCHANGED <<approved, sess, node, active, sample, expiring>>

\* The node is reinstalled and holds a key nobody approved.
NodeRekey ==
    /\ client.conn = NoConn
    /\ NodeFault
    /\ \E k \in Key \ {client.key} : client' = [client EXCEPT !.key = k]
    /\ UNCHANGED <<approved, sess, node, active, sample, sock, expiring>>

\* The timeout passes without a heartbeat: inevitable once the node's end is
\* gone, an accident otherwise.
GoLate ==
    /\ node.state = "connected" /\ node.conn # NoConn /\ ~node.late
    /\ node' = [node EXCEPT !.late = TRUE]
    /\ IF sock[node.conn].peer THEN NodeFault ELSE UNCHANGED faults
    /\ UNCHANGED <<approved, sess, active, sample, sock, expiring, client>>

SocketNext(c) ==
    \/ Dial(c) \/ RequestPairing(c) \/ RecordConnection(c) \/ Register(c)
    \/ SendHeartbeat(c) \/ TakeHeartbeat(c) \/ StoreHeartbeat(c) \/ KeepSample(c)
    \/ Leave(c) \/ RecordDisconnect(c)

NodeNext ==
    \/ \E c \in Conn : SocketNext(c)
    \/ \E p \in Pty : NodeSpawn(p) \/ NodeExit(p)
    \/ ExpireRow \/ ExpireActive \/ ApprovePairing \/ CancelActive
    \/ DropSocket \/ NodeRestart \/ NodeRekey \/ GoLate

\* Every socket task, the node's redial and heartbeat timers and the monitor
\* keep running; nobody is obliged to approve a key or to start a shell.
NodeFairness ==
    /\ \A c \in Conn : WF_nodeVars(SocketNext(c))
    /\ WF_nodeVars(ExpireRow)
    /\ WF_nodeVars(ExpireActive)
    /\ WF_nodeVars(CancelActive)
    /\ WF_nodeVars(GoLate /\ ~sock[node.conn].peer)

-----------------------------------------------------------------------------
(* Properties.                                                             *)

\* A step that ends the recorded connection is a step of that connection, of
\* the monitor, of an operator's approval, or of a newer one taking its place:
\* the teardown of a connection that was replaced never takes the node offline.
LateTeardownIsHarmless ==
    [][\A c \in Conn :
          node.conn = c /\ node'.conn = NoConn
             => \/ sock[c].phase = "left"
                \/ node.late
                \/ node'.key # node.key \/ node'.pending # node.pending]_nodeVars

\* The map never keeps a connection whose task has gone: what control sends
\* always has a task that would forward it, or fail.
ActiveHasTask ==
    active # NoConn => sock[active].phase \in {"open", "beat", "stored"}

\* Two registrations that cross leave the row and the map on different
\* connections.  No such disagreement lasts: once the faults are over, the row
\* and the map name the node's own connection for good, and every session it
\* hosts is in reach and on its boot (or the node waits for an approval).
SettledOnOneConnection ==
    <>[](\/ node.key # client.key
         \/ /\ client.conn # NoConn
            /\ active = client.conn /\ node.conn = client.conn
            /\ node.state = "connected"
            /\ \A p \in client.hosted : IsLive(p) =>
                  sess[p].boot = client.boot /\ ~sess[p].disc)

=============================================================================
