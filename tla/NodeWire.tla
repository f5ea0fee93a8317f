------------------------------ MODULE NodeWire ------------------------------
(***************************************************************************)
(* Requests and keystrokes from control to the node, and the results back, *)
(* over one websocket.  An envelope too large for a frame travels as       *)
(* fragments; the node's read loop puts it together, types terminal input  *)
(* inline and runs every request in a task of its own.  A caller waits in  *)
(* request_waiters for a bounded time.                                     *)
(***************************************************************************)
EXTENDS Naturals, Sequences, FiniteSets

CONSTANTS
    Req,        \* request ids, one per call of NodeControl.request
    MaxInput,   \* bound: terminal.input envelopes
    MaxParts    \* MAX_FRAGMENTS_PER_MESSAGE; a larger message cannot be sent

ASSUME WireAssumption == IsFiniteSet(Req) /\ MaxInput \in Nat /\ MaxParts \in Nat \ {0}

VARIABLES
    up,         \* the connection is registered and its socket open
    outbound,   \* ActiveConnection.outbound: envelopes not yet written
    wire,       \* frames on the socket, control to node
    groups,     \* FragmentAssembler.groups at the node: parts held per message
    tasks,      \* requests the node executes
    ptyIn,      \* the inputs the PTY has received, in order
    results,    \* request.result envelopes, node to control
    waiters,    \* NodeControl.request_waiters
    caller,     \* what each caller of request() has
    typed       \* inputs control has sent

wireState == <<up, outbound, wire, groups, tasks, ptyIn, results, waiters, caller, typed>>

\* An envelope: a request or an input, and the fragments it takes.
Envelope == [kind : {"request", "input"}, id : Req \cup (1 .. MaxInput), parts : 1 .. MaxParts + 1]
\* Mutant: fragments are numbered from one.
FrameFromOne(e, i) == [e |-> e, index |-> i + 1]

Frame(e, i) == [e |-> e, index |-> i]

Outcome == {"idle", "waiting", "answered", "timeout", "unavailable"}

WireTypeOK ==
    /\ up \in BOOLEAN
    /\ outbound \in Seq(Envelope)
    /\ \A i \in DOMAIN wire : wire[i].e \in Envelope /\ wire[i].index < wire[i].e.parts
    /\ \A g \in groups : g.e \in Envelope /\ g.have \subseteq 0 .. g.e.parts - 1
    /\ tasks \subseteq Req /\ waiters \subseteq Req
    /\ caller \in [Req -> Outcome]
    /\ typed \in 0 .. MaxInput

WireInit ==
    /\ up = TRUE /\ outbound = <<>> /\ wire = <<>> /\ groups = {} /\ tasks = {}
    /\ ptyIn = <<>> /\ results = <<>> /\ waiters = {} /\ typed = 0
    /\ caller = [r \in Req |-> "idle"]

-----------------------------------------------------------------------------
(* Control.                                                                *)

\* NodeControl.request: the waiter is in the map before the envelope is sent,
\* and out of it again when there is no connection to send it on.
CallNode(r) ==
    /\ caller[r] = "idle"
    /\ IF up
       THEN /\ caller' = [caller EXCEPT ![r] = "waiting"]
            /\ waiters' = waiters \cup {r}
            /\ \E n \in 1 .. MaxParts + 1 :
                  outbound' = Append(outbound, [kind |-> "request", id |-> r, parts |-> n])
       ELSE /\ caller' = [caller EXCEPT ![r] = "unavailable"]
            /\ UNCHANGED <<waiters, outbound>>
    /\ UNCHANGED <<up, wire, groups, tasks, ptyIn, results, typed>>

\* TerminalSender.send_input
SendInput ==
    /\ up /\ typed < MaxInput
    /\ typed' = typed + 1
    /\ \E n \in 1 .. MaxParts :
          outbound' = Append(outbound, [kind |-> "input", id |-> typed + 1, parts |-> n])
    /\ UNCHANGED <<up, wire, groups, tasks, ptyIn, results, waiters, caller>>

\* The end of the connection takes everything on it; waiters are not told.
DropAll == /\ up' = FALSE /\ outbound' = <<>> /\ wire' = <<>> /\ groups' = {} /\ results' = <<>>

\* fragment_envelope, then every frame in order; a message that needs too many
\* fragments is an error, and an error of the sender ends the connection.
WriteEnvelope ==
    /\ up /\ outbound # <<>>
    /\ LET e == Head(outbound)
       IN IF e.parts > MaxParts
          THEN DropAll
          ELSE /\ outbound' = Tail(outbound)
               /\ wire' = wire \o [i \in 1 .. e.parts |-> Frame(e, i - 1)]
               /\ UNCHANGED <<up, groups, results>>
    /\ UNCHANGED <<tasks, ptyIn, waiters, caller, typed>>

\* receive_envelope: a result takes its waiter out of the map.
TakeResult ==
    /\ up /\ results # <<>>
    /\ LET r == Head(results)
       IN /\ waiters' = waiters \ {r}
          /\ caller' = IF r \in waiters /\ caller[r] = "waiting"
                       THEN [caller EXCEPT ![r] = "answered"] ELSE caller
    /\ results' = Tail(results)
    /\ UNCHANGED <<up, outbound, wire, groups, tasks, ptyIn, typed>>

\* kind.timeout(): the caller gives up; its waiter stays in the map.
RequestTimeout(r) ==
    /\ caller[r] = "waiting"
    /\ caller' = [caller EXCEPT ![r] = "timeout"]
    /\ UNCHANGED <<up, outbound, wire, groups, tasks, ptyIn, results, waiters, typed>>

-----------------------------------------------------------------------------
(* The node's read loop.                                                   *)

\* FragmentAssembler.push: what is held of the frame's message, with the frame.
Held(f) == {g.have : g \in {h \in groups : h.e = f.e}}
Push(f) == [e |-> f.e, have |-> (UNION Held(f)) \cup {f.index}]
Complete(g) == g.have = 0 .. g.e.parts - 1

InlineKind(e) == e.kind = "input"

\* One frame: a complete message is handled, terminal input before the next
\* frame is read, a request in a task.
ReadFrame ==
    /\ up /\ wire # <<>>
    /\ wire' = Tail(wire)
    /\ LET f == Head(wire)
           g == Push(f)
           others == {h \in groups : h.e # f.e}
       IN IF ~Complete(g)
          THEN groups' = others \cup {g} /\ UNCHANGED <<tasks, ptyIn>>
          ELSE /\ groups' = others
               /\ IF InlineKind(f.e)
                  THEN ptyIn' = Append(ptyIn, f.e.id) /\ UNCHANGED tasks
                  ELSE tasks' = tasks \cup {f.e.id} /\ UNCHANGED ptyIn
    /\ UNCHANGED <<up, outbound, results, waiters, caller, typed>>

\* A task ends, in any order; its answer goes to the connection it came from.
FinishTask(r) ==
    /\ r \in tasks
    /\ tasks' = tasks \ {r}
    /\ results' = IF up THEN Append(results, r) ELSE results
    /\ UNCHANGED <<up, outbound, wire, groups, ptyIn, waiters, caller, typed>>

LoseConnection ==
    /\ up
    /\ DropAll
    /\ UNCHANGED <<tasks, ptyIn, waiters, caller, typed>>

WireNext ==
    \/ SendInput \/ WriteEnvelope \/ TakeResult \/ ReadFrame \/ LoseConnection
    \/ \E r \in Req : CallNode(r) \/ RequestTimeout(r) \/ FinishTask(r)

\* The two socket loops and the timer of every call run on.
WireFairness ==
    /\ WF_wireState(WriteEnvelope) /\ WF_wireState(ReadFrame) /\ WF_wireState(TakeResult)
    /\ \A r \in Req : WF_wireState(RequestTimeout(r))

-----------------------------------------------------------------------------
(* Properties.                                                             *)

\* Keystrokes reach the shell in the order they were typed and none is skipped,
\* however large an envelope is and whatever requests run beside them.
InputInOrder == \A i \in DOMAIN ptyIn : ptyIn[i] = i

\* No caller hangs: every call comes back with the answer, a timeout or
\* "unavailable", also when the connection is lost under it.
CallReturns == \A r \in Req : (caller[r] = "waiting") ~> (caller[r] # "waiting")

=============================================================================
