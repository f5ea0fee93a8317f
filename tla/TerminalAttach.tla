--------------------------- MODULE TerminalAttach ---------------------------
(***************************************************************************)
(* One browser tab attached to one shell: devenv pump -> DevenvLink        *)
(* fan-out -> attachment task on the node -> control's stream -> browser   *)
(* socket.  Output is a sequence of chunks 1, 2, ...; a snapshot stands    *)
(* for every chunk up to a number.                                         *)
(*                                                                         *)
(* The fan-out is a broadcast channel: a subscriber reads "closed" when    *)
(* the last holder of its sender is gone.  Three hold one: the link, the   *)
(* manager's PtySession, and the attachment task, which keeps the          *)
(* PtySession it was started with.                                         *)
(***************************************************************************)
EXTENDS Naturals, Sequences

CONSTANTS
    MaxChunk,   \* bound: chunks the shell prints
    QueueCap    \* capacity of a terminal stream in control (256)

ASSUME TerminalAssumption == MaxChunk \in Nat /\ QueueCap \in Nat \ {0}

VARIABLES
    printed,    \* chunks the shell has printed
    shell,      \* "running", "exited", "reported"
    pumped,     \* chunks the pump has forwarded
    frames,     \* devenv -> node
    asked,      \* a snapshot request is with the devenv
    holders,    \* who holds a sender of the fan-out
    task,       \* the attachment task of the stream
    rendered,   \* the snapshot it got
    queue,      \* its subscription to the fan-out
    canceled,   \* its cancel flag
    toControl,  \* node -> control
    toNode,     \* control -> node
    stream,     \* terminal_streams has the stream
    inbox,      \* events waiting for the browser's task
    tab,        \* "new", "open", "closed"
    screen,     \* the last chunk the tab has drawn
    linked      \* the node's connection to control

wireVars == <<printed, shell, pumped, frames, asked>>
attachTaskVars == <<holders, task, rendered, queue, canceled>>
controlSide == <<stream, inbox, tab, screen>>
termVars == <<wireVars, attachTaskVars, toControl, toNode, controlSide, linked>>

Chunk(n) == [kind |-> "output", n |-> n]
Snapshot(n) == [kind |-> "snapshot", n |-> n]
Exit == [kind |-> "exit", n |-> 0]
Ready == [kind |-> "ready", n |-> 0]
Dead == [kind |-> "dead", n |-> 0]
Disconnected == [kind |-> "disconnected", n |-> 0]

TaskState == {"none", "asking", "snapped", "ready", "streaming"}

TermTypeOK ==
    /\ printed \in 0 .. MaxChunk /\ pumped \in 0 .. printed
    /\ shell \in {"running", "exited", "reported"}
    /\ holders \subseteq {"link", "session", "task"}
    /\ task \in TaskState
    /\ tab \in {"new", "open", "closed"}
    /\ Len(inbox) <= QueueCap /\ screen \in 0 .. MaxChunk

TermInit ==
    /\ printed = 0 /\ shell = "running" /\ pumped = 0 /\ frames = <<>> /\ asked = FALSE
    /\ holders = {"link", "session"} /\ task = "none" /\ rendered = 0 /\ queue = <<>> /\ canceled = FALSE
    /\ toControl = <<>> /\ toNode = <<>>
    /\ stream = FALSE /\ inbox = <<>> /\ tab = "new" /\ screen = 0
    /\ linked = TRUE

-----------------------------------------------------------------------------
(* The devenv.                                                             *)

ShellPrints == /\ shell = "running" /\ printed < MaxChunk
               /\ printed' = printed + 1
               /\ UNCHANGED <<shell, pumped, frames, asked, attachTaskVars, toControl, toNode, controlSide, linked>>

ShellEnds == /\ shell = "running"
             /\ shell' = "exited"
             /\ UNCHANGED <<printed, pumped, frames, asked, attachTaskVars, toControl, toNode, controlSide, linked>>

Pump == /\ pumped < printed
        /\ frames' = Append(frames, Chunk(pumped + 1))
        /\ pumped' = pumped + 1
        /\ UNCHANGED <<printed, shell, asked, attachTaskVars, toControl, toNode, controlSide, linked>>

\* The pump drains what is pending before it renders, so the snapshot follows
\* every chunk it covers; after the exit it is empty.
Render ==
    /\ asked
    /\ asked' = FALSE
    /\ IF shell = "reported"
       THEN frames' = Append(frames, Snapshot(0)) /\ UNCHANGED pumped
       ELSE /\ frames' = frames \o [i \in 1 .. printed - pumped |-> Chunk(pumped + i)]
                                \o <<Snapshot(printed)>>
            /\ pumped' = printed
    /\ UNCHANGED <<printed, shell, attachTaskVars, toControl, toNode, controlSide, linked>>

\* The exit frame follows the last output.
ReportExit ==
    /\ shell = "exited" /\ pumped = printed
    /\ shell' = "reported"
    /\ frames' = Append(frames, Exit)
    /\ UNCHANGED <<printed, pumped, asked, attachTaskVars, toControl, toNode, controlSide, linked>>

-----------------------------------------------------------------------------
(* The node: the link, the manager and the attachment task.                *)

\* Mutant: the output is subscribed to before the snapshot is taken.
SubscribedFirst == task # "none"

\* The task subscribes after its "ready": chunks it was not subscribed for are
\* not its own.
Subscribed == task = "streaming"

\* handle_connection: output to whoever subscribed, a snapshot to the RPC that
\* waits, an exit to the fan-out.
LinkReads ==
    /\ frames # <<>>
    /\ frames' = Tail(frames)
    /\ LET m == Head(frames)
       IN \/ /\ m.kind = "output"
             /\ queue' = IF Subscribed THEN Append(queue, m) ELSE queue
             /\ UNCHANGED <<holders, task, rendered>>
          \/ /\ m.kind = "snapshot"
             /\ task' = IF task = "asking" THEN "snapped" ELSE task
             /\ rendered' = IF task = "asking" THEN m.n ELSE rendered
             /\ UNCHANGED <<holders, queue>>
          \/ /\ m.kind = "exit"
             /\ holders' = holders \ {"link"}
             /\ UNCHANGED <<task, rendered, queue>>
    /\ UNCHANGED <<printed, shell, pumped, asked, canceled, toControl, toNode, controlSide, linked>>

\* mark_dead drops the manager's PtySession.
ManagerDrops ==
    /\ "session" \in holders /\ "link" \notin holders
    /\ holders' = holders \ {"session"}
    /\ UNCHANGED <<wireVars, task, rendered, queue, canceled, toControl, toNode, controlSide, linked>>

\* Mutant: the cancellation is only looked at while streaming.
CancelSeenStreaming == task = "streaming"

\* close_terminal finds the cancel sender of every attachment not yet ended.
CancelSeen == task # "none"

\* terminal.attach and terminal.detach, handled inline in the order they come.
\* An attach to a session with no handle is an error the node only logs.
NodeCommand ==
    /\ linked /\ toNode # <<>>
    /\ toNode' = Tail(toNode)
    /\ \/ /\ Head(toNode) = "attach"
          /\ IF "session" \in holders
             THEN /\ task' = "asking" /\ asked' = TRUE
                  /\ holders' = holders \cup {"task"}
             ELSE UNCHANGED <<task, asked, holders>>
          /\ UNCHANGED canceled
       \/ /\ Head(toNode) = "detach"
          /\ canceled' = CancelSeen
          /\ UNCHANGED <<task, asked, holders>>
    /\ UNCHANGED <<printed, shell, pumped, frames, rendered, queue, toControl, controlSide, linked>>

\* The task's ends, all alike: its entry goes, and its sender with it.
TaskEnds ==
    /\ task' = "none" /\ rendered' = 0 /\ queue' = <<>> /\ canceled' = FALSE
    /\ holders' = holders \ {"task"}

\* A send to control fails once the connection is gone.
Emit(m) == toControl' = Append(toControl, m)

SendSnapshot ==
    /\ task = "snapped"
    /\ IF rendered # 0 /\ ~linked
       THEN TaskEnds /\ UNCHANGED toControl
       ELSE /\ toControl' = IF rendered = 0 THEN toControl ELSE Append(toControl, Snapshot(rendered))
            /\ task' = "ready"
            /\ UNCHANGED <<holders, rendered, queue, canceled>>
    /\ UNCHANGED <<wireVars, toNode, controlSide, linked>>

\* "ready", and only then the subscription.
SendReady ==
    /\ task = "ready"
    /\ IF linked THEN Emit(Ready) /\ task' = "streaming"
                   /\ UNCHANGED <<holders, rendered, queue, canceled>>
       ELSE TaskEnds /\ UNCHANGED toControl
    /\ UNCHANGED <<wireVars, toNode, controlSide, linked>>

\* The loop: the cancel flag, a chunk, or the closed fan-out.
StreamStep ==
    /\ task = "streaming"
    /\ \/ /\ canceled \/ (queue = <<>> /\ holders = {})
          /\ IF canceled THEN UNCHANGED toControl ELSE Emit(Dead)
          /\ TaskEnds
       \/ /\ queue # <<>>
          /\ IF linked THEN /\ Emit(Head(queue)) /\ queue' = Tail(queue)
                            /\ UNCHANGED <<task, rendered, holders, canceled>>
             ELSE TaskEnds /\ UNCHANGED toControl
    /\ UNCHANGED <<wireVars, toNode, controlSide, linked>>

\* Waiting for the snapshot is bounded (SNAPSHOT_TIMEOUT): then it is empty.
SnapshotTimeout ==
    /\ task = "asking"
    /\ task' = "snapped" /\ rendered' = 0
    /\ UNCHANGED <<wireVars, holders, queue, canceled, toControl, toNode, controlSide, linked>>

-----------------------------------------------------------------------------
(* Control and the browser.                                                *)

\* open_terminal
OpenTab ==
    /\ tab = "new" /\ linked
    /\ tab' = "open" /\ stream' = TRUE
    /\ toNode' = Append(toNode, "attach")
    /\ UNCHANGED <<wireVars, attachTaskVars, toControl, inbox, screen, linked>>

\* A detach reaches the node only over a connection.
SendDetach == toNode' = IF linked THEN Append(toNode, "detach") ELSE toNode

\* receive_terminal_event: a full stream is dropped and the node told.
ControlReceives ==
    /\ toControl # <<>>
    /\ toControl' = Tail(toControl)
    /\ \/ ~stream /\ UNCHANGED <<stream, inbox, toNode>>
       \/ /\ stream /\ Len(inbox) < QueueCap
          /\ inbox' = Append(inbox, Head(toControl))
          /\ UNCHANGED <<stream, toNode>>
       \/ /\ stream /\ Len(inbox) >= QueueCap
          /\ stream' = FALSE /\ SendDetach
          /\ UNCHANGED inbox
    /\ UNCHANGED <<wireVars, attachTaskVars, tab, screen, linked>>

\* close_terminal: when the browser's task ends, whatever ended it.
CloseTab == /\ tab' = "closed" /\ stream' = FALSE /\ inbox' = <<>>
            /\ SendDetach

\* handle_node_socket's outbound half: an inbox without a sender ends it.
TabEnded == inbox = <<>> /\ ~stream

TabReads ==
    /\ tab = "open"
    /\ \/ /\ inbox # <<>> /\ Head(inbox).kind \in {"dead", "disconnected"}
          /\ CloseTab /\ UNCHANGED screen
       \/ TabEnded /\ CloseTab /\ UNCHANGED screen
       \/ /\ inbox # <<>> /\ Head(inbox).kind \in {"snapshot", "output", "ready"}
          /\ inbox' = Tail(inbox)
          /\ screen' = IF Head(inbox).kind = "ready" THEN screen ELSE Head(inbox).n
          /\ UNCHANGED <<tab, stream, toNode>>
    /\ UNCHANGED <<wireVars, attachTaskVars, toControl, linked>>

\* The user closes the tab.
TabGone ==
    /\ tab = "open"
    /\ CloseTab
    /\ UNCHANGED <<wireVars, attachTaskVars, toControl, screen, linked>>

\* NodeControl.disconnected tells every stream; a full one is dropped.
TellStreams ==
    IF ~stream THEN UNCHANGED <<stream, inbox>>
    ELSE IF Len(inbox) < QueueCap
         THEN inbox' = Append(inbox, Disconnected) /\ UNCHANGED stream
         ELSE stream' = FALSE /\ UNCHANGED inbox

\* The node's connection ends: what was on it is lost.
Unlink ==
    /\ linked
    /\ linked' = FALSE
    /\ toControl' = <<>> /\ toNode' = <<>>
    /\ TellStreams
    /\ UNCHANGED <<wireVars, attachTaskVars, tab, screen>>

\* The late teardown of an older connection tells the streams of this one too.
StaleTeardown ==
    /\ linked /\ stream
    /\ TellStreams
    /\ UNCHANGED <<wireVars, attachTaskVars, toControl, toNode, tab, screen, linked>>

TermWork ==
    \/ Pump \/ Render \/ ReportExit \/ LinkReads \/ ManagerDrops \/ NodeCommand
    \/ SendSnapshot \/ SendReady \/ StreamStep \/ ControlReceives \/ TabReads

TermNext == TermWork \/ ShellPrints \/ ShellEnds \/ SnapshotTimeout \/ OpenTab \/ TabGone \/ Unlink \/ StaleTeardown

\* Every task runs on.  Printing, exiting, opening, closing and failing are
\* up to others.
TermFairness ==
    /\ WF_termVars(Pump) /\ WF_termVars(Render) /\ WF_termVars(ReportExit)
    /\ WF_termVars(LinkReads) /\ WF_termVars(ManagerDrops) /\ WF_termVars(NodeCommand)
    /\ WF_termVars(SendSnapshot) /\ WF_termVars(SendReady) /\ WF_termVars(StreamStep)
    /\ WF_termVars(ControlReceives) /\ WF_termVars(TabReads)

-----------------------------------------------------------------------------
(* Properties.                                                             *)

\* The tab never draws a chunk it has drawn, or that its snapshot covers:
\* joining a running stream behind a snapshot repeats nothing.
NothingDrawnTwice ==
    [][screen' # screen => screen' > screen]_termVars

\* A tab that is gone leaves no attachment task behind, as long as the node is
\* connected: the detach finds the task, however far its attach has come.
ClosedTabDetaches ==
    (tab = "closed" /\ linked) ~> (task = "none" \/ ~linked)

\* A stream that fell behind and was dropped ends in a closed tab, not in a
\* frozen one.
DroppedStreamCloses == (tab = "open" /\ ~stream) ~> tab = "closed"

=============================================================================
