------------------------------ MODULE ShellHost ------------------------------
(***************************************************************************)
(* Where the shells live.  A devenv container (one per toolset image)      *)
(* holds them and dials the node; the node's DevenvLink routes frames, its *)
(* PtyManager keeps the rows and a handle per session, its launcher starts *)
(* the container of the current image and reaps emptied older ones.  The   *)
(* node may restart, a stream may break, a container may crash: the shells *)
(* outlive the node, and the rows must follow what really runs.            *)
(*                                                                         *)
(* A stream that broke is still read to its end by its own task (`stale`)  *)
(* while the next one already speaks.                                      *)
(***************************************************************************)
EXTENDS SessionRows, Sequences

CONSTANTS
    Old, New,       \* idents: the image ids of two toolset releases
    NoIdent,        \* no devenv
    MaxSpawns,      \* bound: spawns of one session id (its first, then upgrades)
    MaxBreaks       \* bound: upgrades, broken streams, crashes, stops, restarts

Ident == {Old, New}

ASSUME HostAssumption ==
    /\ Old # New /\ NoIdent \notin Ident
    /\ MaxSpawns \in Nat /\ MaxBreaks \in Nat

VARIABLES
    box,        \* the container of each ident
    shells,     \* DevenvServer.sessions of each container
    line,       \* the stream each devenv has open to the node
    route,      \* LinkState.connections: the stream frames for an ident go to
    stale,      \* the frames of a broken stream its reader has yet to see
    published,  \* LinkState.current_ident: where new sessions go
    ensured,    \* the image the launcher last made sure of
    reaping,    \* the container reap_emptied_containers decided to remove
    host,       \* LinkState.session_host and outputs
    handle,     \* PtyManager.sessions, with the ident each is on
    events,     \* LinkEvents the manager has not applied
    op,         \* the spawn or upgrade under way for each session
    deleting,   \* sessions whose delete waits for the shell to end
    boot,       \* the node's boot
    beat,       \* a heartbeat on its way to control
    breaks

linkVars == <<line, route, stale, host>>
launchVars == <<box, published, ensured, reaping>>
managerVars == <<handle, events, op, deleting>>
shellVars == <<sess, shells, linkVars, launchVars, managerVars, boot, beat, breaks>>

\* In a server's map a session is running, or ended and not yet reported.
InMap(d) == {p \in Pty : shells[d][p] # "none"}
Running(p) == \E d \in Ident : shells[d][p] = "running"

Hello(inv) == [kind |-> "hello", inv |-> inv]
Spawned(p, n, ok) == [kind |-> "spawned", p |-> p, n |-> n, ok |-> ok]
Exited(p) == [kind |-> "exited", p |-> p]
Connected(d, inv) == [kind |-> "connected", at |-> d, inv |-> inv]

NoOp == [step |-> "idle", at |-> NoIdent, n |-> 0]
NoBeat == [on |-> FALSE, inv |-> {}]
Closed == [on |-> "off", up |-> <<>>, down |-> <<>>]
NoStream == [on |-> FALSE, up |-> <<>>]

OpStep == {"idle", "persisted", "waiting", "granted", "denied", "upgrading"}

ShellTypeOK ==
    /\ sess \in [Pty -> PtyRow]
    /\ box \in [Ident -> {"absent", "up", "stopped"}]
    /\ shells \in [Ident -> [Pty -> {"none", "running", "ended"}]]
    /\ \A d \in Ident : line[d].on \in {"off", "dialed", "greeted"} /\ stale[d].on \in BOOLEAN
    /\ route \in [Ident -> {"none", "line", "stale"}]
    /\ published \in Ident /\ ensured \in Ident /\ reaping \in Ident \cup {NoIdent}
    /\ host \in [Pty -> Ident \cup {NoIdent}]
    /\ handle \in [Pty -> Ident \cup {NoIdent}]
    /\ op \in [Pty -> [step : OpStep, at : Ident \cup {NoIdent}, n : 0 .. MaxSpawns]]
    /\ deleting \subseteq Pty
    /\ boot \in 1 .. MaxBoot /\ breaks \in 0 .. MaxBreaks

ShellInit ==
    /\ InitRows
    /\ box = [d \in Ident |-> IF d = Old THEN "up" ELSE "absent"]
    /\ shells = [d \in Ident |-> [p \in Pty |-> "none"]]
    /\ line = [d \in Ident |-> Closed]
    /\ route = [d \in Ident |-> "none"]
    /\ stale = [d \in Ident |-> NoStream]
    /\ published = Old /\ ensured = Old /\ reaping = NoIdent
    /\ host = [p \in Pty |-> NoIdent]
    /\ handle = [p \in Pty |-> NoIdent]
    /\ events = <<>>
    /\ op = [p \in Pty |-> NoOp]
    /\ deleting = {}
    /\ boot = 1 /\ beat = NoBeat /\ breaks = 0

Mishap == breaks < MaxBreaks /\ breaks' = breaks + 1

-----------------------------------------------------------------------------
(* The devenv server.                                                      *)

\* serve: the hello carries the inventory, then a pump per session.
ServerDial(d) ==
    /\ box[d] = "up" /\ line[d].on = "off"
    /\ line' = [line EXCEPT ![d] = [on |-> "dialed", up |-> <<Hello(InMap(d))>>, down |-> <<>>]]
    /\ UNCHANGED <<sess, shells, route, stale, host, launchVars, managerVars, boot, beat, breaks>>

\* handle_spawn and the kill ladder; a kill ends the shell like any exit.
ServerReceive(d) ==
    /\ line[d].down # <<>>
    /\ LET m == Head(line[d].down)
           ok == shells[d][m.p] = "none"
           rest == [line[d] EXCEPT !.down = Tail(@)]
       IN \/ /\ m.kind = "spawn"
             /\ shells' = IF ok THEN [shells EXCEPT ![d][m.p] = "running"] ELSE shells
             /\ line' = [line EXCEPT ![d] = [rest EXCEPT !.up = Append(@, Spawned(m.p, m.n, ok))]]
          \/ /\ m.kind = "kill"
             /\ shells' = IF ok THEN shells ELSE [shells EXCEPT ![d][m.p] = "ended"]
             /\ line' = [line EXCEPT ![d] = rest]
    /\ UNCHANGED <<sess, route, stale, host, launchVars, managerVars, boot, beat, breaks>>

ShellExit(d, p) ==
    /\ shells[d][p] = "running"
    /\ shells' = [shells EXCEPT ![d][p] = "ended"]
    /\ UNCHANGED <<sess, linkVars, launchVars, managerVars, boot, beat, breaks>>

\* start_pump: the connection's pump reports the exit and drops the session.
PumpExit(d, p) ==
    /\ shells[d][p] = "ended" /\ line[d].on # "off"
    /\ shells' = [shells EXCEPT ![d][p] = "none"]
    /\ line' = [line EXCEPT ![d].up = Append(@, Exited(p))]
    /\ UNCHANGED <<sess, route, stale, host, launchVars, managerVars, boot, beat, breaks>>

\* The stream breaks: frames to the devenv are gone, a prefix of those to the
\* node is still readable, and a pump in its exit path drops its session
\* without anyone hearing of it.  A hello that was not read by then is lost:
\* the redial's backoff is longer than the read of one buffered line.
BrokenAt(d, k) ==
    /\ line[d].on # "off" /\ ~stale[d].on
    /\ line' = [line EXCEPT ![d] = Closed]
    /\ stale' = IF line[d].on = "dialed" THEN stale
                ELSE [stale EXCEPT ![d] = [on |-> TRUE, up |-> SubSeq(line[d].up, 1, k)]]
    /\ route' = [route EXCEPT ![d] = IF @ = "line" THEN "stale" ELSE @]

StreamBreak(d) ==
    /\ Mishap
    /\ \E k \in 0 .. Len(line[d].up) : BrokenAt(d, k)
    /\ \E lost \in SUBSET {p \in Pty : shells[d][p] = "ended"} :
          shells' = [shells EXCEPT ![d] = [p \in Pty |-> IF p \in lost THEN "none" ELSE @[p]]]
    /\ UNCHANGED <<sess, host, launchVars, managerVars, boot, beat>>

\* The container crashes and its restart policy starts it again, empty; or it
\* is stopped, and nothing but the launcher touches it again.
ContainerDown(d, state) ==
    /\ Mishap
    /\ box[d] = "up"
    /\ box' = [box EXCEPT ![d] = state]
    /\ shells' = [shells EXCEPT ![d] = [p \in Pty |-> "none"]]
    /\ IF line[d].on = "off" THEN UNCHANGED <<line, route, stale>>
       ELSE \E k \in 0 .. Len(line[d].up) : BrokenAt(d, k)
    /\ UNCHANGED <<sess, host, published, ensured, reaping, managerVars, boot, beat>>

-----------------------------------------------------------------------------
(* DevenvLink.handle_connection: one reader per stream.                    *)

\* fail_pending_for: whoever waits for an answer of this ident is told no.
FailPending(d) ==
    [p \in Pty |-> IF op[p].step = "waiting" /\ op[p].at = d
                   THEN [op[p] EXCEPT !.step = "denied"] ELSE op[p]]

HelloHost(d, inv) ==
    [p \in Pty |-> IF p \in inv THEN d ELSE IF host[p] = d THEN NoIdent ELSE host[p]]

\* What one frame does to the routes, the waiters and the event queue.
LinkReceive(d, m) ==
    \/ /\ m.kind = "hello"
       /\ host' = HelloHost(d, m.inv)
       /\ op' = FailPending(d)
       /\ events' = Append(events, Connected(d, m.inv))
    \/ /\ m.kind = "spawned"
       /\ op' = IF op[m.p].step = "waiting" /\ op[m.p].n = m.n
                THEN [op EXCEPT ![m.p].step = IF m.ok THEN "granted" ELSE "denied"] ELSE op
       /\ UNCHANGED <<host, events>>
    \/ /\ m.kind = "exited"
       /\ host' = [host EXCEPT ![m.p] = NoIdent]
       /\ events' = Append(events, m)
       /\ UNCHANGED op

ReadLine(d) ==
    /\ line[d].up # <<>>
    /\ LinkReceive(d, Head(line[d].up))
    /\ line' = [line EXCEPT ![d].up = Tail(@), ![d].on = "greeted"]
    /\ route' = IF Head(line[d].up).kind = "hello" THEN [route EXCEPT ![d] = "line"] ELSE route
    /\ UNCHANGED <<sess, shells, stale, launchVars, handle, deleting, boot, beat, breaks>>

ReadStale(d) ==
    /\ stale[d].up # <<>>
    /\ LinkReceive(d, Head(stale[d].up))
    /\ stale' = [stale EXCEPT ![d].up = Tail(@)]
    /\ UNCHANGED <<sess, shells, line, route, launchVars, handle, deleting, boot, beat, breaks>>

\* The reader ends: the route is cleared unless a newer stream replaced it,
\* and what waits on the ident fails, on the newer stream too.
Teardown(d) ==
    /\ stale[d].on /\ stale[d].up = <<>>
    /\ stale' = [stale EXCEPT ![d] = NoStream]
    /\ route' = [route EXCEPT ![d] = IF @ = "stale" THEN "none" ELSE @]
    /\ op' = FailPending(d)
    /\ UNCHANGED <<sess, shells, line, host, launchVars, handle, events, deleting, boot, beat, breaks>>

Routable(d) == route[d] # "none"

\* send_to: a frame for a stream that broke is queued, and lost.
SendTo(d, m) ==
    line' = IF route[d] = "line" THEN [line EXCEPT ![d].down = Append(@, m)] ELSE line

-----------------------------------------------------------------------------
(* PtyManager: events.                                                     *)

\* mark_dead, mark_orphaned: the handle, then the row if it is still live.
DropHandle(p) == [handle EXCEPT ![p] = NoIdent]

ApplyExited ==
    /\ events # <<>> /\ Head(events).kind = "exited"
    /\ handle' = DropHandle(Head(events).p)
    /\ sess' = MarkDead(Head(events).p)
    /\ events' = Tail(events)
    /\ UNCHANGED <<shells, linkVars, launchVars, op, deleting, boot, beat, breaks>>

\* sync_with_inventory: tracked on this ident and not listed, orphaned; listed
\* and not tracked, adopted when there is a row (in any state) and a route.
ApplyConnected ==
    /\ events # <<>> /\ Head(events).kind = "connected"
    /\ LET d == Head(events).at
           inv == Head(events).inv
           lost == {p \in Pty : handle[p] = d /\ p \notin inv}
           adopted == {p \in inv : handle[p] = NoIdent /\ sess[p].state # "none"
                                   /\ host[p] # NoIdent}
       IN /\ handle' = [p \in Pty |-> IF p \in lost THEN NoIdent
                                      ELSE IF p \in adopted THEN d ELSE handle[p]]
          /\ sess' = [p \in Pty |-> IF p \in lost THEN MarkOrphaned(p)[p] ELSE sess[p]]
    /\ events' = Tail(events)
    /\ UNCHANGED <<shells, linkVars, launchVars, op, deleting, boot, beat, breaks>>

-----------------------------------------------------------------------------
(* PtyManager: spawn, upgrade, delete.                                     *)

\* spawn: the row goes in before the devenv is asked.
StartSpawn(p) ==
    /\ op[p].step = "idle" /\ op[p].n < MaxSpawns
    /\ sess[p].state = "none"
    /\ handle[p] = NoIdent /\ CanPersist(p)
    /\ sess' = PersistSpawn(p, boot)
    /\ op' = [op EXCEPT ![p] = [step |-> "persisted", at |-> NoIdent, n |-> @.n + 1]]
    /\ UNCHANGED <<shells, linkVars, launchVars, handle, events, deleting, boot, beat, breaks>>

\* link.spawn: to the published ident, if it is connected; the route is
\* registered before the frame is sent.
LinkSpawn(p) ==
    /\ op[p].step = "persisted"
    /\ IF Routable(published)
       THEN /\ host' = [host EXCEPT ![p] = published]
            /\ SendTo(published, [kind |-> "spawn", p |-> p, n |-> op[p].n])
            /\ op' = [op EXCEPT ![p].step = "waiting", ![p].at = published]
       ELSE /\ op' = [op EXCEPT ![p].step = "denied"]
            /\ UNCHANGED <<host, line>>
    /\ UNCHANGED <<sess, shells, route, stale, launchVars, handle, events, deleting, boot, beat, breaks>>

\* SPAWN_TIMEOUT: the answer may still come, to nobody.
SpawnTimeout(p) ==
    /\ op[p].step = "waiting"
    /\ op' = [op EXCEPT ![p].step = "denied"]
    /\ UNCHANGED <<sess, shells, linkVars, launchVars, handle, events, deleting, boot, beat, breaks>>

\* The route goes with the refusal, then abandon_unspawned_row.
SpawnDenied(p) ==
    /\ op[p].step = "denied"
    /\ host' = IF op[p].at = NoIdent THEN host ELSE [host EXCEPT ![p] = NoIdent]
    /\ sess' = AbandonUnspawned(p)
    /\ op' = [op EXCEPT ![p] = [NoOp EXCEPT !.n = op[p].n]]
    /\ UNCHANGED <<shells, line, route, stale, launchVars, handle, events, deleting, boot, beat, breaks>>

\* A handle, unless the shell already exited and took its route with it.
SpawnGranted(p) ==
    /\ op[p].step = "granted"
    /\ handle' = IF host[p] = NoIdent THEN handle ELSE [handle EXCEPT ![p] = op[p].at]
    /\ op' = [op EXCEPT ![p] = [NoOp EXCEPT !.n = op[p].n]]
    /\ UNCHANGED <<sess, shells, linkVars, launchVars, events, deleting, boot, beat, breaks>>

\* send_for_session: to the ident that hosts p, if it is connected.
CanSend(p) == host[p] # NoIdent /\ Routable(host[p])
SendKill(p) == SendTo(host[p], [kind |-> "kill", p |-> p])

\* upgrade: end the shell where it is ...
StartUpgrade(p) ==
    /\ op[p].step = "idle" /\ op[p].n < MaxSpawns
    /\ handle[p] \in Ident \ {published}
    /\ CanSend(p) /\ SendKill(p)
    /\ Mishap
    /\ op' = [op EXCEPT ![p].step = "upgrading"]
    /\ UNCHANGED <<sess, shells, route, stale, host, launchVars, handle, events, deleting, boot, beat>>

\* ... and once the handle and the live row are gone, spawn anew under its id.
UpgradeSpawn(p) ==
    /\ op[p].step = "upgrading"
    /\ handle[p] = NoIdent /\ ~IsLive(p)
    /\ sess' = PersistSpawn(p, boot)
    /\ op' = [op EXCEPT ![p] = [step |-> "persisted", at |-> NoIdent, n |-> @.n + 1]]
    /\ UNCHANGED <<shells, linkVars, launchVars, handle, events, deleting, boot, beat, breaks>>

UpgradeTimeout(p) ==
    /\ op[p].step = "upgrading"
    /\ handle[p] # NoIdent \/ IsLive(p)
    /\ op' = [op EXCEPT ![p] = [NoOp EXCEPT !.n = op[p].n]]
    /\ UNCHANGED <<sess, shells, linkVars, launchVars, handle, events, deleting, boot, beat, breaks>>

\* delete: the handle goes and the shell is told to end; without a route it is
\* not, and the row is deleted all the same.
StartDelete(p) ==
    /\ p \notin deleting /\ sess[p].state \notin {"none", "deleted"}
    /\ op[p].step # "upgrading"
    /\ handle' = DropHandle(p)
    /\ IF handle[p] # NoIdent /\ CanSend(p) THEN SendKill(p) ELSE UNCHANGED line
    /\ deleting' = deleting \cup {p}
    /\ UNCHANGED <<sess, shells, route, stale, host, launchVars, events, op, boot, beat, breaks>>

\* The wait is bounded: it ends with or without the exit.
FinishDelete(p) ==
    /\ p \in deleting
    /\ sess' = DeleteRow(p)
    /\ deleting' = deleting \ {p}
    /\ UNCHANGED <<shells, linkVars, launchVars, handle, events, op, boot, beat, breaks>>

-----------------------------------------------------------------------------
(* The launcher, the heartbeat and the node process.                       *)

\* ensure_current_container: a release brings a new image; a container that
\* is missing or stopped is started.
EnsureCurrent ==
    /\ reaping = NoIdent
    /\ \E d \in Ident :
          /\ d = ensured \/ d = New
          /\ box[d] # "up" \/ ensured # d
          /\ ensured' = d
          /\ box' = [box EXCEPT ![d] = "up"]
    /\ UNCHANGED <<sess, shells, linkVars, published, reaping, managerVars, boot, beat, breaks>>

\* Publish only once the devenv has dialed in under this identity.
Publish ==
    /\ reaping = NoIdent
    /\ published # ensured /\ Routable(ensured)
    /\ published' = ensured
    /\ UNCHANGED <<sess, shells, linkVars, box, ensured, reaping, managerVars, boot, beat, breaks>>

Hosted(d) == Cardinality({p \in Pty : host[p] = d})

\* Mutant: a container that has not said hello counts as empty.
ShouldReapUnconnected(d) == d # ensured /\ Hosted(d) = 0

ShouldReap(d) ==
    /\ d # ensured
    /\ box[d] = "stopped" \/ (Routable(d) /\ Hosted(d) = 0)

\* reap_emptied_containers: the decision, then docker rm -f.  It follows
\* Publish in the loop, or the end of its wait for a devenv that did not dial.
ReapDecide(d) ==
    /\ reaping = NoIdent /\ box[d] # "absent"
    /\ ShouldReap(d)
    /\ reaping' = d
    /\ UNCHANGED <<sess, shells, linkVars, box, published, ensured, managerVars, boot, beat, breaks>>

Reap ==
    /\ reaping # NoIdent
    /\ reaping' = NoIdent
    /\ box' = [box EXCEPT ![reaping] = "absent"]
    /\ shells' = [shells EXCEPT ![reaping] = [p \in Pty |-> "none"]]
    /\ IF line[reaping].on = "off" THEN UNCHANGED <<line, route, stale>>
       ELSE BrokenAt(reaping, Len(line[reaping].up))
    /\ UNCHANGED <<sess, host, published, ensured, managerVars, boot, beat, breaks>>

\* live_session_ids, sent as a complete inventory and applied by control.
TakeBeat ==
    /\ ~beat.on
    /\ beat' = [on |-> TRUE, inv |-> {p \in Pty : handle[p] # NoIdent}]
    /\ UNCHANGED <<sess, shells, linkVars, launchVars, managerVars, boot, breaks>>

ApplyBeat ==
    /\ beat.on
    /\ beat' = NoBeat
    /\ sess' = HeartbeatRows(boot, beat.inv)
    /\ UNCHANGED <<shells, linkVars, launchVars, managerVars, boot, breaks>>

\* The node process dies and starts: everything in memory goes, the containers
\* stay and redial.  Rows and images are as they were.
Restart ==
    /\ Mishap /\ boot < MaxBoot
    /\ boot' = boot + 1
    /\ line' = [d \in Ident |-> Closed] /\ stale' = [d \in Ident |-> NoStream]
    /\ route' = [d \in Ident |-> "none"]
    /\ host' = [p \in Pty |-> NoIdent] /\ handle' = [p \in Pty |-> NoIdent]
    /\ events' = <<>> /\ op' = [p \in Pty |-> [NoOp EXCEPT !.n = op[p].n]] /\ deleting' = {}
    /\ beat' = NoBeat /\ reaping' = NoIdent
    /\ UNCHANGED <<sess, box, shells, published, ensured>>

DevenvNext(d) ==
    \/ ServerDial(d) \/ ServerReceive(d) \/ ReadLine(d) \/ ReadStale(d) \/ Teardown(d)
    \/ \E p \in Pty : PumpExit(d, p)

SpawnStep(p) == LinkSpawn(p) \/ SpawnDenied(p) \/ SpawnGranted(p) \/ UpgradeSpawn(p)

ManagerNext ==
    \/ ApplyExited \/ ApplyConnected
    \/ \E p \in Pty : SpawnStep(p) \/ FinishDelete(p)

BeatNext == TakeBeat \/ ApplyBeat

ShellNext ==
    \/ \E d \in Ident : DevenvNext(d)
    \/ ManagerNext \/ BeatNext
    \/ \E p \in Pty : StartSpawn(p) \/ StartUpgrade(p) \/ StartDelete(p)
                      \/ SpawnTimeout(p) \/ UpgradeTimeout(p)
    \/ \E d \in Ident : StreamBreak(d) \/ ContainerDown(d, "up") \/ ContainerDown(d, "stopped")
                        \/ ReapDecide(d) \/ \E p \in Pty : ShellExit(d, p)
    \/ EnsureCurrent \/ Publish \/ Reap \/ Restart

\* Readers, pumps, the redial, the manager's event task and the heartbeat run
\* on; users, releases and faults are not obliged to happen.
ShellFairness ==
    /\ \A d \in Ident : /\ WF_shellVars(ServerDial(d)) /\ WF_shellVars(ServerReceive(d))
                         /\ WF_shellVars(ReadLine(d))
                         /\ WF_shellVars(ReadStale(d) \/ Teardown(d))
                         /\ WF_shellVars(\E p \in Pty : PumpExit(d, p))
    /\ WF_shellVars(ApplyExited \/ ApplyConnected)
    /\ \A p \in Pty : WF_shellVars(SpawnStep(p)) /\ WF_shellVars(FinishDelete(p))
    /\ WF_shellVars(TakeBeat) /\ WF_shellVars(ApplyBeat)
    /\ \A p \in Pty : WF_shellVars(SpawnTimeout(p)) /\ WF_shellVars(UpgradeTimeout(p))

-----------------------------------------------------------------------------
(* Properties.                                                             *)

\* p has not been moved to another devenv: after an upgrade a queued event
\* about the first shell can still find the row and the handle of the second.
FirstShell(p) == op[p].n = 1

\* A row is marked dead only for a shell that ended: no live session reads as
\* an exit its shell never had, though hellos, exits and heartbeats reach the
\* row in any order.
DeadMeansExited == \A p \in Pty : sess[p].state = "dead" /\ FirstShell(p) => ~Running(p)

\* Removing an emptied container never takes with it a shell of a session the
\* manager serves, when new sessions already go elsewhere: the emptiness it
\* was decided on is not that of a devenv that has yet to say hello.
ReapSparesShells ==
    [][\A p \in Pty :
          Reap /\ reaping # published /\ shells[reaping][p] = "running" /\ FirstShell(p)
             => handle[p] # reaping \/ ~IsLive(p)]_shellVars

\* A live row whose shell is gone does not stay in the sidebar for ever, as
\* long as the container that hosted it still exists: the exit, the next
\* hello or the next complete heartbeat ends it.
NoHusk ==
    \A p \in Pty :
       []<>(IsLive(p) => Running(p) \/ (handle[p] # NoIdent /\ box[handle[p]] # "up"))

=============================================================================
