---------------------------- MODULE AgentBinding ----------------------------
(***************************************************************************)
(* What the node records of the agents in its terminals: the launcher that *)
(* runs an agent (agent.rs, codex.rs), the socket it and the agent's hooks *)
(* report to (correlate.rs), and the columns of `pty_sessions`,            *)
(* `claude_sessions` and `session_activity_state` those reports write      *)
(* (activity.rs, ingest/activity_projection.rs).                           *)
(*                                                                         *)
(* Every report is handled in a task of its own, and its handler is        *)
(* several statements outside any transaction: one step here is one        *)
(* statement.  The sender waits 750 ms for the acknowledgement and then    *)
(* goes on, so a handler may still be running, or retrying, when the same  *)
(* launcher sends its next report.                                         *)
(***************************************************************************)
EXTENDS Integers, FiniteSets

CONSTANTS Term,        \* terminals
          Conv,        \* agent sessions (conversations)
          MaxLaunch    \* bound on the launches of one terminal

NoConv == "none"
NoTerm == "none"
NoAct == [state |-> "none", source |-> "none"]

VARIABLES bound,      \* bound[y]: pty_sessions.current_session_uuid
          owner,      \* owner[c]: claude_sessions.pty_session_id, or NoTerm
          fresh,      \* fresh[y]: correlated_at >= agent_runtime_started_at
          started,    \* started[y]: agent_runtime_started_at is set
          runtime,    \* runtime[y]: agent_runtime_state
          activity,   \* activity[y]: the session_activity_state row
          alive,      \* alive[y]: the row is live
          agentUp,    \* agentUp[y]: the agent process runs in the terminal
          launches,   \* launches[y]: launches so far (bounds the model)
          onRun,      \* onRun[y]: statement the Running handler is at
          onExit,     \* onExit[y]: statement the Exited handler is at
          onBind      \* onBind[y]: correlation being applied, and statement

bindingVars == <<bound, owner, fresh, started, runtime, activity, alive, agentUp,
                 launches, onRun, onExit, onBind>>
rowVars == <<bound, owner, fresh, started, runtime, alive>>
taskVars == <<agentUp, launches>>

Active == {"starting", "running"}
NoBind == [conv |-> NoConv, at |-> 0]

BindingInit ==
  /\ bound = [y \in Term |-> NoConv]
  /\ owner = [c \in Conv |-> NoTerm]
  /\ fresh = [y \in Term |-> FALSE]
  /\ started = [y \in Term |-> FALSE]
  /\ runtime = [y \in Term |-> "none"]
  /\ activity = [y \in Term |-> NoAct]
  /\ alive = [y \in Term |-> TRUE]
  /\ agentUp = [y \in Term |-> FALSE]
  /\ launches = [y \in Term |-> 0]
  /\ onRun = [y \in Term |-> "idle"]
  /\ onExit = [y \in Term |-> "idle"]
  /\ onBind = [y \in Term |-> NoBind]

-----------------------------------------------------------------------------
\* Start-agent route: refused while an agent is starting or running; the row
\* is marked starting and the launch command typed into the shell.
StartAgent(y) ==
  /\ alive[y] /\ runtime[y] \notin Active /\ ~agentUp[y]
  /\ launches[y] < MaxLaunch
  /\ runtime' = [runtime EXCEPT ![y] = "starting"]
  /\ started' = [started EXCEPT ![y] = TRUE]
  /\ fresh' = [fresh EXCEPT ![y] = FALSE]
  /\ launches' = [launches EXCEPT ![y] = @ + 1]
  /\ agentUp' = [agentUp EXCEPT ![y] = TRUE]
  /\ UNCHANGED <<bound, owner, activity, alive, onRun, onExit, onBind>>

\* Or a person types the agent's name at the shell prompt.
TypeAgent(y) ==
  /\ alive[y] /\ ~agentUp[y]
  /\ launches[y] < MaxLaunch
  /\ launches' = [launches EXCEPT ![y] = @ + 1]
  /\ agentUp' = [agentUp EXCEPT ![y] = TRUE]
  /\ UNCHANGED <<rowVars, activity, onRun, onExit, onBind>>

\* run_launcher and report_runtime: the Running report; a report that fails
\* is only logged.
ReportRunning(y) ==
  /\ agentUp[y] /\ onRun[y] = "idle"
  /\ runtime[y] # "running"
  /\ onRun' = [onRun EXCEPT ![y] = "update"]
  /\ UNCHANGED <<rowVars, activity, taskVars, onExit, onBind>>

\* The agent exits; the launcher reports it, or the report is lost.
AgentExits(y) ==
  /\ agentUp[y]
  /\ agentUp' = [agentUp EXCEPT ![y] = FALSE]
  /\ \/ onExit[y] = "idle" /\ onExit' = [onExit EXCEPT ![y] = "update"]
     \/ UNCHANGED onExit
  /\ UNCHANGED <<rowVars, activity, launches, onRun, onBind>>

-----------------------------------------------------------------------------
\* apply_runtime, Running: the update matches a live row; otherwise it is
\* retried and at last given up.
RunningUpdate(y) ==
  /\ onRun[y] = "update"
  /\ \/ /\ alive[y]
        /\ runtime' = [runtime EXCEPT ![y] = "running"]
        /\ fresh' = [fresh EXCEPT ![y] = @ /\ started[y]]
        /\ started' = [started EXCEPT ![y] = TRUE]
        /\ onRun' = [onRun EXCEPT ![y] = "activity"]
     \/ /\ ~alive[y]
        /\ onRun' = [onRun EXCEPT ![y] = "idle"]
        /\ UNCHANGED <<runtime, fresh, started>>
  /\ UNCHANGED <<bound, owner, activity, alive, taskVars, onExit, onBind>>

\* activity::set: an upsert for a live terminal; `awaiting_prompt` does not
\* replace an attention state the agent asked for itself.
SetActivity(y, state, source) ==
  IF \/ ~alive[y]
     \/ /\ activity[y].source = "agent"
        /\ activity[y].state \in {"needs_input", "blocked"}
        /\ state = "awaiting_prompt"
  THEN activity
  ELSE [activity EXCEPT ![y] = [state |-> state, source |-> source]]

RunningActivity(y) ==
  /\ onRun[y] = "activity"
  /\ activity' = SetActivity(y, "unknown", "launcher")
  /\ onRun' = [onRun EXCEPT ![y] = "idle"]
  /\ UNCHANGED <<rowVars, taskVars, onExit, onBind>>

\* apply_runtime, Exited: one statement for the row, one for the activity.
ExitedUpdate(y) ==
  /\ onExit[y] = "update"
  /\ runtime' = [runtime EXCEPT ![y] = IF @ \in Active THEN "exited" ELSE @]
  /\ onExit' = [onExit EXCEPT ![y] = "clear"]
  /\ UNCHANGED <<bound, owner, fresh, started, activity, alive, taskVars, onRun, onBind>>

ExitedClear(y) ==
  /\ onExit[y] = "clear"
  /\ activity' = [activity EXCEPT ![y] = NoAct]
  /\ onExit' = [onExit EXCEPT ![y] = "idle"]
  /\ UNCHANGED <<rowVars, taskVars, onRun, onBind>>

-----------------------------------------------------------------------------
\* A session hook, or the Codex launcher's scan of the descriptors its
\* process holds, reports the conversation the agent works in: a new one or
\* one resumed from another terminal.  The handler's first statement
\* (upsert of claude_sessions) is part of this step.
ReportSession(y, c) ==
  /\ agentUp[y] /\ onBind[y] = NoBind
  /\ onBind' = [onBind EXCEPT ![y] = [conv |-> c, at |-> 1]]
  /\ owner' = [owner EXCEPT ![c] = y]
  /\ UNCHANGED <<bound, fresh, started, runtime, alive, activity, taskVars, onRun, onExit>>

\* apply, second statement: release the conversation from other terminals.
BindRelease(y) ==
  LET c == onBind[y].conv IN
  /\ onBind[y].at = 1
  /\ bound' = [z \in Term |-> IF z # y /\ bound[z] = c THEN NoConv ELSE bound[z]]
  /\ onBind' = [onBind EXCEPT ![y].at = 2]
  /\ UNCHANGED <<owner, fresh, started, runtime, activity, alive, taskVars, onRun, onExit>>

\* apply, third statement: point the terminal at the conversation.
BindPoint(y) ==
  /\ onBind[y].at = 2
  /\ bound' = [bound EXCEPT ![y] = onBind[y].conv]
  /\ fresh' = [fresh EXCEPT ![y] = TRUE]
  /\ onBind' = [onBind EXCEPT ![y] = NoBind]
  /\ UNCHANGED <<owner, started, runtime, activity, alive, taskVars, onRun, onExit>>

-----------------------------------------------------------------------------
\* claude_transition and codex_transition: what a stored record says of the
\* agent; set_for_current_agent_session applies it to the live terminals of
\* the conversation whose agent is starting or running.
Transition == {"working", "needs_input", "awaiting_prompt"}

\* Mutant: the runtime state is not looked at.
ProjectActivityAnyRuntime(c, state) ==
  /\ \E y \in Term : bound[y] = c
  /\ activity' = [y \in Term |->
       IF bound[y] = c THEN SetActivity(y, state, "ingester")[y] ELSE activity[y]]
  /\ UNCHANGED <<rowVars, taskVars, onRun, onExit, onBind>>

ProjectActivity(c, state) ==
  /\ \E y \in Term : bound[y] = c
  /\ activity' = [y \in Term |->
       IF bound[y] = c /\ runtime[y] \in Active THEN SetActivity(y, state, "ingester")[y]
       ELSE activity[y]]
  /\ UNCHANGED <<rowVars, taskVars, onRun, onExit, onBind>>

\* `sulion activity ...` from the terminal, and clearing it.
ControlActivity(y, state) ==
  /\ alive[y]
  /\ activity' = IF state = "clear" THEN [activity EXCEPT ![y] = NoAct]
                 ELSE SetActivity(y, state, "agent")
  /\ UNCHANGED <<rowVars, taskVars, onRun, onExit, onBind>>

\* prompt_gate: the timeline input is open for a running agent once the
\* harness has reported for this launch and asks for nothing.
HarnessReady(y) ==
  \/ bound[y] # NoConv /\ fresh[y]
  \/ activity[y].source \in {"agent", "ingester"}

GateOpen(y) ==
  /\ alive[y] /\ runtime[y] = "running"
  /\ HarnessReady(y)
  /\ activity[y].state \notin {"needs_input", "blocked"}

\* send_session_prompt: after the bytes are delivered the terminal is
\* marked working on the person's word.
SendPrompt(y) ==
  /\ GateOpen(y)
  /\ activity' = SetActivity(y, "working", "user")
  /\ UNCHANGED <<rowVars, taskVars, onRun, onExit, onBind>>

\* mark_dead and mark_orphaned: the shell is gone, its agent with it.
AgentShellEnds(y) ==
  /\ alive[y]
  /\ alive' = [alive EXCEPT ![y] = FALSE]
  /\ runtime' = [runtime EXCEPT ![y] = IF @ \in Active THEN "exited" ELSE @]
  /\ agentUp' = [agentUp EXCEPT ![y] = FALSE]
  /\ UNCHANGED <<bound, owner, fresh, started, activity, launches, onRun, onExit, onBind>>

BindingNext ==
  \/ \E y \in Term : \/ StartAgent(y) \/ TypeAgent(y) \/ ReportRunning(y) \/ AgentExits(y)
                     \/ RunningUpdate(y) \/ RunningActivity(y)
                     \/ ExitedUpdate(y) \/ ExitedClear(y)
                     \/ BindRelease(y) \/ BindPoint(y)
                     \/ SendPrompt(y) \/ AgentShellEnds(y)
  \/ \E y \in Term, c \in Conv : ReportSession(y, c)
  \/ \E c \in Conv, s \in Transition : ProjectActivity(c, s)
  \/ \E y \in Term, s \in {"blocked", "awaiting_prompt", "clear"} : ControlActivity(y, s)

-----------------------------------------------------------------------------
BindingTypeOK ==
  /\ bound \in [Term -> Conv \cup {NoConv}]
  /\ owner \in [Conv -> Term \cup {NoTerm}]
  /\ runtime \in [Term -> Active \cup {"none", "exited"}]
  /\ \A y \in Term : activity[y].source \in {"none", "launcher", "ingester", "agent", "user"}
  /\ onRun \in [Term -> {"idle", "update", "activity"}]
  /\ onExit \in [Term -> {"idle", "update", "clear"}]

\* What the transcript says of an agent is never left on a terminal whose
\* agent has exited: late records are not applied once the exit is recorded,
\* and what was applied before is cleared by the exit's second statement
\* (activity.rs set_for_current_agent_session, correlate.rs apply_runtime).
DerivedWhileRunning ==
  \A y \in Term : alive[y] /\ activity[y].source = "ingester" =>
     runtime[y] \in Active \/ onExit[y] = "clear"

=============================================================================
