----------------------------- MODULE ModelGuard -----------------------------
(***************************************************************************)
(* The model-switch guard for one agent session: the records the harness   *)
(* writes, the ingester's comparison of each with the session's two        *)
(* baselines (model_switches.rs observe_event, with the activity the same  *)
(* record projects), the control process's enforcement pass                *)
(* (api/model_switch_routes.rs) and the dialog that closes a switch.       *)
(*                                                                         *)
(* The ingester reads behind the harness, the enforcement pass works from  *)
(* a list it read earlier, and the interrupt goes through a node that may  *)
(* be away: each is a step of its own.                                     *)
(***************************************************************************)
EXTENDS Integers, Sequences

CONSTANTS Model,      \* models a harness can run on
          Launch,     \* the model of the launch
          MaxSwitch,  \* bound on the harness's own model changes
          MaxTurn,    \* bound on its turns
          MaxFault    \* bound on observations and interrupts that fail

VARIABLES onModel,    \* the model the harness runs on
          inTurn,     \* a turn is under way
          unread,     \* records written and not yet ingested
          working,    \* session_activity_state says working
          observed,   \* agent_session_metadata.observed_model
          confirmed,  \* agent_session_metadata.confirmed_model
          switches,   \* rows of agent_model_switches
          todo,       \* rows the running enforcement pass still has to do
          moves, turns, faults

guardVars == <<onModel, inTurn, unread, working, observed, confirmed,
               switches, todo, moves, turns, faults>>

NoModel == "none"
Rows == 1..Len(switches)

ASSUME GuardAssumption == Launch \in Model /\ NoModel \notin Model

GuardInit ==
  /\ onModel = Launch /\ inTurn = FALSE /\ unread = <<>>
  /\ working = FALSE
  /\ observed = NoModel /\ confirmed = NoModel
  /\ switches = <<>> /\ todo = {}
  /\ moves = 0 /\ turns = 0 /\ faults = 0

Write(kind) == unread' = Append(unread, [kind |-> kind, model |-> onModel'])

\* The harness starts a turn (its first record names the model), ends one,
\* or moves to another model: between turns by new thread settings, inside
\* a turn by a fallback, whose next record names the new model.
StartTurn ==
  /\ ~inTurn /\ turns < MaxTurn
  /\ inTurn' = TRUE /\ turns' = turns + 1
  /\ UNCHANGED onModel
  /\ Write("start")
  /\ UNCHANGED <<working, observed, confirmed, switches, todo, moves, faults>>

EndTurn ==
  /\ inTurn
  /\ inTurn' = FALSE
  /\ UNCHANGED onModel
  /\ Write("end")
  /\ UNCHANGED <<working, observed, confirmed, switches, todo, moves, turns, faults>>

MoveModel(m) ==
  /\ m # onModel /\ moves < MaxSwitch
  /\ onModel' = m /\ moves' = moves + 1
  /\ Write("model")
  /\ UNCHANGED <<inTurn, working, observed, confirmed, switches, todo, turns, faults>>

-----------------------------------------------------------------------------
\* observe_event: the first sighting sets both baselines, the same model
\* changes nothing, another one is a switch, enforced when it leaves the
\* confirmed model; a baseline once confirmed is kept.
Observe(m) ==
  CASE observed = NoModel ->
         /\ observed' = m
         /\ confirmed' = IF confirmed = NoModel THEN m ELSE confirmed
         /\ UNCHANGED switches
    [] observed = m -> UNCHANGED <<observed, confirmed, switches>>
    [] OTHER ->
         LET base == IF confirmed = NoModel THEN observed ELSE confirmed IN
         /\ switches' = Append(switches, [from |-> observed, to |-> m,
                                          enforced |-> m # base, ack |-> FALSE,
                                          stopped |-> FALSE])
         /\ observed' = m
         /\ confirmed' = base

\* One record is stored, observed and projected onto the activity; the
\* process may stop, or the observation fail, after the record is stored.
Ingest ==
  LET r == Head(unread) IN
  /\ unread # <<>>
  /\ unread' = Tail(unread)
  /\ \/ /\ r.kind = "end"
        /\ UNCHANGED <<observed, confirmed, switches, faults>>
     \/ /\ r.kind # "end"
        /\ Observe(r.model)
        /\ UNCHANGED faults
     \/ /\ r.kind # "end" /\ faults < MaxFault /\ faults' = faults + 1
        /\ UNCHANGED <<observed, confirmed, switches>>
  /\ working' = CASE r.kind = "start" -> TRUE [] r.kind = "end" -> FALSE [] OTHER -> working
  /\ UNCHANGED <<onModel, inTurn, todo, moves, turns>>

-----------------------------------------------------------------------------
\* pending_enforcement: enforced, open and not yet interrupted rows of a
\* terminal whose activity is working.
Pending(i) == i \in Rows /\ switches[i].enforced /\ ~switches[i].ack
                         /\ ~switches[i].stopped /\ working

BeginPass ==
  /\ todo = {} /\ \E i \in Rows : Pending(i)
  /\ todo' = {i \in Rows : Pending(i)}
  /\ UNCHANGED <<onModel, inTurn, unread, working, observed, confirmed, switches,
                 moves, turns, faults>>

\* interrupt_agent reaches the harness: a turn under way stops (whatever
\* model it runs on), an idle harness ignores the key.
EnforceLands(i) ==
  /\ i \in todo
  /\ todo' = todo \ {i}
  /\ switches' = [switches EXCEPT ![i].stopped = TRUE]
  /\ inTurn' = FALSE
  /\ UNCHANGED onModel
  /\ IF inTurn THEN Write("end") ELSE UNCHANGED unread
  /\ UNCHANGED <<working, observed, confirmed, moves, turns, faults>>

\* The node is away: the error is noted and the row stays for a later pass.
EnforceFails(i) ==
  /\ i \in todo /\ faults < MaxFault
  /\ todo' = todo \ {i}
  /\ faults' = faults + 1
  /\ UNCHANGED <<onModel, inTurn, unread, working, observed, confirmed, switches,
                 moves, turns>>

\* acknowledge: closes one switch; adopting confirms its model and closes
\* every other open switch onto it.
CloseRows(i, adopt) ==
  [j \in Rows |-> IF j = i \/ (adopt /\ switches[j].to = switches[i].to)
                  THEN [switches[j] EXCEPT !.ack = TRUE] ELSE switches[j]]

Acknowledge(i, adopt) ==
  /\ i \in Rows /\ ~switches[i].ack
  /\ switches' = CloseRows(i, adopt)
  /\ confirmed' = IF adopt THEN switches[i].to ELSE confirmed
  /\ UNCHANGED <<onModel, inTurn, unread, working, observed, todo, moves, turns, faults>>

GuardNext ==
  \/ StartTurn \/ EndTurn \/ Ingest \/ BeginPass
  \/ \E m \in Model : MoveModel(m)
  \/ \E i \in Rows : EnforceLands(i) \/ EnforceFails(i)
  \/ \E i \in Rows, b \in BOOLEAN : Acknowledge(i, b)

\* The loop runs a pass every second and the ingester keeps reading.
GuardFairness == /\ WF_guardVars(Ingest)
                 /\ WF_guardVars(BeginPass)
                 /\ WF_guardVars(\E i \in Rows : EnforceLands(i))

-----------------------------------------------------------------------------
GuardTypeOK ==
  /\ {onModel, observed, confirmed} \subseteq Model \cup {NoModel}
  /\ todo \subseteq Rows
  /\ \A i \in Rows : switches[i].from # switches[i].to

\* No open switch asks about the model the session's user has accepted:
\* neither a switch recorded before the acceptance, nor one observed later
\* or from records read late (observe_event's baselines, acknowledge).
AcceptedIsNotAskedAgain ==
  \A i \in Rows : switches[i].enforced /\ ~switches[i].ack => switches[i].to # confirmed

\* An enforced, open switch of a working session does not stay pending: a
\* failed interrupt is retried by a later pass (enforce_once).
SwitchIsEnforced == \A i \in 1..MaxSwitch : Pending(i) ~> ~Pending(i)
=============================================================================
