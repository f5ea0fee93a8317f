------------------------------- MODULE Plans -------------------------------
(***************************************************************************)
(* Native plans: the rows of `plans`, `plan_phases`, `plan_branch_anchors` *)
(* and the open `plan_attachments` (plans.rs, plans/branches.rs,           *)
(* plans/phases.rs, plans/guidance.rs), as agents change them through the  *)
(* control socket (`sulion plan ...`, plan_cli.rs and correlate.rs) and    *)
(* people through the HTTP routes (api/plan_routes.rs).                    *)
(*                                                                         *)
(* One action is one transaction: each begins by locking the row of its    *)
(* plan (SELECT ... FOR UPDATE).  A control request first finds its plan   *)
(* (and phase) in queries of their own and then runs the transaction with  *)
(* the ids it found; plans are never deleted, so acting on what was found  *)
(* earlier is the same as acting on an arbitrary plan, and every           *)
(* transaction here takes any plan.  Titles, summaries, notes, guidance,   *)
(* sizes, revisions and the event log are left out: nothing below reads    *)
(* them.  All plans and terminals belong to one repository.                *)
(***************************************************************************)
EXTENDS Integers, FiniteSets

CONSTANTS Pty,          \* terminals
          MaxPlan,      \* plans 1..MaxPlan, created in order
          MaxBranchDepth,
          PhaseRoom,    \* PhaseRoom[p]: bound on the phases of plan p
          AskStatus,    \* phase statuses a caller asks for
          AskPlan       \* plan statuses a caller asks for

VARIABLES plan,         \* plan[p]: its row, status "none" before it exists
          phase,        \* phase[p][i]: row of the i-th inserted phase
          anchor,       \* anchor[p]: phases of the parent that p covers
          att,          \* att[y]: plan of y's open attachment, or 0
          livePty       \* terminals whose row is live

planVars == <<plan, phase, anchor, att, livePty>>

PlanIds == 1..MaxPlan
OpenStatus == {"active", "paused"}
ClosedStatus == {"completed", "canceled"}
Finished == {"completed", "skipped"}
PhaseStatus == Finished \cup {"pending", "in_progress", "blocked"}

ASSUME PlansAssumption ==
  /\ {MaxPlan, MaxBranchDepth} \subseteq Nat /\ PhaseRoom \in [PlanIds -> Nat]
  /\ AskStatus \subseteq PhaseStatus /\ AskPlan \subseteq OpenStatus \cup ClosedStatus

Phases(p) == DOMAIN phase[p]
IsOpen(p) == plan[p].status \in OpenStatus
Branches(p) == {c \in PlanIds : plan[c].parent = p /\ plan[c].status # "none"}

PlansInit == /\ plan = [p \in PlanIds |-> [status |-> "none", parent |-> 0, depth |-> 0]]
             /\ phase = [p \in PlanIds |-> <<>>]
             /\ anchor = [p \in PlanIds |-> {}]
             /\ att = [y \in Pty |-> 0]
             /\ livePty = Pty

-----------------------------------------------------------------------------
\* The phases a new plan is given: the first is under way unless all are
\* asked to be pending; a caller may also name a status.
InitialPhases(n, allPending, asked) ==
  [i \in 1..n |->
     [pos |-> i,
      status |-> IF asked # "none" THEN asked
                 ELSE IF i = 1 /\ ~allPending THEN "in_progress" ELSE "pending"]]

\* insert_plan and insert_phases: p becomes an active plan under `parent`.
InsertPlan(p, parent, depth) ==
  /\ plan[p].status = "none"
  /\ \A q \in 1..(p - 1) : plan[q].status # "none"
  /\ plan' = [plan EXCEPT ![p] = [status |-> "active", parent |-> parent, depth |-> depth]]

\* attach_in_tx: only a live terminal; the unique index on open attachments
\* makes attaching elsewhere the end of the earlier attachment.
CanAttach(y) == y \in livePty
AttachIn(a, y, p) == [a EXCEPT ![y] = p]

\* `plan start` from a terminal, which is attached to the new plan.
Start(y, p, n, allPending, asked) ==
  /\ CanAttach(y)
  /\ n \in 1..PhaseRoom[p]
  /\ InsertPlan(p, 0, 0)
  /\ phase' = [phase EXCEPT ![p] = InitialPhases(n, allPending, asked)]
  /\ att' = AttachIn(att, y, p)
  /\ UNCHANGED <<anchor, livePty>>

\* POST of a plan by a person: attaching is a second transaction (Attach).
CreateByUser(p, n, allPending) ==
  /\ n \in 1..PhaseRoom[p]
  /\ InsertPlan(p, 0, 0)
  /\ phase' = [phase EXCEPT ![p] = InitialPhases(n, allPending, "none")]
  /\ UNCHANGED <<anchor, att, livePty>>

-----------------------------------------------------------------------------
\* resolve_anchor_phases: the phases named, or the current phase of the
\* parent: a blocked one before one in progress, then the lowest position.
CurrentPhases(p) ==
  LET blocked == {i \in Phases(p) : phase[p][i].status = "blocked"}
      doing == {i \in Phases(p) : phase[p][i].status = "in_progress"}
      first(S) == {i \in S : \A j \in S : phase[p][i].pos <= phase[p][j].pos}
  IN  IF blocked # {} THEN first(blocked) ELSE first(doing)

AnchorPhases(parent, refs) == IF refs = {} THEN CurrentPhases(parent) ELSE refs

\* A phase whose work moves into a sub-plan is under way.
StartAnchors(parent, anchors) ==
  [i \in Phases(parent) |->
     IF i \in anchors /\ phase[parent][i].status = "pending"
     THEN [phase[parent][i] EXCEPT !.status = "in_progress"] ELSE phase[parent][i]]

\* `plan branch`, by a terminal (moved onto the branch) or by a person.
Branch(parent, p, refs, n, who) ==
  LET depth == plan[parent].depth + 1 IN
  /\ IsOpen(parent)
  /\ depth <= MaxBranchDepth
  /\ AnchorPhases(parent, refs) # {}
  /\ who \subseteq livePty
  /\ n \in 1..PhaseRoom[p]
  /\ InsertPlan(p, parent, depth)
  /\ phase' = [phase EXCEPT ![parent] = StartAnchors(parent, AnchorPhases(parent, refs)),
                            ![p] = InitialPhases(n, FALSE, "none")]
  /\ anchor' = [anchor EXCEPT ![p] = AnchorPhases(parent, refs)]
  /\ att' = [y \in Pty |-> IF y \in who THEN p ELSE att[y]]
  /\ UNCHANGED livePty

-----------------------------------------------------------------------------
\* skip_remaining_phases
SkipRemaining(rows) ==
  [i \in DOMAIN rows |-> IF rows[i].status \in Finished THEN rows[i]
                         ELSE [rows[i] EXCEPT !.status = "skipped"]]

\* close_branch_into_parent, phases: completing a branch releases the
\* blocked phases of an open parent it was opened for.
ReleaseAnchors(p, status) ==
  LET parent == plan[p].parent IN
  [i \in Phases(parent) |->
     IF /\ status = "completed"
        /\ i \in anchor[p]
        /\ phase[parent][i].status = "blocked"
     THEN [phase[parent][i] EXCEPT !.status = "in_progress"] ELSE phase[parent][i]]

\* Mutant: terminals pop to the parent whether it is open or not.
PopTerminalsUnchecked(p) ==
  [y \in Pty |-> IF att[y] = p THEN plan[p].parent ELSE att[y]]

\* close_branch_into_parent, attachments: the terminals of a closing branch
\* move to its open parent if they are live, and are detached otherwise.
PopTerminals(p) ==
  LET parent == plan[p].parent IN
  [y \in Pty |-> CASE att[y] # p -> att[y]
                   [] att[y] = p /\ parent # 0 /\ IsOpen(parent) /\ y \in livePty -> parent
                   [] OTHER -> 0]

\* What `update` refuses: `return` on a root, closing a plan whose branches
\* are open, completing one with unfinished phases unless they are skipped.
UpdateRefused(p, status, skip, requireBranch) ==
  \/ requireBranch /\ plan[p].parent = 0
  \/ status \in ClosedStatus /\ \E c \in Branches(p) : IsOpen(c)
  \/ /\ status = "completed" /\ ~skip
     /\ \E i \in Phases(p) : phase[p][i].status \notin Finished

\* plans::update, the commands `plan status`, `plan close` and `plan return`
\* and PATCH of a plan.  A closed plan is not refused: it may be closed
\* again or set back to active.
Update(p, status, skip, requireBranch) ==
  LET own == IF status \in ClosedStatus /\ skip THEN SkipRemaining(phase[p]) ELSE phase[p]
      closing == status \in ClosedStatus
      parent == plan[p].parent
  IN
  /\ plan[p].status # "none"
  /\ ~UpdateRefused(p, status, skip, requireBranch)
  /\ plan' = [plan EXCEPT ![p].status = status]
  /\ phase' = IF closing /\ parent # 0 /\ IsOpen(parent)
              THEN [phase EXCEPT ![p] = own, ![parent] = ReleaseAnchors(p, status)]
              ELSE [phase EXCEPT ![p] = own]
  /\ att' = IF closing THEN PopTerminals(p) ELSE att
  /\ UNCHANGED <<anchor, livePty>>

-----------------------------------------------------------------------------
Attach(p, y) ==
  /\ IsOpen(p)
  /\ CanAttach(y)
  /\ att' = AttachIn(att, y, p)
  /\ UNCHANGED <<plan, phase, anchor, livePty>>

Detach(p, y) ==
  /\ att[y] = p
  /\ att' = [att EXCEPT ![y] = 0]
  /\ UNCHANGED <<plan, phase, anchor, livePty>>

\* The position of an added phase is one past the highest.
AddPhase(p, status) ==
  LET top == CHOOSE m \in 0..Cardinality(Phases(p)) :
               /\ \A i \in Phases(p) : phase[p][i].pos <= m
               /\ m = 0 \/ \E i \in Phases(p) : phase[p][i].pos = m
  IN
  /\ IsOpen(p)
  /\ Cardinality(Phases(p)) < PhaseRoom[p]
  /\ phase' = [phase EXCEPT ![p] =
        [i \in 1..(Cardinality(Phases(p)) + 1) |->
           IF i \in Phases(p) THEN phase[p][i] ELSE [pos |-> top + 1, status |-> status]]]
  /\ UNCHANGED <<plan, anchor, att, livePty>>

\* move_phase: the request is clamped to 1..count, the phases in between
\* shift by one towards the place that was freed.
MovePhase(rows, i, wanted) ==
  LET old == rows[i].pos
      count == Cardinality(DOMAIN rows)
      new == CASE wanted < 1 -> 1 [] wanted > count -> count [] OTHER -> wanted
  IN  [j \in DOMAIN rows |->
         [rows[j] EXCEPT !.pos =
            CASE j = i -> new
              [] j # i /\ new <= @ /\ @ < old -> @ + 1
              [] j # i /\ old < @ /\ @ <= new -> @ - 1
              [] OTHER -> @]]

\* update_phase: a move (wanted # none, here the old position) and a status.
UpdatePhase(p, i, status, wanted) ==
  /\ IsOpen(p)
  /\ i \in Phases(p)
  /\ phase' = [phase EXCEPT ![p] =
        LET moved == MovePhase(phase[p], i, wanted)
        IN  [moved EXCEPT ![i].status = status]]
  /\ UNCHANGED <<plan, anchor, att, livePty>>

\* The terminal's process ends: its row is no longer live (pty/mod.rs).
PtyEnds(y) ==
  /\ y \in livePty
  /\ livePty' = livePty \ {y}
  /\ UNCHANGED <<plan, phase, anchor, att>>

-----------------------------------------------------------------------------
\* What the commands `plan status`, `plan close` and `plan return` and a
\* PATCH ask of Update.
StatusArgs == [status : AskPlan, skip : {FALSE}, branch : {FALSE}]
CloseArgs == [status : ClosedStatus, skip : BOOLEAN, branch : {FALSE}]
ReturnArgs == [status : ClosedStatus, skip : BOOLEAN, branch : {TRUE}]
PatchArgs == [status : AskPlan, skip : BOOLEAN, branch : BOOLEAN]

\* A phase is named by its 1-based position or by its id; a plan by its id,
\* or it is the one the terminal is attached to.
PhaseAt(p, position) == {i \in Phases(p) : phase[p][i].pos = position}
PlansOf(y, named) == IF named = 0 THEN {att[y]} \ {0}
                     ELSE {p \in PlanIds : p = named /\ plan[p].status # "none"}

\* dispatch_control: a request of a live terminal.
Dispatch(y) ==
  /\ y \in livePty
  /\ \/ \E p \in PlanIds, s \in AskStatus \cup {"none"} : Start(y, p, 1, FALSE, s)
     \/ \E named \in 0..MaxPlan : \E p \in PlansOf(y, named) :
           \/ \E new \in PlanIds, refs \in {{}} \cup {{i} : i \in Phases(p)} :
                 Branch(p, new, refs, 1, {y})
           \/ \E a \in StatusArgs \cup CloseArgs \cup ReturnArgs :
                 Update(p, a.status, a.skip, a.branch)
           \/ \E s \in AskStatus : AddPhase(p, s)
           \/ \E at \in 1..PhaseRoom[p], s \in AskStatus : \E i \in PhaseAt(p, at) :
                 UpdatePhase(p, i, s, at)
           \/ Attach(p, y)
           \/ Detach(p, y)

\* The HTTP routes: any plan, and attachments of any terminal.
HttpRoute ==
  \/ \E p \in PlanIds, b \in BOOLEAN : CreateByUser(p, PhaseRoom[p], b)
  \/ \E p, new \in PlanIds : \E refs \in {{i} : i \in Phases(p)} : Branch(p, new, refs, 1, {})
  \/ \E p \in PlanIds, a \in PatchArgs : Update(p, a.status, a.skip, a.branch)
  \/ \E p \in PlanIds, s \in AskStatus : AddPhase(p, s)
  \/ \E p \in PlanIds : \E i \in Phases(p), w \in 0..(PhaseRoom[p] + 1) :
        UpdatePhase(p, i, phase[p][i].status, w)
  \/ \E p \in PlanIds, y \in Pty : Attach(p, y) \/ Detach(p, y)

PlansNext == HttpRoute \/ (\E y \in Pty : Dispatch(y) \/ PtyEnds(y))

-----------------------------------------------------------------------------
PlansTypeOK ==
  /\ \A p \in PlanIds : /\ plan[p].status \in OpenStatus \cup ClosedStatus \cup {"none"}
                        /\ plan[p].parent \in 0..(p - 1)
                        /\ plan[p].depth \in 0..MaxBranchDepth
                        /\ \A i \in Phases(p) : phase[p][i].status \in PhaseStatus
                        /\ plan[p].parent # 0 => anchor[p] \subseteq Phases(plan[p].parent)
  /\ att \in [Pty -> 0..MaxPlan]
  /\ livePty \subseteq Pty

\* A completed plan has no unfinished phase, whatever was added, moved,
\* blocked or released by the closing of a branch since (plans.rs update,
\* plans/phases.rs, close_branch_into_parent).
CompletedIsFinished ==
  \A p \in PlanIds : plan[p].status = "completed" =>
     \A i \in Phases(p) : phase[p][i].status \in Finished

\* A terminal works on an open plan or on none: closing a plan, at any depth
\* and with terminals that have exited, leaves no attachment behind and pops
\* the live ones only onto an open parent (branches.rs).
AttachedIsOpen == \A y \in Pty : att[y] # 0 => IsOpen(att[y])

\* The positions of a plan's phases are 1, 2, ... without gap or repetition,
\* so the 1-based position a `plan phase set` names is always one phase
\* (phases.rs add_phase, move_phase, resolve_phase_id).
PositionsDense ==
  \A p \in PlanIds :
     {phase[p][i].pos : i \in Phases(p)} = 1..Cardinality(Phases(p))

\* "A closed parent would strand its open branches: ... Close the tree
\* bottom-up instead" (plans.rs:186): an open branch has an open parent.
NoStrandedBranch ==
  \A p \in PlanIds : IsOpen(p) /\ plan[p].parent # 0 => IsOpen(plan[p].parent)
=============================================================================
