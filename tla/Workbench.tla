------------------------------ MODULE Workbench ------------------------------
(***************************************************************************)
(* The parts around a terminal: its attachment and the wire to its node,   *)
(* the agent it runs, its plans and prompts, its repositories and services,*)
(* its secrets, and the browser's sign-in.  They share no state: each is   *)
(* checked in full while the others rest, and a part's environment (the    *)
(* node, the agent, Git, Docker, the clock) is in its own module.          *)
(***************************************************************************)
EXTENDS TerminalAttach, NodeWire, NodeEnroll, Plans, AgentBinding,
        ModelGuard, SubmittedPrompts, Repositories, RepoStatus, DoraCollect,
        PostgresService, SecretGrants, SignedUse, BrowserAuth

CONSTANT Parts  \* the parts a run is about

VARIABLE focus  \* the part that takes the steps of this behaviour

\* Values for a run: a plan with two phases and a branch with one.
TwoAndOne == <<2, 1>>

workbenchVars == <<focus, termVars, wireState, enrollVars, planVars, bindingVars,
                   guardVars, promptVars, repoVars, statusVars, doraVars,
                   pgVars, grantVars, useVars, authVars>>

\* The parts of this module.
AllParts == {"terminal", "wire", "enroll", "plans", "binding", "guard",
             "prompts", "repos", "status", "dora", "postgres", "grants",
             "use", "auth"}

ASSUME PartsAssumption == Parts \subseteq AllParts

Init ==
    /\ focus \in Parts
    /\ TermInit /\ WireInit /\ EnrollInit /\ PlansInit /\ BindingInit
    /\ GuardInit /\ PromptInit /\ RepoInit /\ StatusInit /\ DoraInit
    /\ PgInit /\ GrantsInit /\ UseInit /\ AuthInit

\* Every part but the one in focus keeps its state.
OthersRest ==
    /\ UNCHANGED focus
    /\ focus # "terminal" => UNCHANGED termVars
    /\ focus # "wire" => UNCHANGED wireState
    /\ focus # "enroll" => UNCHANGED enrollVars
    /\ focus # "plans" => UNCHANGED planVars
    /\ focus # "binding" => UNCHANGED bindingVars
    /\ focus # "guard" => UNCHANGED guardVars
    /\ focus # "prompts" => UNCHANGED promptVars
    /\ focus # "repos" => UNCHANGED repoVars
    /\ focus # "status" => UNCHANGED statusVars
    /\ focus # "dora" => UNCHANGED doraVars
    /\ focus # "postgres" => UNCHANGED pgVars
    /\ focus # "grants" => UNCHANGED grantVars
    /\ focus # "use" => UNCHANGED useVars
    /\ focus # "auth" => UNCHANGED authVars

Next ==
    \/ focus = "terminal" /\ TermNext /\ OthersRest
    \/ focus = "wire" /\ WireNext /\ OthersRest
    \/ focus = "enroll" /\ EnrollNext /\ OthersRest
    \/ focus = "plans" /\ PlansNext /\ OthersRest
    \/ focus = "binding" /\ BindingNext /\ OthersRest
    \/ focus = "guard" /\ GuardNext /\ OthersRest
    \/ focus = "prompts" /\ PromptNext /\ OthersRest
    \/ focus = "repos" /\ RepoNext /\ OthersRest
    \/ focus = "status" /\ StatusNext /\ OthersRest
    \/ focus = "dora" /\ DoraNext /\ OthersRest
    \/ focus = "postgres" /\ PgNext /\ OthersRest
    \/ focus = "grants" /\ GrantsNext /\ OthersRest
    \/ focus = "use" /\ UseNext /\ OthersRest
    \/ focus = "auth" /\ AuthNext /\ OthersRest

Spec == Init /\ [][Next]_workbenchVars

WorkbenchTypeOK ==
    /\ focus = "terminal" => TermTypeOK
    /\ focus = "wire" => WireTypeOK
    /\ focus = "enroll" => EnrollTypeOK
    /\ focus = "plans" => PlansTypeOK
    /\ focus = "binding" => BindingTypeOK
    /\ focus = "guard" => GuardTypeOK
    /\ focus = "prompts" => PromptTypeOK
    /\ focus = "repos" => RepoTypeOK
    /\ focus = "status" => StatusTypeOK
    /\ focus = "dora" => DoraTypeOK
    /\ focus = "postgres" => PgTypeOK
    /\ focus = "grants" => GrantsTypeOK
    /\ focus = "use" => UseTypeOK
    /\ focus = "auth" => AuthTypeOK

-----------------------------------------------------------------------------
(* What each part promises at every step.  A part at rest stays as it      *)
(* began, so its promise is looked at while it is in focus.                *)

\* Keystrokes reach the shell in the order they were typed (InputInOrder), and
\* no output is drawn twice in a tab that attaches while the shell prints
\* (NothingDrawnTwice).
TerminalFaithful == []InputInOrder /\ NothingDrawnTwice

\* Control processes that race on a fresh database serve one identity
\* (OneIdentity), and a node that has paired never takes another
\* (PairedForGood).
EnrollmentHolds == []OneIdentity /\ PairedForGood

\* A completed plan has only finished phases (CompletedIsFinished), a terminal
\* is attached to an open plan (AttachedIsOpen), and the phases of a plan are
\* numbered without a hole (PositionsDense), whatever order of editing,
\* branching, returning, moving and closing led there.
PlansConsistent ==
    focus = "plans" => CompletedIsFinished /\ AttachedIsOpen /\ PositionsDense

\* What is derived of an agent follows the agent: activity only while one runs
\* (DerivedWhileRunning), no second question about a model that was accepted
\* (AcceptedIsNotAskedAgain), one turn for each prompt (OneTurnPerPrompt).
AgentStateSound ==
    /\ focus = "binding" => DerivedWhileRunning
    /\ focus = "guard" => AcceptedIsNotAskedAgain
    /\ focus = "prompts" => OneTurnPerPrompt

\* What is recorded of a repository follows the disk and its history: it stays
\* while it has worktrees (RepoOutlivesWorktrees), rows name directories that
\* exist (RowsFollowTheDirectory), no listing is paired with another's revision
\* (NoStaleListing), and a commit is credited to the first deployment with it
\* (CreditedToFirst).
ReposConsistent ==
    /\ focus = "repos" => RepoOutlivesWorktrees /\ RowsFollowTheDirectory
    /\ focus = "status" => NoStaleListing
    /\ focus = "dora" => CreditedToFirst

\* Callers of the container runner are handed databases of their own key only
\* (OnlyOwnServices), and a clean-up leaves other workspaces' databases alone
\* (CleanSparesWorkspace).
ServicesSpared == []OnlyOwnServices /\ CleanSparesWorkspace

\* A use of secrets gives one value per variable (OneValuePerVariable), and
\* leaves an audit row for each secret it took from (AnsweredIsAudited).
SecretsSound ==
    focus = "grants" => OneValuePerVariable /\ AnsweredIsAudited

\* Who asks is known: a token that a sign-out refused stays refused
\* (RefusedForGood), keys are taken from the cache only while they are current
\* (KeysAreCurrent), a signed use is honoured once (HonouredOnce), and a running
\* shell's key is the registered one (ShellHoldsTheKey).
SignInSound ==
    /\ focus = "auth" => RefusedForGood /\ KeysAreCurrent
    /\ focus = "use" => HonouredOnce /\ ShellHoldsTheKey

-----------------------------------------------------------------------------
(* What each part promises under the fairness of its own tasks.            *)

\* A closed tab's attachment ends on the node too (ClosedTabDetaches),
\* whatever was in flight between control and the node.
TabsDetach == (focus = "terminal" /\ TermFairness) => ClosedTabDetaches

\* A terminal stream that control drops for being slow is closed for the
\* browser as well (DroppedStreamCloses).
DroppedTabsClose == (focus = "terminal" /\ TermFairness) => DroppedStreamCloses

\* A call to a node returns: with the answer, an error or a timeout
\* (CallReturns).
CallsReturn == (focus = "wire" /\ WireFairness) => CallReturns

\* A node that starts to enroll ends with a pinned key and certificate that
\* control holds, through crashes and redeployments (EnrollmentEnds).
NodesEnroll == (focus = "enroll" /\ EnrollFairness) => EnrollmentEnds

\* A model switch the user refused is undone in the end (SwitchIsEnforced).
SwitchesAreEnforced == (focus = "guard" /\ GuardFairness) => SwitchIsEnforced

\* Prompts sent through the API find their turns (PromptsAreMatched).
AllPromptsMatched == (focus = "prompts" /\ PromptFairness) => PromptsAreMatched

\* The repository rows come to agree with the directories after crashes
\* between the two (DiskWins).
RowsCatchUp == (focus = "repos" /\ RepoFairness) => DiskWins

\* A client's status of a repository comes to be that of the working tree
\* (StatusCatchesUp).
ListingsCatchUp == (focus = "status" /\ StatusFairness) => StatusCatchesUp

\* Every deployment is counted, rate limits and failing requests
\* notwithstanding (DeploymentsAreCounted).
DeploymentsCounted == (focus = "dora" /\ DoraFairness) => DeploymentsAreCounted

\* A request for a database returns while others remove containers
\* (EnsureReturns).
EnsuresReturn == (focus = "postgres" /\ PgFairness) => EnsureReturns

\* Terminals and their nodes settle: tabs detach and close, calls return, nodes
\* enroll.
TerminalsSettle == TabsDetach /\ DroppedTabsClose /\ CallsReturn /\ NodesEnroll

\* What was asked of agents happens: refused switches are undone and prompts
\* find their turns.
AgentsSettle == SwitchesAreEnforced /\ AllPromptsMatched

\* What is recorded of repositories and their services catches up with the
\* world: rows, listings, deployments, databases.
ReposSettle ==
    RowsCatchUp /\ ListingsCatchUp /\ DeploymentsCounted /\ EnsuresReturn

=============================================================================
