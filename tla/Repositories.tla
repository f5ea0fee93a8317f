---------------------------- MODULE Repositories ----------------------------
(***************************************************************************)
(* Repositories and their workspaces on a node: the directories under the  *)
(* repository root, the rows that mirror them, and the operations on both  *)
(* (repo_lifecycle.rs, repo_state.rs, worktree.rs, meta_repos.rs and the   *)
(* dispatch in node_runtime).                                              *)
(*                                                                         *)
(* A lifecycle gate (a read-write lock of the node process) is held by     *)
(* create, rename and delete for their whole length, and shared by session *)
(* launches, worktree deletions, the status pollers and the scans.  Inside *)
(* the gate an operation changes the disk and then the rows, so a failure  *)
(* or a crash can fall between the two.  A path and a name go together, so *)
(* a main workspace is the state of the row that holds the path of its     *)
(* name; the path stays taken when the row is deleted.  One worktree and   *)
(* one session.  Git, file contents and node ownership are left out.       *)
(***************************************************************************)
EXTENDS Integers, FiniteSets

CONSTANTS Name,      \* repository names, numbers in the order of the scan
          MaxOps,    \* bound on creations, renames and deletions
          MaxRepoFault   \* bound on crashes and on failures that leave rows behind

Tree == 99          \* the worktree among the rows the poller reads

ASSUME RepoAssumption == Name \subseteq Nat \ {0, Tree} /\ MaxRepoFault \in Nat

VARIABLES dirs,      \* directories under the repository root
          known,     \* repo_runtime_state: "none", "present" or "absent"
          main,      \* main workspace rows, by path
          tree,      \* the worktree: its row and its directory
          session,   \* the session: state, repository and workspace
          grouped,   \* names that are members of a meta-repository
          op,        \* the operation holding the gate for itself
          launch, removal, poll,   \* holders of a share of the gate
          ops, repoFaults

repoVars == <<dirs, known, main, tree, session, grouped, op, launch, removal, poll, ops, repoFaults>>
rows == <<known, main, tree, session, grouped>>
shares == <<launch, removal, poll>>

RowState == {"none", "active", "missing", "deleted"}
Quiet == [kind |-> "idle", from |-> 0, to |-> 0]
NoLaunch == [at |-> "idle", repo |-> 0, mode |-> "main"]

RepoInit ==
  /\ dirs = {} /\ known = [n \in Name |-> "none"] /\ main = [n \in Name |-> "none"]
  /\ tree = [repo |-> 0, st |-> "none", dir |-> FALSE]
  /\ session = [st |-> "none", repo |-> 0, at |-> "main"]
  /\ grouped = {} /\ op = Quiet /\ launch = NoLaunch
  /\ removal = "idle" /\ poll = 0 /\ ops = 0 /\ repoFaults = 0

\* RepoLifecycleGate: the exclusive side, and a share.
GateFree == op = Quiet /\ launch = NoLaunch /\ removal = "idle" /\ poll = 0
GateShared == op = Quiet

-----------------------------------------------------------------------------
\* create_repo: clone or init, then upsert_repo; a failing command may leave
\* the directory, without a row.
CreateDir(n) ==
  /\ GateFree /\ ops < MaxOps /\ n \notin dirs
  /\ dirs' = dirs \cup {n} /\ ops' = ops + 1
  /\ op' \in {[Quiet EXCEPT !.kind = "create", !.to = n], Quiet}
  /\ UNCHANGED <<known, main, tree, session, grouped, launch, removal, poll, repoFaults>>

CreateRow ==
  /\ op.kind = "create"
  /\ known' = [known EXCEPT ![op.to] = "present"] /\ op' = Quiet
  /\ UNCHANGED <<dirs, main, tree, session, grouped, launch, removal, poll, ops, repoFaults>>

\* ensure_no_live_repo_sessions, ensure_no_active_repo_worktrees,
\* ensure_repo_name_available.
NoLiveSession(n) == ~(session.st = "live" /\ session.repo = n)
\* Mutant: only active worktrees hold the repository.
NoWorktreeActive(n) == ~(tree.repo = n /\ tree.st = "active")

NoWorktree(n) == ~(tree.repo = n /\ tree.st \notin {"none", "deleted"})
NameAvailable(n) ==
  /\ ~(session.st # "none" /\ session.repo = n)
  /\ main[n] \notin {"active", "missing"} /\ NoWorktree(n)
  /\ known[n] # "present" /\ n \notin grouped

\* rename_repo_runtime: the directory, then rename_repo_records in one
\* transaction, which fails when the new path is taken by a deleted row.
RenameDir(a, b) ==
  /\ GateFree /\ ops < MaxOps
  /\ a \in dirs /\ a # b /\ NoLiveSession(a) /\ NoWorktree(a) /\ NameAvailable(b) /\ b \notin dirs
  /\ dirs' = (dirs \ {a}) \cup {b} /\ ops' = ops + 1
  /\ op' = [kind |-> "rename", from |-> a, to |-> b]
  /\ UNCHANGED <<known, main, tree, session, grouped, launch, removal, poll, repoFaults>>

PathTaken == main[op.from] \in {"active", "missing"} /\ main[op.to] # "none"

RenamedKnown == [known EXCEPT ![op.from] = "none", ![op.to] = "present"]
RenamedMain ==
  IF main[op.from] \in {"active", "missing"}
  THEN [main EXCEPT ![op.from] = "none", ![op.to] = main[op.from]] ELSE main
RenamedSession == IF session.repo = op.from THEN [session EXCEPT !.repo = op.to] ELSE session
RenamedGroup == IF op.from \in grouped THEN (grouped \ {op.from}) \cup {op.to} ELSE grouped

RenameRows ==
  /\ op.kind = "rename" /\ ~PathTaken
  /\ known' = RenamedKnown /\ main' = RenamedMain
  /\ session' = RenamedSession /\ grouped' = RenamedGroup
  /\ op' = Quiet
  /\ UNCHANGED <<dirs, tree, launch, removal, poll, ops, repoFaults>>

\* The transaction fails and the directory is put back, or that fails too.
RenameGivesUp ==
  /\ op.kind = "rename"
  /\ \/ dirs' = (dirs \ {op.to}) \cup {op.from} /\ repoFaults' = repoFaults
     \/ repoFaults < MaxRepoFault /\ repoFaults' = repoFaults + 1 /\ dirs' = dirs
  /\ op' = Quiet
  /\ UNCHANGED <<known, main, tree, session, grouped, launch, removal, poll, ops>>

\* delete_repo_runtime: the directory, then mark_repo_deleted_records.
DeleteDir(n) ==
  /\ GateFree /\ ops < MaxOps /\ n \in dirs /\ NoLiveSession(n) /\ NoWorktree(n)
  /\ dirs' = dirs \ {n} /\ ops' = ops + 1
  /\ op' = [Quiet EXCEPT !.kind = "delete", !.from = n]
  /\ UNCHANGED <<known, main, tree, session, grouped, launch, removal, poll, repoFaults>>

\* remove_repo_membership.
Ungrouped(n) == grouped \ {n}

DeleteRows ==
  /\ op.kind = "delete"
  /\ known' = [known EXCEPT ![op.from] = IF @ = "none" THEN @ ELSE "absent"]
  /\ main' = [main EXCEPT ![op.from] = IF @ = "none" THEN @ ELSE "deleted"]
  /\ grouped' = Ungrouped(op.from) /\ op' = Quiet
  /\ UNCHANGED <<dirs, tree, session, launch, removal, poll, ops, repoFaults>>

\* meta_repos create and update, in the control process and outside the gate.
Groupable(s) == s # {} /\ \A n \in s : known[n] = "present"

MetaSave(s) ==
  /\ Groupable(s) /\ grouped' = s /\ grouped # s
  /\ UNCHANGED <<dirs, known, main, tree, session, op, launch, removal, poll, ops, repoFaults>>

-----------------------------------------------------------------------------
\* Mutant: a row whose directory is gone stays present.
SyncReposKeeps ==
  /\ GateShared
  /\ known' = [n \in Name |-> IF n \in dirs THEN "present" ELSE known[n]]
  /\ known' # known
  /\ UNCHANGED <<dirs, main, tree, session, grouped, op, launch, removal, poll, ops, repoFaults>>

\* sync_repos_once.
SyncRepos ==
  /\ GateShared
  /\ known' = [n \in Name |-> IF n \in dirs THEN "present"
                              ELSE IF known[n] = "present" THEN "absent" ELSE known[n]]
  /\ known' # known
  /\ UNCHANGED <<dirs, main, tree, session, grouped, op, launch, removal, poll, ops, repoFaults>>

\* ensure_main_workspace_owned: a row that is not deleted is brought up to
\* date, a new one inserted; the insert fails when the path is taken, and
\* then a row that is not deleted is looked for again.
EnsureFails(n) == main[n] = "deleted"

\* sync_main_workspaces_once: in the order of names, to the first error.
SyncMains ==
  /\ GateShared
  /\ main' = [n \in Name |-> IF n \in dirs /\ \A m \in dirs : m <= n => ~EnsureFails(m)
                             THEN "active" ELSE main[n]]
  /\ main' # main
  /\ UNCHANGED <<dirs, known, tree, session, grouped, op, launch, removal, poll, ops, repoFaults>>

\* create_session: the repository must exist, and for a meta-repository every
\* member; then its main workspace, a new worktree or the existing one; then
\* the shell and the row.
ScopeHolds(n, mode) ==
  n \in dirs /\ (mode = "group" => n \in grouped /\ \A m \in grouped : known[m] = "present" /\ m \in dirs)

LaunchBegin(n, mode) ==
  /\ GateShared /\ launch = NoLaunch /\ session.st = "none" /\ ScopeHolds(n, mode)
  /\ launch' = [at |-> "workspace", repo |-> n, mode |-> mode]
  /\ UNCHANGED <<dirs, rows, op, removal, poll, ops, repoFaults>>

LaunchMain ==
  /\ launch.at = "workspace" /\ launch.mode \in {"main", "group"}
  /\ IF EnsureFails(launch.repo)
     THEN launch' = NoLaunch /\ main' = main
     ELSE launch' = [launch EXCEPT !.at = "shell"] /\ main' = [main EXCEPT ![launch.repo] = "active"]
  /\ UNCHANGED <<dirs, known, tree, session, grouped, op, removal, poll, ops, repoFaults>>

\* create_worktree_workspace_owned: git worktree add, then the row; the
\* insert may fail and leave the directory.
LaunchAdds ==
  /\ launch.at = "workspace" /\ launch.mode = "isolated" /\ tree.st = "none" /\ ~tree.dir
  /\ tree' = [tree EXCEPT !.dir = TRUE] /\ launch' = [launch EXCEPT !.at = "row"]
  /\ UNCHANGED <<dirs, known, main, session, grouped, op, removal, poll, ops, repoFaults>>

LaunchRow ==
  /\ launch.at = "row"
  /\ \/ tree' = [tree EXCEPT !.repo = launch.repo, !.st = "active"]
        /\ launch' = [launch EXCEPT !.at = "shell"]
     \/ tree' = tree /\ launch' = NoLaunch
  /\ UNCHANGED <<dirs, known, main, session, grouped, op, removal, poll, ops, repoFaults>>

LaunchExisting ==
  /\ launch.at = "workspace" /\ launch.mode = "existing"
  /\ launch' = IF tree.repo = launch.repo /\ tree.st = "active"
               THEN [launch EXCEPT !.at = "shell"] ELSE NoLaunch
  /\ UNCHANGED <<dirs, rows, op, removal, poll, ops, repoFaults>>

LaunchShell ==
  /\ launch.at = "shell"
  /\ session' \in {[st |-> "live", repo |-> launch.repo,
                    at |-> IF launch.mode \in {"main", "group"} THEN "main" ELSE "tree"], session}
  /\ launch' = NoLaunch
  /\ UNCHANGED <<dirs, known, main, tree, grouped, op, removal, poll, ops, repoFaults>>

LaunchRefused ==
  /\ launch.at = "workspace" /\ launch.mode = "isolated" /\ (tree.st # "none" \/ tree.dir)
  /\ launch' = NoLaunch
  /\ UNCHANGED <<dirs, rows, op, removal, poll, ops, repoFaults>>

\* The shell ends; the session is deleted.
SessionEnds ==
  /\ session.st \in {"live", "ended"}
  /\ session' = IF session.st = "live" THEN [session EXCEPT !.st = "ended"]
                ELSE [session EXCEPT !.st = "none", !.repo = 0]
  /\ UNCHANGED <<dirs, known, main, tree, grouped, op, shares, ops, repoFaults>>

-----------------------------------------------------------------------------
\* delete_workspace: no live session may be bound to it and its repository
\* must be there; git removes the directory, then the row is marked.
RemoveTree ==
  /\ GateShared /\ removal = "idle" /\ tree.st # "none"
  /\ ~(session.st = "live" /\ session.at = "tree") /\ tree.repo \in dirs
  /\ tree.st # "deleted"
  /\ tree' = [tree EXCEPT !.dir = FALSE] /\ removal' = "row"
  /\ UNCHANGED <<dirs, known, main, session, grouped, op, launch, poll, ops, repoFaults>>

RemoveRow ==
  /\ removal = "row"
  /\ tree' = [tree EXCEPT !.st = "deleted"] /\ removal' = "idle"
  /\ UNCHANGED <<dirs, known, main, session, grouped, op, launch, poll, ops, repoFaults>>

\* reconcile_due_once: active rows are read, then each path is looked at; a
\* path that is gone marks the row missing, whatever has become of it.
PollRead(w) ==
  /\ GateShared /\ poll = 0
  /\ \/ w \in Name /\ main[w] = "active"
     \/ w = Tree /\ tree.st = "active"
  /\ poll' = w
  /\ UNCHANGED <<dirs, rows, op, launch, removal, ops, repoFaults>>

PollEnds ==
  /\ poll # 0 /\ poll' = 0
  /\ main' = IF poll \in Name \ dirs THEN [main EXCEPT ![poll] = "missing"] ELSE main
  /\ tree' = IF poll = Tree /\ ~tree.dir THEN [tree EXCEPT !.st = "missing"] ELSE tree
  /\ UNCHANGED <<dirs, known, session, grouped, op, launch, removal, ops, repoFaults>>

\* The node process ends: every operation stops where it is.  A row update
\* that fails in create or delete stops the operation in the same way.
NodeStops ==
  /\ ~GateFree /\ repoFaults < MaxRepoFault
  /\ repoFaults' = repoFaults + 1 /\ op' = Quiet /\ launch' = NoLaunch /\ removal' = "idle" /\ poll' = 0
  /\ UNCHANGED <<dirs, rows, ops>>

RepoNext ==
  \/ \E n \in Name : CreateDir(n) \/ DeleteDir(n)
  \/ \E a, b \in Name : RenameDir(a, b)
  \/ CreateRow \/ RenameRows \/ RenameGivesUp \/ DeleteRows
  \/ \E s \in SUBSET Name : MetaSave(s)
  \/ SyncRepos \/ SyncMains
  \/ \E n \in Name, mode \in {"main", "group", "isolated", "existing"} : LaunchBegin(n, mode)
  \/ LaunchMain \/ LaunchAdds \/ LaunchRow \/ LaunchExisting \/ LaunchShell \/ LaunchRefused
  \/ SessionEnds \/ RemoveTree \/ RemoveRow
  \/ \E w \in Name \cup {Tree} : PollRead(w)
  \/ PollEnds \/ NodeStops

\* Operations run to their end, the scans every 30 seconds and the pollers
\* every 2 seconds, oldest row first, with the lock granted in turn.
RepoFairness ==
  /\ WF_repoVars(CreateRow) /\ WF_repoVars(RenameRows \/ RenameGivesUp) /\ WF_repoVars(DeleteRows)
  /\ WF_repoVars(LaunchMain \/ LaunchAdds \/ LaunchRow \/ LaunchExisting \/ LaunchShell \/ LaunchRefused)
  /\ WF_repoVars(RemoveRow) /\ WF_repoVars(PollEnds)
  /\ SF_repoVars(SyncRepos)
  /\ \A w \in Name : SF_repoVars(PollRead(w))

-----------------------------------------------------------------------------
RepoTypeOK ==
  /\ dirs \subseteq Name /\ grouped \subseteq Name
  /\ known \in [Name -> {"none", "present", "absent"}] /\ main \in [Name -> RowState]
  /\ tree.st \in RowState /\ session.st \in {"none", "live", "ended"}

\* A worktree that is not deleted keeps its repository: no rename or delete
\* takes it away, whatever of launching, removing, polling and crashing
\* comes between (ensure_no_active_repo_worktrees under the gate).
RepoOutlivesWorktrees == tree.st \in {"active", "missing"} => tree.repo \in dirs

\* Without a crash or a failed roll-back the rows name directories that
\* exist once an operation is over: a live session's repository, a known
\* repository, an active main workspace.
RowsFollowTheDirectory ==
  op = Quiet /\ repoFaults = 0 =>
    /\ session.st = "live" => session.repo \in dirs
    /\ \A n \in Name : (known[n] = "present" \/ main[n] = "active") => n \in dirs

\* What a crash leaves behind is repaired: the rows come to agree with the
\* directories (sync_repos_once, reconcile_workspace_inner).
DiskWins ==
  <>[](\A n \in Name : /\ known[n] = "present" <=> n \in dirs
                       /\ main[n] = "active" => n \in dirs)

=============================================================================
