------------------------------ MODULE RepoStatus ------------------------------
(***************************************************************************)
(* The status of one repository as the browser sees it: the poller that    *)
(* reads git and writes the row only when a fingerprint changes            *)
(* (repo_state.rs; the workspace poller of worktree.rs has the same        *)
(* shape), the listing of changed paths a client caches under a revision,  *)
(* and the CI check that follows the status refresh (repo_ci.rs).          *)
(*                                                                         *)
(* The working tree is a number, a different one for every different       *)
(* status; 0 is a clean tree.  The listing is read in two statements.      *)
(***************************************************************************)
EXTENDS Integers

CONSTANTS HeadBranch,     \* branches of the repository
          MaxChange,  \* bound on the changes to the working tree and branch
          MaxCheck    \* bound on the CI answers and on the renames

ASSUME StatusAssumption == HeadBranch # {} /\ MaxChange \in Nat

VARIABLES work,       \* the working tree and branch on disk
          seen,       \* what git printed to the pass under way, or Idle
          row,        \* repo_runtime_state: fingerprint, branch, revision, ci
          dirty,      \* repo_dirty_paths, as the status they were written from
          client,     \* the browser's listing and its revision
          loading,    \* a load_dirty_paths between its two statements, or -1
          checking,   \* the branch of the CI request under way, or Off
          changes, checks

statusVars == <<work, seen, row, dirty, client, loading, checking, changes, checks>>

Off == "off"
NoRun == [branch |-> Off, run |-> 0]
Nothing == [tree |-> -1, branch |-> Off]

StatusInit ==
  /\ work = [tree |-> 0, branch |-> CHOOSE b \in HeadBranch : TRUE]
  /\ seen = Nothing
  /\ row = [print |-> Nothing, revision |-> 0, ci |-> NoRun]
  /\ dirty = -1 /\ client = [revision |-> -1, dirty |-> -1] /\ loading = -1
  /\ checking = Off /\ changes = 0 /\ checks = 0

\* Work in the repository: files change, a branch is checked out (external).
Work(b) ==
  /\ changes < MaxChange
  /\ work' = [tree |-> work.tree + 1, branch |-> b]
  /\ changes' = changes + 1
  /\ UNCHANGED <<seen, row, dirty, client, loading, checking, checks>>

\* reconcile_repo_inner: git status, then the comparison with the stored
\* fingerprint; only a change rewrites the paths and the row, in one
\* transaction, and moves the revision.
ReadStatus ==
  /\ seen = Nothing /\ checking = Off
  /\ seen' = work
  /\ UNCHANGED <<work, row, dirty, client, loading, checking, changes, checks>>

StoreStatus ==
  /\ seen # Nothing /\ checking = Off
  /\ row' = IF seen = row.print THEN row
            ELSE [row EXCEPT !.print = seen, !.revision = @ + 1]
  /\ dirty' = IF seen = row.print THEN dirty ELSE seen.tree
  /\ seen' = Nothing
  /\ UNCHANGED <<work, client, loading, checking, changes, checks>>

\* A git that fails: the pass ends, the row keeps its fingerprint.
StatusFails ==
  /\ seen # Nothing /\ checking = Off
  /\ seen' = Nothing
  /\ UNCHANGED <<work, row, dirty, client, loading, checking, changes, checks>>

\* rename_repo_runtime_records between two passes: the paths are deleted,
\* the row keeps its fingerprint and revision; clients list the new name.
Rename ==
  /\ seen = Nothing /\ checking = Off /\ checks < MaxCheck /\ row.print # Nothing
  /\ dirty' = -1 /\ checks' = checks + 1
  /\ client' = [revision |-> -1, dirty |-> -1] /\ loading' = -1
  /\ UNCHANGED <<work, seen, row, checking, changes>>

-----------------------------------------------------------------------------
\* load_dirty_paths: the revision, then the paths.  A client loads when the
\* revision it is told of is not the one it has.
LoadRevision ==
  /\ loading = -1 /\ row.print # Nothing /\ client.revision # row.revision
  /\ loading' = row.revision
  /\ UNCHANGED <<work, seen, row, dirty, client, checking, changes, checks>>

LoadPaths ==
  /\ loading # -1
  /\ client' = [revision |-> loading, dirty |-> dirty]
  /\ loading' = -1
  /\ UNCHANGED <<work, seen, row, dirty, checking, changes, checks>>

-----------------------------------------------------------------------------
\* reconcile_repo_ci, after the status of the same pass: the branch of the
\* row, the request, and the answer stored with that branch.  Not found, no
\* run, a rate limit or an error change the schedule only, or clear the run.
CheckCi ==
  /\ seen = Nothing /\ checking = Off /\ row.print # Nothing /\ checks < MaxCheck
  /\ checking' = row.print.branch /\ checks' = checks + 1
  /\ UNCHANGED <<work, seen, row, dirty, client, loading, changes>>

StoreRun ==
  /\ checking # Off
  /\ row' \in {[row EXCEPT !.ci = [branch |-> checking, run |-> checks]],
               [row EXCEPT !.ci = [branch |-> checking, run |-> 0]], row}
  /\ checking' = Off
  /\ UNCHANGED <<work, seen, dirty, client, loading, changes, checks>>

\* StoredCi::view: a run recorded for another branch is hidden.
Shown == IF row.ci.branch = row.print.branch THEN row.ci.run ELSE 0

StatusNext ==
  \/ \E b \in HeadBranch : Work(b)
  \/ ReadStatus \/ StoreStatus \/ StatusFails \/ Rename
  \/ LoadRevision \/ LoadPaths \/ CheckCi \/ StoreRun

\* The status loop runs every two seconds; git does not fail for ever.
StatusFairness ==
  /\ WF_statusVars(ReadStatus) /\ SF_statusVars(StoreStatus) /\ WF_statusVars(StoreRun)
  /\ WF_statusVars(LoadRevision) /\ WF_statusVars(LoadPaths)
-----------------------------------------------------------------------------
StatusTypeOK ==
  /\ row.revision \in 0..MaxChange + 1 /\ dirty \in -1..MaxChange
  /\ client.revision \in -1..row.revision /\ checking \in HeadBranch \cup {Off}

\* A listing a client holds under the current revision is the stored one: a
\* client that believes itself up to date is, whatever passes fall between
\* the two statements of a load.
NoStaleListing ==
  client.revision = row.revision => client.dirty \in {dirty, row.print.tree}

\* When work stops, the row shows it and every client lists it; only a rename
\* leaves the listing empty until the status changes again.
StatusCatchesUp ==
  <>[](/\ row.print = work /\ client.revision = row.revision
       /\ client.dirty = work.tree \/ dirty = -1)
=============================================================================
