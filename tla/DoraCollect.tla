----------------------------- MODULE DoraCollect -----------------------------
(***************************************************************************)
(* Deployment evidence of one repository (repo_ci/dora.rs): workflow runs  *)
(* are listed page by page, their attempts are looked at once they are     *)
(* complete, deployments are stored, and the commits of every deployment   *)
(* are attributed to it unless an earlier deployment has them.             *)
(*                                                                         *)
(* The history is a line of commits, a deployment ships every commit up to *)
(* its revision, and a roll-back ships an older revision again.  Runs      *)
(* appear in GitHub's answers in any order, and a request may fail or be   *)
(* rate limited between any two.                                           *)
(***************************************************************************)
EXTENDS Integers, FiniteSets

CONSTANTS Commit,     \* commits, numbers in order of the history
          Deploy,     \* deployments, numbers in order of their time
          MaxFail     \* bound on the requests that fail

ASSUME DoraAssumption == Commit \cup Deploy \subseteq Nat \ {0}

VARIABLES shipped,    \* the revision of each deployment, 0 until it happens
          listed,     \* deployments whose runs GitHub lists as complete
          checkedRuns,\* dora_run_checks
          deployed,   \* dora_deployments
          counted,    \* those with commits_collected
          credit,     \* dora_commit_deployments: 0 or a deployment
          uncounted,      \* deployments the pass under way still has to count
          pausedCi, failures

doraVars == <<shipped, listed, checkedRuns, deployed, counted, credit, uncounted, pausedCi, failures>>

DoraInit ==
  /\ shipped = [d \in Deploy |-> 0] /\ listed = {} /\ checkedRuns = {}
  /\ deployed = {} /\ counted = {} /\ credit = [c \in Commit |-> 0]
  /\ uncounted = {} /\ pausedCi = FALSE /\ failures = 0

\* Deployments happen in order of time; their runs are complete later.
Ship(d, c) ==
  /\ shipped[d] = 0 /\ \A e \in Deploy : e < d => shipped[e] # 0
  /\ shipped' = [shipped EXCEPT ![d] = c]
  /\ UNCHANGED <<listed, checkedRuns, deployed, counted, credit, uncounted, pausedCi, failures>>

RunCompletes(d) ==
  /\ shipped[d] # 0 /\ d \notin listed /\ listed' = listed \cup {d}
  /\ UNCHANGED <<shipped, checkedRuns, deployed, counted, credit, uncounted, pausedCi, failures>>

-----------------------------------------------------------------------------
\* collect: each attempt not checked before is fetched; its deployment is
\* stored once and the attempt marked.  The pass goes on to collect_commits
\* only after the last of them.
StoreDeployment(d) ==
  /\ d \in listed \ checkedRuns /\ uncounted = {} /\ ~pausedCi
  /\ deployed' = deployed \cup {d} /\ checkedRuns' = checkedRuns \cup {d}
  /\ UNCHANGED <<shipped, listed, counted, credit, uncounted, pausedCi, failures>>

\* A request fails, or a rate limit pauses every loop, which ends the pass;
\* what is stored stays.
RequestFails ==
  /\ failures < MaxFail /\ ~pausedCi /\ listed \ checkedRuns # {}
  /\ failures' = failures + 1 /\ pausedCi' \in BOOLEAN
  /\ UNCHANGED <<shipped, listed, checkedRuns, deployed, counted, credit, uncounted>>

PauseEnds ==
  /\ pausedCi /\ pausedCi' = FALSE
  /\ UNCHANGED <<shipped, listed, checkedRuns, deployed, counted, credit, uncounted, failures>>

CountBegins ==
  /\ uncounted = {} /\ deployed \ counted # {} /\ listed \subseteq checkedRuns
  /\ uncounted' = deployed \ counted
  /\ UNCHANGED <<shipped, listed, checkedRuns, deployed, counted, credit, pausedCi, failures>>

\* collect_commits, for the earliest of the queue: the commits since the
\* deployment counted before it, each kept by an earlier deployment that has
\* it already.  git log a..b is what b has and a has not.
Before(d) == {e \in counted : e < d}
Since(d) ==
  LET from == IF Before(d) = {} THEN 0
              ELSE shipped[CHOOSE e \in Before(d) : \A f \in Before(d) : f <= e]
  IN {c \in Commit : from < c /\ c <= shipped[d]}

Count ==
  \E d \in uncounted :
    /\ \A e \in uncounted : d <= e
    /\ credit' = [c \in Commit |->
                    IF c \in Since(d) /\ (credit[c] = 0 \/ credit[c] > d) THEN d ELSE credit[c]]
    /\ counted' = counted \cup {d} /\ uncounted' = uncounted \ {d}
    /\ UNCHANGED <<shipped, listed, checkedRuns, deployed, pausedCi, failures>>

\* git fails: the pass ends with a warning, the rest is taken up by the next.
CountFails ==
  /\ uncounted # {} /\ failures < MaxFail
  /\ failures' = failures + 1 /\ uncounted' = {}
  /\ UNCHANGED <<shipped, listed, checkedRuns, deployed, counted, credit, pausedCi>>

DoraNext ==
  \/ \E d \in Deploy, c \in Commit : Ship(d, c)
  \/ \E d \in Deploy : RunCompletes(d) \/ StoreDeployment(d)
  \/ RequestFails \/ PauseEnds \/ CountBegins \/ Count \/ CountFails

\* The loop takes a due repository every ten seconds.
DoraFairness ==
  /\ \A d \in Deploy : WF_doraVars(StoreDeployment(d))
  /\ WF_doraVars(PauseEnds) /\ WF_doraVars(CountBegins) /\ WF_doraVars(Count)
-----------------------------------------------------------------------------
DoraTypeOK ==
  /\ counted \subseteq deployed /\ deployed = checkedRuns /\ uncounted \subseteq deployed
  /\ \A c \in Commit : credit[c] = 0 \/ credit[c] \in counted

\* The lead time of a commit ends at the first deployment that shipped it:
\* of the deployments counted so far, in whatever order they were found,
\* with roll-backs and passes cut short between them.
CreditedToFirst ==
  \A c \in Commit : \A d \in counted :
    shipped[d] >= c => credit[c] # 0 /\ credit[c] <= d

\* Every deployment GitHub lists is counted in the end.
DeploymentsAreCounted == \A d \in Deploy : d \in listed ~> d \in counted
=============================================================================
