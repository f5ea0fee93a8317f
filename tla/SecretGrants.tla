---------------------------- MODULE SecretGrants ----------------------------
(***************************************************************************)
(* The secret broker's secrets and grants (secret_broker.rs,               *)
(* secret_broker/redeem.rs): secrets are edited and deleted, grants are    *)
(* unlocked and revoked for a terminal, for a terminal's repository or for *)
(* one program in every terminal, and a verified use of a terminal merges  *)
(* the secrets its effective grants name.                                  *)
(*                                                                         *)
(* One terminal, whose registered repository may be missing.  Ciphertexts  *)
(* are dropped: a secret is the set of variables it sets.  A handler's     *)
(* database statements are steps, so two unlocks, an edit and a deletion,  *)
(* or a use and a revocation overlap.                                      *)
(***************************************************************************)
EXTENDS Integers, Sequences, FiniteSets

CONSTANTS Secret,     \* secret ids
          EnvVar,     \* environment variables a secret may set
          MaxUnlock,  \* bound on the unlocks
          MaxEdit     \* bound on the edits of secrets

VARIABLES stored,     \* secrets: the variables of each, {} without a row
          editing,    \* an upsert between its read and its write
          grants,     \* rows of grants that are not revoked
          unlocking,  \* unlocks between their UPDATE and their commit
          repo,       \* the terminal's registered repository, or NoRepo
          registered, \* its credential exists and is not revoked
          using,      \* the use being served
          audit,      \* rows of use_audit written for that use
          unlocks, edits

grantVars == <<stored, editing, grants, unlocking, repo, registered, using, audit, unlocks, edits>>

NoRepo == "none"
Repo == {"repo", NoRepo}
Scope == {"terminal", "repository", "all_terminals"}
Listed == "listed"       \* a program an all-terminals grant names
Programs == {Listed, "other"}
NoUse == [at |-> "idle", program |-> "other", rows |-> {}, env |-> {}]
NoEdit == [secret |-> "", vars |-> {}]

GrantsInit ==
  /\ stored = [s \in Secret |-> EnvVar] /\ editing = NoEdit
  /\ grants = {} /\ unlocking = {}
  /\ repo = "repo" /\ registered = TRUE
  /\ using = NoUse /\ audit = {}
  /\ unlocks = 0 /\ edits = 0

-----------------------------------------------------------------------------
\* upsert_secret: reads the stored variables, refuses a blank new one, and
\* writes the row whatever has become of it meanwhile.
UpsertRead(s, named, blank) ==
  /\ editing = NoEdit /\ edits < MaxEdit
  /\ named # {} /\ blank \subseteq named /\ blank \subseteq stored[s]
  /\ editing' = [secret |-> s, vars |-> named]
  /\ edits' = edits + 1
  /\ UNCHANGED <<stored, grants, unlocking, repo, registered, using, audit, unlocks>>

UpsertWrite ==
  /\ editing # NoEdit
  /\ stored' = [stored EXCEPT ![editing.secret] = editing.vars]
  /\ editing' = NoEdit
  /\ UNCHANGED <<grants, unlocking, repo, registered, using, audit, unlocks, edits>>

\* delete_secret: the grants of the secret stay.
DeleteSecret(s) ==
  /\ stored[s] # {} /\ edits < MaxEdit
  /\ stored' = [stored EXCEPT ![s] = {}]
  /\ edits' = edits + 1
  /\ UNCHANGED <<editing, grants, unlocking, repo, registered, using, audit, unlocks>>

-----------------------------------------------------------------------------
\* GrantTarget::resolve: a repository grant is addressed through a terminal
\* whose registered credential names the repository.
Resolves(scope) == scope = "repository" => registered /\ repo # NoRepo
Addressed(scope, s) == {g \in grants : g.scope = scope /\ g.secret = s}

\* unlock_grant: in one transaction the rows it can see are revoked and one
\* is inserted; the unique index allows one all-terminals row per secret, so
\* of two that overlap the later one fails and is rolled back.
UnlockRevokes(scope, s) ==
  /\ unlocks < MaxUnlock /\ Resolves(scope)
  /\ unlocks' = unlocks + 1
  /\ unlocking' = unlocking \cup {[id |-> unlocks + 1, scope |-> scope, secret |-> s,
                                   replaced |-> Addressed(scope, s)]}
  /\ UNCHANGED <<stored, editing, grants, repo, registered, using, audit, edits>>

UnlockCommits(u) ==
  /\ u \in unlocking
  /\ unlocking' = unlocking \ {u}
  /\ LET kept == grants \ u.replaced
         row == [id |-> u.id, scope |-> u.scope, secret |-> u.secret]
     IN grants' = IF u.scope = "all_terminals" /\ Addressed(u.scope, u.secret) \cap kept # {}
                  THEN grants ELSE kept \cup {row}
  /\ UNCHANGED <<stored, editing, repo, registered, using, audit, unlocks, edits>>

\* revoke_grant: every row of the target.
RevokeGrant(scope, s) ==
  /\ Addressed(scope, s) # {} /\ Resolves(scope)
  /\ grants' = grants \ Addressed(scope, s)
  /\ UNCHANGED <<stored, editing, unlocking, repo, registered, using, audit, unlocks, edits>>

\* A terminal grant's expires_at passes.
Expire(g) ==
  /\ g \in grants /\ g.scope = "terminal"
  /\ grants' = grants \ {g}
  /\ UNCHANGED <<stored, editing, unlocking, repo, registered, using, audit, unlocks, edits>>

\* register_pty_credential replaces key and repository and clears a
\* revocation; revoke_pty_credential.
RegisterRepo(r) ==
  /\ ~registered \/ repo # r
  /\ registered' = TRUE /\ repo' = r
  /\ UNCHANGED <<stored, editing, grants, unlocking, using, audit, unlocks, edits>>

RevokeCredential ==
  /\ registered /\ registered' = FALSE
  /\ UNCHANGED <<stored, editing, grants, unlocking, repo, using, audit, unlocks, edits>>

-----------------------------------------------------------------------------
\* The view effective_grants, for the terminal and a program.
Effective(p) ==
  {g \in grants : \/ g.scope = "terminal"
                  \/ g.scope = "repository" /\ registered /\ repo # NoRepo
                  \/ g.scope = "all_terminals" /\ registered /\ p = Listed}
Rank(g) == IF g.scope = "all_terminals" THEN 0 ELSE 1

\* DISTINCT ON (s.id): of a secret's grants the one of highest rank.
Redeemed(p) ==
  {[secret |-> s, rank |-> IF \E g \in Effective(p) : g.secret = s /\ Rank(g) = 1 THEN 1 ELSE 0,
    vars |-> stored[s]] :
     s \in {x \in Secret : stored[x] # {} /\ \E g \in Effective(p) : g.secret = x}}

\* verify_signed_use_request passes: the credential is registered.
UseBegin(p) ==
  /\ using.at = "idle" /\ registered
  /\ using' = [NoUse EXCEPT !.at = "verified", !.program = p] /\ audit' = {}
  /\ UNCHANGED <<stored, editing, grants, unlocking, repo, registered, unlocks, edits>>

\* merge_by_precedence takes the ranks from the higher one down.  A variable
\* that a higher rank has set is passed over; one that two secrets of the same
\* rank set is a conflict.
Fresh(rows) == UNION {{[var |-> v, secret |-> r.secret] : v \in r.vars} : r \in rows}

\* Mutant: a variable that a higher rank has set is set once more.
PutAgain(acc, rows) ==
  [conflict |-> acc.conflict \/ \E e, f \in Fresh(rows) : e.var = f.var /\ e # f,
   env |-> acc.env \cup Fresh(rows)]

Put(acc, rows) ==
  LET added == {e \in Fresh(rows) : \A f \in acc.env : f.var # e.var}
  IN [conflict |-> acc.conflict \/ \E e, f \in added : e.var = f.var /\ e # f,
      env |-> acc.env \cup added]

Merge(rows) ==
  Put(Put([conflict |-> FALSE, env |-> {}], {r \in rows : r.rank = 1}),
      {r \in rows : r.rank = 0})

\* use_secret reads and merges; a conflict, or nothing granted, ends it.
UseReads ==
  /\ using.at = "verified"
  /\ LET m == Merge(Redeemed(using.program)) IN
     using' = IF m.conflict \/ m.env = {} THEN NoUse
              ELSE [using EXCEPT !.at = "audit", !.rows = Redeemed(using.program), !.env = m.env]
  /\ UNCHANGED <<stored, editing, grants, unlocking, repo, registered, audit, unlocks, edits>>

\* The audit rows are inserted one at a time; a failure ends the use with an
\* error.  The answer follows the last row.
UseAudits(s) ==
  /\ using.at = "audit" /\ s \in {e.secret : e \in using.env} \ audit
  /\ \/ audit' = audit \cup {s} /\ using' = using
     \/ using' = NoUse /\ audit' = audit
  /\ UNCHANGED <<stored, editing, grants, unlocking, repo, registered, unlocks, edits>>

UseAnswers ==
  /\ using.at = "audit" /\ {e.secret : e \in using.env} \subseteq audit
  /\ using' = [using EXCEPT !.at = "answered"]
  /\ UNCHANGED <<stored, editing, grants, unlocking, repo, registered, audit, unlocks, edits>>

RedeemEnds ==
  /\ using.at = "answered" /\ using' = NoUse
  /\ UNCHANGED <<stored, editing, grants, unlocking, repo, registered, audit, unlocks, edits>>

GrantsNext ==
  \/ \E s \in Secret : DeleteSecret(s) \/ UseAudits(s)
  \/ \E s \in Secret : \E named \in SUBSET EnvVar : \E blank \in SUBSET named :
        UpsertRead(s, named, blank)
  \/ \E s \in Secret, c \in Scope : UnlockRevokes(c, s) \/ RevokeGrant(c, s)
  \/ \E u \in unlocking : UnlockCommits(u)
  \/ \E g \in grants : Expire(g)
  \/ \E r \in Repo : RegisterRepo(r)
  \/ \E p \in Programs : UseBegin(p)
  \/ UpsertWrite \/ RevokeCredential \/ UseReads \/ UseAnswers \/ RedeemEnds

-----------------------------------------------------------------------------
GrantsTypeOK ==
  /\ stored \in [Secret -> SUBSET EnvVar] /\ repo \in Repo
  /\ \A g \in grants : g.scope \in Scope /\ g.secret \in Secret
  /\ using.at \in {"idle", "verified", "audit", "answered"}

\* What a use hands to a command: one value per variable, an explicit grant's
\* value before an all-terminals one, and nothing of a secret no row granted.
OneValuePerVariable ==
  using.at \in {"audit", "answered"} =>
    \A e \in using.env :
      /\ \A f \in using.env : f.var = e.var => f.secret = e.secret
      /\ \E r \in using.rows :
           /\ r.secret = e.secret /\ e.var \in r.vars
           /\ \A q \in using.rows : e.var \in q.vars => q.rank <= r.rank

\* No value leaves the broker without an audit row for the secret it is of,
\* and none of a secret that gave nothing (use_secret's contributors).
AnsweredIsAudited ==
  using.at = "answered" => audit = {e.secret : e \in using.env}
=============================================================================
