----------------------------- MODULE BrowserAuth -----------------------------
(***************************************************************************)
(* Who may use the control plane: access tokens signed with keys the       *)
(* issuer publishes and rotates (auth.rs), and one cutoff per principal    *)
(* kept by the broker (auth/revocation.rs, secret_broker/browser_auth.rs). *)
(*                                                                         *)
(* One principal.  A token carries the time of the login it goes back to   *)
(* and the key it is signed with.  The database's clock may be set back    *)
(* once; sign-out is a check and a write, in two steps.                    *)
(***************************************************************************)
EXTENDS Integers, Sequences, FiniteSets

CONSTANTS LastTime,    \* bound on the clock
          MaxLogin,    \* bound on the logins
          CacheTTL,    \* how long loaded keys may be used
          Cooldown,    \* how long after an attempt no other is made
          MaxBack      \* bound on the times the clock is set back

ASSUME AuthAssumption ==
  MaxLogin \in Nat \ {0} /\ {LastTime, CacheTTL, Cooldown, MaxBack} \subseteq Nat

VARIABLES time,        \* the clock, monotonic (Instant) for the key cache
          back,        \* how far the database's clock is behind it
          issued,      \* tokens: login time, key
          signing,     \* the key the issuer signs with, and publishes
          retired,     \* when each earlier key was withdrawn
          cache,       \* jwks_cache: loaded_at and key, 0 when empty
          attempt,     \* last_refresh: when, NoAttempt before the first
          cutoff,      \* browser_revocations.revoked_before, -1 without a row
          leaving,     \* sign-outs that passed the check and have not written
          refused,     \* tokens the cutoff has refused
          letIn     \* the key of the last token admitted, 0 when none

authVars == <<time, back, issued, signing, retired, cache, attempt, cutoff, leaving, refused, letIn>>

NoAttempt == 0 - Cooldown

AuthInit ==
  /\ time = 0 /\ back = 0 /\ issued = {} /\ signing = 1 /\ retired = <<>>
  /\ cache = [at |-> 0, key |-> 0] /\ attempt = NoAttempt
  /\ cutoff = -1 /\ leaving = {} /\ refused = {} /\ letIn = 0

PassTime ==
  /\ time < LastTime /\ time' = time + 1 /\ letIn' = 0
  /\ UNCHANGED <<back, issued, signing, retired, cache, attempt, cutoff, leaving, refused>>

SetBack ==
  /\ back < MaxBack /\ time > back /\ back' = back + 1 /\ letIn' = 0
  /\ UNCHANGED <<time, issued, signing, retired, cache, attempt, cutoff, leaving, refused>>

\* The issuer: logins, and rotation of its key (external).
Login ==
  /\ Cardinality(issued) < MaxLogin
  /\ issued' = issued \cup {[auth |-> time, key |-> signing]} /\ letIn' = 0
  /\ UNCHANGED <<time, back, signing, retired, cache, attempt, cutoff, leaving, refused>>

RotateKey ==
  /\ signing < MaxLogin
  /\ signing' = signing + 1 /\ retired' = Append(retired, time) /\ letIn' = 0
  /\ UNCHANGED <<time, back, issued, cache, attempt, cutoff, leaving, refused>>

-----------------------------------------------------------------------------
\* refresh_jwks: the attempt is recorded first; a failure keeps the cache.
Usable == cache.key # 0 /\ time - cache.at < CacheTTL
Cached(k) == Usable /\ cache.key = k
Cool == time - attempt >= Cooldown
Fetch ==
  /\ attempt' = time
  /\ cache' \in {cache, [at |-> time, key |-> signing]}

\* The background task, every 15 minutes and not within the cooldown.
BackgroundRefresh ==
  /\ Cool /\ Fetch /\ letIn' = 0
  /\ UNCHANGED <<time, back, issued, signing, retired, cutoff, leaving, refused>>

\* find_key on a miss, under the last_refresh lock.
MissRefresh(t) ==
  /\ t \in issued /\ ~Cached(t.key) /\ Cool /\ Fetch /\ letIn' = 0
  /\ UNCHANGED <<time, back, issued, signing, retired, cutoff, leaving, refused>>

\* revocation::allowed.
Allowed(t) == t.auth > cutoff

\* require_http_auth and require_user_auth: the signature against a cached
\* key, then the cutoff.  A key that cannot be had, or a cutoff that cannot be
\* read, is an outage (503) and changes nothing here.
Admit(t) ==
  /\ t \in issued /\ Cached(t.key)
  /\ \/ Allowed(t) /\ letIn' = t.key /\ refused' = refused
     \/ ~Allowed(t) /\ letIn' = 0 /\ refused' = refused \cup {t}
  /\ UNCHANGED <<time, back, issued, signing, retired, cache, attempt, cutoff, leaving>>

\* revoke_browser_session: past require_user_auth, then the write; a token
\* already refused is answered without one.
SignOutBegins(t) ==
  /\ t \in issued /\ Cached(t.key) /\ Allowed(t)
  /\ leaving' = leaving \cup {t} /\ letIn' = 0
  /\ UNCHANGED <<time, back, issued, signing, retired, cache, attempt, cutoff, refused>>

\* revoke: the cutoff becomes the database's time, and never goes back.
CutoffNow == time - back
\* Mutant: the later sign-out recorded wins, not the later time.
NewCutoffPlain(c) == CutoffNow

NewCutoff(c) == IF c > CutoffNow THEN c ELSE CutoffNow

SignOutWrites(t) ==
  /\ t \in leaving
  /\ leaving' = leaving \ {t} /\ cutoff' = NewCutoff(cutoff) /\ letIn' = 0
  /\ UNCHANGED <<time, back, issued, signing, retired, cache, attempt, refused>>

\* revoke_browser_principal: an operator, without a token.
RevokePrincipal ==
  /\ cutoff # NewCutoff(cutoff)
  /\ cutoff' = NewCutoff(cutoff) /\ letIn' = 0
  /\ UNCHANGED <<time, back, issued, signing, retired, cache, attempt, leaving, refused>>

AuthNext ==
  \/ PassTime \/ SetBack \/ Login \/ RotateKey \/ BackgroundRefresh \/ RevokePrincipal
  \/ \E t \in issued : MissRefresh(t) \/ Admit(t) \/ SignOutBegins(t) \/ SignOutWrites(t)

-----------------------------------------------------------------------------
AuthTypeOK ==
  /\ cutoff \in -1..time /\ signing \in 1..MaxLogin
  /\ cache.key \in 0..signing /\ leaving \subseteq issued /\ refused \subseteq issued

\* A token the cutoff has refused is refused from then on, whatever
\* sign-outs, operator revocations and clock changes follow.
RefusedForGood == \A t \in refused : ~Allowed(t)

\* A token is admitted only under a key the issuer published less than the
\* cache's lifetime ago, through failing refreshes and their cooldown.
KeysAreCurrent ==
  letIn # 0 /\ letIn < signing => time - retired[letIn] < CacheTTL
=============================================================================
