------------------------------ MODULE SignedUse ------------------------------
(***************************************************************************)
(* A terminal's credential at the secret broker: the node generates a key, *)
(* registers its public half and writes the private half to a file         *)
(* (secret_pty.rs), with-cred signs a request with the file's key          *)
(* (credential_helper.rs, secret_protocol.rs), and the broker checks time, *)
(* key, signature and nonce (verify_signed_use_request of                  *)
(* secret_broker/redeem.rs).                                               *)
(*                                                                         *)
(* Time is counted in minutes.  The signer's clock may be ahead of the     *)
(* broker's, and a request may arrive late or more than once.              *)
(***************************************************************************)
EXTENDS Integers, FiniteSets

CONSTANTS MaxKey,      \* bound on the keys generated for the terminal
          MaxSigned,   \* bound on the signed requests
          LastMinute,  \* bound on the broker's clock
          Ahead        \* how far the signer's clock may be ahead

ASSUME UseAssumption == {MaxKey, MaxSigned, LastMinute, Ahead} \subseteq Nat

Window == 1            \* minutes a timestamp may be off
NonceKept == 5         \* minutes a nonce is remembered

VARIABLES minute,      \* the broker's clock
          useRow,         \* pty_credentials: the registered key, and whether it is in force
          file,        \* the key in the key file, 0 without a file
          freshUse,       \* the last key generated
          making,      \* a key registered and not yet written, 0 when none
          shellRuns,       \* the terminal's shell runs
          signed,      \* requests sent: id, key, timestamp
          nonces,      \* pty_use_nonces: request id and the minute it was seen
          honoured     \* how often each request passed

useVars == <<minute, useRow, file, freshUse, making, shellRuns, signed, nonces, honoured>>

UseInit ==
  /\ minute = 0 /\ useRow = [key |-> 0, live |-> FALSE] /\ file = 0 /\ freshUse = 0
  /\ making = 0 /\ shellRuns = FALSE /\ signed = {} /\ nonces = {}
  /\ honoured = [i \in 1..MaxSigned |-> 0]

PassMinute ==
  /\ minute < LastMinute /\ minute' = minute + 1
  /\ UNCHANGED <<useRow, file, freshUse, making, shellRuns, signed, nonces, honoured>>

-----------------------------------------------------------------------------
\* prepare_pty_credential: the key is registered before it is written; the
\* shell starts only once both have happened.
PrepareRegisters ==
  /\ making = 0 /\ ~shellRuns /\ freshUse < MaxKey
  /\ freshUse' = freshUse + 1 /\ making' = freshUse + 1
  /\ useRow' = [key |-> freshUse + 1, live |-> TRUE]
  /\ UNCHANGED <<minute, file, shellRuns, signed, nonces, honoured>>

PrepareWrites ==
  /\ making # 0 /\ file' = making /\ making' = 0 /\ shellRuns' = TRUE
  /\ UNCHANGED <<minute, useRow, freshUse, signed, nonces, honoured>>

\* The write fails, or the node stops here: a registered key without a file.
PrepareFails ==
  /\ making # 0 /\ making' = 0
  /\ UNCHANGED <<minute, useRow, file, freshUse, shellRuns, signed, nonces, honoured>>

\* refresh_pty_credential: a restarted node registers the key on file again.
RefreshRegisters ==
  /\ shellRuns /\ file # 0
  /\ useRow' = [key |-> file, live |-> TRUE]
  /\ UNCHANGED <<minute, file, freshUse, making, shellRuns, signed, nonces, honoured>>

\* revoke_pty_credential: the shell is gone; the broker may not be reached,
\* the file is removed all the same.
Retire ==
  /\ shellRuns /\ shellRuns' = FALSE /\ file' = 0
  /\ \/ useRow' = [useRow EXCEPT !.live = FALSE]
     \/ useRow' = useRow
  /\ UNCHANGED <<minute, freshUse, making, signed, nonces, honoured>>

-----------------------------------------------------------------------------
\* with-cred: SignedUseSecretRequest::sign with the key on file.
Sign(ahead) ==
  /\ shellRuns /\ file # 0 /\ Cardinality(signed) < MaxSigned
  /\ signed' = signed \cup
       {[id |-> Cardinality(signed) + 1, key |-> file, at |-> minute + ahead]}
  /\ UNCHANGED <<minute, useRow, file, freshUse, making, shellRuns, nonces, honoured>>

InTime(q) == minute - q.at \in (-Window)..Window

\* Mutant: nonces are kept for the accepted window only.
RememberedWindow == {n \in nonces : n.seen >= minute - Window}

\* Nonces seen more than five minutes ago are deleted.
Remembered == {n \in nonces : n.seen >= minute - NonceKept}

\* verify_signed_use_request: a request in time, signed with the registered
\* key and with a nonce not remembered, passes.
Verify(q) ==
  /\ q \in signed /\ InTime(q) /\ useRow.live /\ useRow.key = q.key
  /\ LET seen == \E n \in Remembered : n.id = q.id IN
     /\ nonces' = IF seen THEN Remembered ELSE Remembered \cup {[id |-> q.id, seen |-> minute]}
     /\ honoured' = IF seen THEN honoured ELSE [honoured EXCEPT ![q.id] = @ + 1]
  /\ UNCHANGED <<minute, useRow, file, freshUse, making, shellRuns, signed>>

UseNext ==
  \/ PassMinute \/ PrepareRegisters \/ PrepareWrites \/ PrepareFails
  \/ RefreshRegisters \/ Retire
  \/ \E a \in 0..Ahead : Sign(a)
  \/ \E q \in signed : Verify(q)

-----------------------------------------------------------------------------
UseTypeOK ==
  /\ useRow.key \in 0..MaxKey /\ file \in 0..MaxKey /\ making \in 0..MaxKey
  /\ \A n \in nonces : n.seen \in 0..minute

\* A signed request is honoured once, however late it is repeated: while a
\* timestamp is still accepted its nonce is still remembered, clocks that
\* are apart included.
HonouredOnce == \A i \in 1..MaxSigned : honoured[i] <= 1

\* The shell that runs holds the key the broker has registered for it, after
\* failed launches, refreshes and revocations that did not arrive.
ShellHoldsTheKey == shellRuns => file # 0 /\ useRow = [key |-> file, live |-> TRUE]
=============================================================================
