----------------------------- MODULE NodeEnroll -----------------------------
(***************************************************************************)
(* How a development node gets its configuration.  Control processes that  *)
(* start together agree on one signing identity and one TLS certificate    *)
(* through the database; the node dials one of them, pins the identity and *)
(* the certificate it first paired with, and takes the configuration only  *)
(* from that identity.  The host then rebuilds the node's container around *)
(* the delivered file.  Keys and certificates are named by the process     *)
(* that generated them.                                                    *)
(***************************************************************************)
EXTENDS Naturals, FiniteSets

CONSTANTS
    Ctl,        \* control processes
    FirstKeyed, \* the first release whose control has an identity
    NoCtl,      \* no process, no key, no certificate
    MaxRelease, \* bound: redeployments, each with new SANs and configuration
    MaxCrash    \* bound: crashes of the node, restarts of control, unpinnings

ASSUME EnrollAssumption ==
    /\ IsFiniteSet(Ctl) /\ FirstKeyed \in Nat /\ NoCtl \notin Ctl
    /\ MaxRelease \in Nat \ {0} /\ MaxCrash \in Nat

VARIABLES
    idRow,      \* control_identity: the process whose key it is
    tlsRow,     \* control_tls: the certificate and the SANs it is for
    ctl,        \* each control process
    release,    \* the deployed release: SANs and configuration digest
    admitted,   \* the operator has approved the node
    pinKey,     \* the node's ControlPin file
    pinCert,    \* the node's TlsPin file
    runCopy,    \* the world-readable copy of it
    delivered,  \* the delivered env file: the digest and who signed it
    envDigest,  \* the configuration this container was built from
    try,        \* the enrollment attempt
    mishaps

dbVars == <<idRow, tlsRow, ctl, release>>
fileVars == <<pinKey, pinCert, runCopy, delivered, envDigest>>
enrollVars == <<dbVars, admitted, fileVars, try, mishaps>>

Cert == [by : Ctl, sans : 1 .. MaxRelease]
NoCert == [by |-> NoCtl, sans |-> 0]

Keyed(p) == ctl[p].rel >= FirstKeyed

CtlStep == {"down", "newId", "tls", "newTls", "readTls", "up"}
TryStep == {"idle", "dialed", "paired", "certified", "bound", "waiting", "ready"}

EnrollTypeOK ==
    /\ idRow \in Ctl \cup {NoCtl}
    /\ tlsRow \in Cert \cup {NoCert}
    /\ ctl \in [Ctl -> [step : CtlStep, key : Ctl \cup {NoCtl}, cert : Cert \cup {NoCert},
                        rel : 0 .. MaxRelease]]
    /\ release \in 1 .. MaxRelease
    /\ pinKey \in Ctl \cup {NoCtl}
    /\ pinCert \in Cert \cup {NoCert} /\ runCopy \in Cert \cup {NoCert}
    /\ delivered \in [digest : 0 .. MaxRelease, by : Ctl \cup {NoCtl}]
    /\ envDigest \in 0 .. MaxRelease
    /\ try \in [step : TryStep, peer : Ctl \cup {NoCtl}, cert : Cert \cup {NoCert}]
    /\ mishaps \in 0 .. MaxCrash

Down == [step |-> "down", key |-> NoCtl, cert |-> NoCert, rel |-> 0]
NoTry == [step |-> "idle", peer |-> NoCtl, cert |-> NoCert]

EnrollInit ==
    /\ idRow = NoCtl /\ tlsRow = NoCert
    /\ ctl = [p \in Ctl |-> Down]
    /\ release = 1 /\ admitted = FALSE
    /\ pinKey = NoCtl /\ pinCert = NoCert /\ runCopy = NoCert
    /\ delivered = [digest |-> 0, by |-> NoCtl] /\ envDigest = 0
    /\ try = NoTry /\ mishaps = 0

EnrollFault == mishaps < MaxCrash /\ mishaps' = mishaps + 1

-----------------------------------------------------------------------------
(* Control starts.                                                         *)

\* ControlIdentity.load_or_create: the stored key, or the decision to make one.
StartControl(p) ==
    /\ ctl[p].step = "down"
    /\ ctl' = [ctl EXCEPT ![p] = [Down EXCEPT
                  !.rel = release, !.key = IF release >= FirstKeyed THEN idRow ELSE NoCtl,
                  !.step = IF release >= FirstKeyed /\ idRow = NoCtl THEN "newId" ELSE "tls"]]
    /\ UNCHANGED <<idRow, tlsRow, release, admitted, fileVars, try, mishaps>>

\* The row as the insert leaves it: ON CONFLICT DO NOTHING.
InsertId(p) == IF idRow = NoCtl THEN p ELSE idRow

MakeIdentity(p) ==
    /\ ctl[p].step = "newId"
    /\ idRow' = InsertId(p)
    /\ ctl' = [ctl EXCEPT ![p].key = InsertId(p), ![p].step = "tls"]
    /\ UNCHANGED <<tlsRow, release, admitted, fileVars, try, mishaps>>

\* ControlTls.stored: only a certificate for this process's SANs counts.
LoadTls(p) ==
    /\ ctl[p].step = "tls"
    /\ ctl' = IF tlsRow.sans = ctl[p].rel
              THEN [ctl EXCEPT ![p].cert = tlsRow, ![p].step = "up"]
              ELSE [ctl EXCEPT ![p].step = "newTls"]
    /\ UNCHANGED <<idRow, tlsRow, release, admitted, fileVars, try, mishaps>>

\* ON CONFLICT DO UPDATE WHERE the SANs differ.
InsertTls(p) == IF tlsRow.sans = ctl[p].rel THEN tlsRow ELSE [by |-> p, sans |-> ctl[p].rel]

MakeTls(p) ==
    /\ ctl[p].step = "newTls"
    /\ tlsRow' = InsertTls(p)
    /\ ctl' = [ctl EXCEPT ![p].step = "readTls"]
    /\ UNCHANGED <<idRow, release, admitted, fileVars, try, mishaps>>

\* Re-read so that racing processes converge; a row for other SANs fails the start.
RereadTls(p) ==
    /\ ctl[p].step = "readTls"
    /\ ctl' = IF tlsRow.sans = ctl[p].rel
              THEN [ctl EXCEPT ![p].cert = tlsRow, ![p].step = "up"]
              ELSE [ctl EXCEPT ![p] = Down]
    /\ UNCHANGED <<idRow, tlsRow, release, admitted, fileVars, try, mishaps>>

\* A deployment replaces every control process ...
NewRelease ==
    /\ release < MaxRelease
    /\ release' = release + 1
    /\ ctl' = [p \in Ctl |-> Down]
    /\ try' = IF try.step = "ready" THEN try ELSE NoTry
    /\ UNCHANGED <<fileVars, mishaps>>

Redeploy == NewRelease /\ UNCHANGED <<idRow, tlsRow, admitted>>

\* ... and a reinstallation the database too.
Reinstall == NewRelease /\ idRow' = NoCtl /\ tlsRow' = NoCert /\ admitted' = FALSE

ControlCrash(p) ==
    /\ EnrollFault
    /\ ctl[p].step # "down"
    /\ ctl' = [ctl EXCEPT ![p] = Down]
    /\ try' = IF try.peer = p /\ try.step # "ready" THEN NoTry ELSE try
    /\ UNCHANGED <<idRow, tlsRow, release, admitted, fileVars>>

Approve ==
    /\ ~admitted
    /\ admitted' = TRUE
    /\ UNCHANGED <<dbVars, fileVars, try, mishaps>>

-----------------------------------------------------------------------------
(* The node enrolls.                                                       *)

\* PinnedServerVerifier: a pinned certificate must be the one presented.
CertAccepted(cert) == pinCert \in {NoCert, cert}

\* connect_control and the hello.  An
\* unapproved node is closed out after its hello, and tries again.
DialControl(p) ==
    /\ try.step = "idle" /\ ctl[p].step = "up" /\ admitted
    /\ CertAccepted(ctl[p].cert)
    /\ try' = [step |-> "dialed", peer |-> p, cert |-> ctl[p].cert]
    /\ UNCHANGED <<dbVars, admitted, fileVars, mishaps>>

\* Mutant: whoever proves an identity is taken, paired or not.
PinAcceptsAny(p) == TRUE

\* ControlPin.verify: a paired node takes its own identity's proof and no
\* other, and no missing one.
PinAccepts(p) == IF Keyed(p) THEN pinKey \in {NoCtl, ctl[p].key} ELSE pinKey = NoCtl

VerifyPin ==
    /\ try.step = "dialed"
    /\ IF PinAccepts(try.peer)
       THEN /\ pinKey' = IF Keyed(try.peer) THEN ctl[try.peer].key ELSE pinKey
            /\ try' = [try EXCEPT !.step = "paired"]
       ELSE UNCHANGED pinKey /\ try' = NoTry
    /\ UNCHANGED <<dbVars, admitted, pinCert, runCopy, delivered, envDigest, mishaps>>

\* verify_tls_binding: the digest the identity signed is the process's own
\* certificate; the certificate seen is pinned if none is.
BindTls ==
    /\ try.step = "paired"
    /\ IF Keyed(try.peer) /\ ctl[try.peer].cert # try.cert
       THEN try' = NoTry /\ UNCHANGED pinCert
       ELSE /\ pinCert' = IF pinCert = NoCert THEN try.cert ELSE pinCert
            /\ try' = [try EXCEPT !.step = IF pinCert = NoCert THEN "certified" ELSE "bound"]
    /\ UNCHANGED <<dbVars, admitted, pinKey, runCopy, delivered, envDigest, mishaps>>

\* TlsPin.record: the second of its two files.
CopyCert ==
    /\ try.step = "certified"
    /\ runCopy' = try.cert
    /\ try' = [try EXCEPT !.step = "bound"]
    /\ UNCHANGED <<dbVars, admitted, pinKey, pinCert, delivered, envDigest, mishaps>>

\* verify_config: a paired node refuses an unsigned payload.
ConfigTrusted(p) == pinKey = NoCtl \/ (Keyed(p) /\ ctl[p].key = pinKey)

\* The signed payload, accepted and written; done when the container already
\* runs with it.
TakeConfig ==
    /\ try.step = "bound"
    /\ IF ConfigTrusted(try.peer)
       THEN /\ delivered' = [digest |-> ctl[try.peer].rel, by |-> ctl[try.peer].key]
            /\ try' = [try EXCEPT !.step =
                          IF envDigest = ctl[try.peer].rel THEN "ready" ELSE "waiting"]
       ELSE UNCHANGED delivered /\ try' = NoTry
    /\ UNCHANGED <<dbVars, admitted, pinKey, pinCert, runCopy, envDigest, mishaps>>

\* CONFIG_WAIT passes: the node takes it that control delivers nothing.
ConfigTimeout ==
    /\ try.step = "bound"
    /\ EnrollFault
    /\ try' = [try EXCEPT !.step = "ready"]
    /\ UNCHANGED <<dbVars, admitted, fileVars>>

\* ACTIVATION_POLL: enroll again and keep the file current.
PollAgain ==
    /\ try.step = "waiting"
    /\ try' = NoTry
    /\ UNCHANGED <<dbVars, admitted, fileVars, mishaps>>

\* The host's path unit rebuilds the container around the delivered file.
Activate ==
    /\ delivered.digest # 0 /\ delivered.digest # envDigest
    /\ envDigest' = delivered.digest
    /\ try' = NoTry
    /\ UNCHANGED <<dbVars, admitted, pinKey, pinCert, runCopy, delivered, mishaps>>

NodeCrash ==
    /\ EnrollFault
    /\ try' = NoTry
    /\ UNCHANGED <<dbVars, admitted, fileVars>>

\* The documented way out of a changed identity: delete the pins by hand.
Unpin ==
    /\ EnrollFault
    /\ pinKey' = NoCtl /\ pinCert' = NoCert /\ runCopy' = NoCert /\ try' = NoTry
    /\ UNCHANGED <<dbVars, admitted, delivered, envDigest>>

ControlStep(p) ==
    StartControl(p) \/ MakeIdentity(p) \/ LoadTls(p) \/ MakeTls(p) \/ RereadTls(p)
NodeStep == VerifyPin \/ BindTls \/ CopyCert \/ TakeConfig \/ PollAgain

EnrollNext ==
    \/ \E p \in Ctl : ControlStep(p) \/ ControlCrash(p) \/ DialControl(p)
    \/ NodeStep \/ ConfigTimeout \/ Activate
    \/ Redeploy \/ Reinstall \/ Approve \/ NodeCrash \/ Unpin

\* Control processes start, the node retries with each, the host activates.
EnrollFairness ==
    /\ \A p \in Ctl : WF_enrollVars(ControlStep(p)) /\ SF_enrollVars(DialControl(p))
    /\ WF_enrollVars(NodeStep) /\ WF_enrollVars(Activate)

-----------------------------------------------------------------------------
(* Properties.                                                             *)

\* Control processes in service prove one identity, and those of one release
\* present one certificate, however their first starts interleave: no node is
\* pinned to a key that no longer exists.
OneIdentity ==
    \A p, q \in Ctl : ctl[p].step = "up" /\ ctl[q].step = "up" =>
       /\ Keyed(p) /\ Keyed(q) => ctl[p].key = ctl[q].key
       /\ ctl[p].rel = ctl[q].rel => ctl[p].cert = ctl[q].cert

\* A node stays with the control it paired with: its pin only ever goes away
\* by hand, and no configuration is written that the pinned identity did not
\* sign, wherever an earlier attempt was cut off and whoever answers since.
PairedForGood ==
    [][pinKey # NoCtl =>
          /\ pinKey' \in {pinKey, NoCtl}
          /\ delivered' # delivered => delivered'.by = pinKey]_enrollVars

\* An approved node whose pins fit some process that can answer ends up
\* running, through crashes between any two of its writes.
Reachable == \E p \in Ctl : PinAccepts(p) /\ CertAccepted(ctl[p].cert)
EnrollmentEnds == []<>(~admitted \/ ~Reachable \/ try.step = "ready")

=============================================================================
