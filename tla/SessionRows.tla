----------------------------- MODULE SessionRows -----------------------------
(***************************************************************************)
(* The pty_sessions rows of one development node.  Control and the node    *)
(* both write them: the node when a shell starts, exits or is deleted,     *)
(* control when the node's connection comes, goes, or reports what it      *)
(* hosts.  Each operator is one statement, as a new value of `sess`.       *)
(***************************************************************************)
EXTENDS Naturals, FiniteSets

CONSTANTS
    Pty,        \* terminal sessions
    MaxBoot     \* bound: boots of the node process

ASSUME RowsAssumption == IsFiniteSet(Pty) /\ MaxBoot \in Nat \ {0}

VARIABLE sess   \* the row of each session

\* PtyState; "none": never inserted.  `boot` is node_boot_id and `disc` is
\* node_disconnected_at IS NOT NULL.
PtyState == {"none", "live", "dead", "orphaned", "deleted"}
PtyRow == [state : PtyState, boot : 0 .. MaxBoot, disc : BOOLEAN]

NoRow == [state |-> "none", boot |-> 0, disc |-> FALSE]
InitRows == sess = [p \in Pty |-> NoRow]

IsLive(p) == sess[p].state = "live"

-----------------------------------------------------------------------------
(* Written by the node.                                                    *)

\* INSERT ... ON CONFLICT DO UPDATE WHERE state <> 'live'
CanPersist(p) == ~IsLive(p)

\* Mutant: the row names the boot that comes next.
PersistSpawnNextBoot(p, boot) ==
    [sess EXCEPT ![p] = [state |-> "live", boot |-> boot + 1, disc |-> FALSE]]

PersistSpawn(p, boot) ==
    [sess EXCEPT ![p] = [state |-> "live", boot |-> boot, disc |-> FALSE]]

\* UPDATE ... WHERE id = p AND state = 'live'
EndLive(p, state) ==
    IF IsLive(p) THEN [sess EXCEPT ![p].state = state] ELSE sess

\* Mutant: a session whose shell is lost is marked dead.
MarkDead(p) == EndLive(p, "dead")

MarkOrphaned(p) == EndLive(p, "orphaned")
AbandonUnspawned(p) == EndLive(p, "deleted")

\* A row is deleted whatever its state.
DeleteRow(p) == [sess EXCEPT ![p].state = "deleted"]

-----------------------------------------------------------------------------
(* Written by control.                                                     *)

\* A node the operator approves anew: every live session is out of reach.
MarkSessionsDisconnected ==
    [p \in Pty |-> IF IsLive(p) THEN [sess[p] EXCEPT !.disc = TRUE] ELSE sess[p]]

\* The connection of boot b ended or expired.
DisconnectBoot(b) ==
    [p \in Pty |-> IF IsLive(p) /\ sess[p].boot = b
                   THEN [sess[p] EXCEPT !.disc = TRUE] ELSE sess[p]]

\* A heartbeat of boot b: what it lists is adopted onto the boot and within
\* reach again; when the inventory is complete, what it does not list has
\* lost its shell.
Adopt(b, listed, rows) ==
    [p \in Pty |-> IF rows[p].state = "live" /\ p \in listed
                   THEN [rows[p] EXCEPT !.boot = b, !.disc = FALSE] ELSE rows[p]]

\* Mutant: an inventory only ever adds.
ReconcileNothing(listed, rows) == rows

ReconcileMissing(listed, rows) ==
    [p \in Pty |-> IF rows[p].state = "live" /\ p \notin listed
                   THEN [rows[p] EXCEPT !.state = "orphaned", !.disc = FALSE] ELSE rows[p]]

HeartbeatRows(b, listed) == ReconcileMissing(listed, Adopt(b, listed, sess))

=============================================================================
