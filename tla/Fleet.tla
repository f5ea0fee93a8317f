-------------------------------- MODULE Fleet --------------------------------
(***************************************************************************)
(* Control's registry of the node and the node's own host of shells.  Both *)
(* write the session rows; beyond the rows they share no state, and each   *)
(* has a stand-in for what the other does to them (NodeSpawn and NodeExit, *)
(* TakeBeat and ApplyBeat), so that each is checked in full while the      *)
(* other rests.                                                            *)
(***************************************************************************)
EXTENDS NodeControl, ShellHost

VARIABLE focus  \* the part that takes the steps of this behaviour

fleetVars == <<focus, sess, controlVars, shellVars>>

FleetTypeOK == NodeTypeOK /\ ShellTypeOK

Init == focus \in {"registry", "shells"} /\ NodeInit /\ ShellInit

Next ==
    \/ /\ focus = "registry" /\ NodeNext
       /\ UNCHANGED <<focus, shells, linkVars, launchVars, managerVars, boot, beat, breaks>>
    \/ /\ focus = "shells" /\ ShellNext
       /\ UNCHANGED <<focus, controlVars>>

Spec == Init /\ [][Next]_fleetVars

-----------------------------------------------------------------------------
\* A connection in the active map has a task that serves it (ActiveHasTask), and
\* what is left to do for an older one touches neither the entry nor the row of
\* its successor (LateTeardownIsHarmless).
RegistryHolds == []ActiveHasTask /\ LateTeardownIsHarmless

-----------------------------------------------------------------------------
(* What each part promises under the fairness of its own tasks.            *)

\* Crossing registrations, late teardowns and expiries end with the row and the
\* map on the node's own connection (SettledOnOneConnection).
RegistrySettles == (focus = "registry" /\ NodeFairness) => SettledOnOneConnection

\* A live row whose shell is gone is ended by an exit, a hello or a heartbeat
\* (NoHusk).
ShellsHaveNoHusk == (focus = "shells" /\ ShellFairness) => NoHusk

=============================================================================
