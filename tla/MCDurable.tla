----------------------------- MODULE MCDurable -----------------------------
(***************************************************************************)
(* Instances of Durable for TLC, with the users and sockets of             *)
(* MCAttendance.                                                           *)
(***************************************************************************)
EXTENDS MCAttendance, Durable

\* Everyone is present; the rows agree.
CrowdedDurableSpec ==
    /\ CrowdedInit /\ rows = Image(server) /\ writes = <<>> /\ failures = {}
    /\ [][DurableNext]_durableVars

\* Behaviours are followed until somebody comes back after a restart.
UntilReturn == Steady \subseteq connected \/ connected = {}
=============================================================================
