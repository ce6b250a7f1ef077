---------------------------- MODULE MCFleetKill ----------------------------
(* Instances of FleetKill for TLC. *)
EXTENDS FleetKill
=============================================================================
