-------------------------- MODULE MCFleetLeaseLive --------------------------
(* An instance of FleetLeaseLive for TLC. *)
EXTENDS FleetLeaseLive

CONSTANT r1
=============================================================================
