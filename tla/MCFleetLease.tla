---------------------------- MODULE MCFleetLease ----------------------------
(* Instances of FleetLease for TLC. *)
EXTENDS FleetLease, TLC

CONSTANTS r1, r2

\* Runners are interchangeable in the safety runs.
RunnerSymmetry == Permutations({r1, r2})
=============================================================================
