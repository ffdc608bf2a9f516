----------------------------- MODULE MCRunnerHost -----------------------------
(* Instances of RunnerHost for TLC. *)
EXTENDS RunnerHost

CONSTANTS fa, fb

\* Three leases of one fleet, or one each of two.
FleetOrders == {<<fa, fa, fa>>, <<fa, fb>>}
=============================================================================
