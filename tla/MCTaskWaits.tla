---------------------------- MODULE MCTaskWaits ----------------------------
(* Instances of TaskWaits for TLC: counts are named in the configurations. *)
EXTENDS TaskWaits

=============================================================================
