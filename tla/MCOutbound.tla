------------------------------ MODULE MCOutbound ------------------------------
(* Instances of Outbound for TLC. *)
EXTENDS Outbound

CONSTANTS a1, a2, d1
=============================================================================
