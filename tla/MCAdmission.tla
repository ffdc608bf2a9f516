---------------------------- MODULE MCAdmission ----------------------------
(* Instances of Admission for TLC. *)
EXTENDS Admission

CONSTANTS k1, k2, c1, c2, r1

\* Keys of one fleet, and callers of one replica.
OneFleet == [k \in Keys |-> 1]
Alone == [c \in Callers |-> r1]

\* One caller asks for either key, the other races it for one of them.
Either == [c \in Callers |-> IF c = c1 THEN Keys ELSE {k2}]
=============================================================================
