-------------------------------- MODULE MCLanes --------------------------------
(* Instances of Lanes for TLC. *)
EXTENDS Lanes

CONSTANTS da, db, c1, c2

\* One destination fills its lane before the other's entry, or after it; the last
\* entry is the one that may not decode.
TwoDestinations == {<<da, da, da, db, db>>, <<da, db, da, da, db>>}
=============================================================================
