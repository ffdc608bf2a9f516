---------------------------- MODULE OrderedDelivery ----------------------------
(***************************************************************************)
(* What the outbound worker promises of the order of its deliveries: each  *)
(* destination is owed a set of entries, and they end one at a time, the   *)
(* oldest first.  Nothing is said of lanes, processes or the order between *)
(* destinations.                                                           *)
(***************************************************************************)
EXTENDS Integers

CONSTANTS
    Entries,       \* stream ids, in stream order
    Destinations   \* a provider's workspace each

VARIABLES owed  \* destination -> the entries that have not ended

Init == owed \in [Destinations -> SUBSET Entries]

\* The oldest entry owed to d is delivered or given up on.
Settle(d) == \E e \in owed[d] : /\ \A f \in owed[d] : e <= f
                                /\ owed' = [owed EXCEPT ![d] = @ \ {e}]

Next == \E d \in Destinations : Settle(d)

Spec == Init /\ [][Next]_owed

=============================================================================
