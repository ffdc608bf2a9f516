----------------------------- MODULE FleetQueue -----------------------------
(***************************************************************************)
(* What the lease plane promises of one fleet, seen by whoever admits its  *)
(* events and reads their outcomes: events are leased and refused in       *)
(* order, except that an event of a task may be passed over; leases come   *)
(* in the order of their fences, at most one is live on an event, and only *)
(* the newest lease can end an event.  An event ends once: by a report of  *)
(* its own lease, by a refusal while none is live, by an answer the newest *)
(* lease gives for it, or, for a continuation nobody ran, by retirement.   *)
(* The fleet's context moves with the reports and with nothing else.       *)
(* Nothing is said of runners, clocks, cards, polls or faults.             *)
(***************************************************************************)
EXTENDS Integers

CONSTANTS
    MaxEvents,      \* bound: events admitted to the fleet
    MaxFence,       \* bound: leases granted
    Replies,        \* the events whose answer is owed to an external destination
    Continuations,  \* the events a task asked for itself
    Inputs          \* the messages of people

VARIABLES
    admitted,   \* events 1..admitted are in the queue or have left it
    outcome,    \* event -> "open", "ran", "refused", "answered" or "retired"
    bound,      \* the events that belong to a task
    granted,    \* every lease there was, as <<fence, event>>
    live,       \* those a report could still settle
    context,    \* the event the fleet's context was last saved after
    owed        \* the events whose answer is owed

vars == <<admitted, outcome, bound, granted, live, context, owed>>

Events == 1..MaxEvents
Fences == 1..MaxFence

Init ==
    /\ admitted = 0
    /\ outcome = [e \in Events |-> "open"]
    /\ bound = Continuations
    /\ granted = {} /\ live = {}
    /\ context = 0 /\ owed = {}

Waiting(e) == e \in 1..admitted /\ outcome[e] = "open"

\* Every older event has ended or belongs to a task.
Turn(e) == \A d \in 1..(e - 1) : outcome[d] # "open" \/ d \in bound

\* The newest lease there ever was, while it is live.
Newest(f, e) == <<f, e>> \in live /\ \A l \in granted : l[1] <= f

NoneLive(e) == \A l \in live : l[2] # e

End(e, how) == outcome' = [outcome EXCEPT ![e] = IF @ = "open" THEN how ELSE @]

Admit ==
    /\ admitted < MaxEvents
    /\ admitted' = admitted + 1
    /\ UNCHANGED <<outcome, bound, granted, live, context, owed>>

\* The newest lease starts a task for a message.
Bind(e) ==
    /\ Waiting(e) /\ e \in Inputs
    /\ \E l \in live : Newest(l[1], l[2])
    /\ bound' = bound \cup {e}
    /\ UNCHANGED <<admitted, outcome, granted, live, context, owed>>

\* An event is leased in its turn, under a fence no earlier lease reached.
Grant(f, e) ==
    /\ Waiting(e) /\ Turn(e) /\ NoneLive(e)
    /\ \A l \in granted : l[1] < f
    /\ granted' = granted \cup {<<f, e>>}
    /\ live' = live \cup {<<f, e>>}
    /\ UNCHANGED <<admitted, outcome, bound, context, owed>>

\* A live lease is superseded or abandoned.
Lapse(l) ==
    /\ l \in live /\ live' = live \ {l}
    /\ UNCHANGED <<admitted, outcome, bound, granted, context, owed>>

\* The newest lease's report ends its event.
Finish(f, e) ==
    /\ Newest(f, e) /\ Waiting(e)
    /\ live' = live \ {<<f, e>>}
    /\ End(e, "ran")
    /\ context' = e
    /\ owed' = owed \cup ({e} \cap Replies)
    /\ UNCHANGED <<admitted, bound, granted>>

\* An event is refused in its turn without a run.
Refuse(e) ==
    /\ Waiting(e) /\ Turn(e) /\ NoneLive(e)
    /\ End(e, "refused")
    /\ UNCHANGED <<admitted, bound, granted, live, context, owed>>

\* The newest lease answers the message of another event.
Answer(e) ==
    /\ e \in Inputs \cap 1..admitted
    /\ \E l \in live : Newest(l[1], l[2]) /\ l[2] # e
    /\ End(e, "answered")
    /\ owed' = owed \cup ({e} \cap Replies)
    /\ UNCHANGED <<admitted, bound, granted, live, context>>

\* A continuation that was never leased is withdrawn.
Retire(e) ==
    /\ Waiting(e) /\ e \in Continuations
    /\ \A l \in granted : l[2] # e
    /\ End(e, "retired")
    /\ UNCHANGED <<admitted, bound, granted, live, context, owed>>

Next ==
    \/ Admit
    \/ \E l \in live : Lapse(l)
    \/ \E e \in Events : Bind(e) \/ Refuse(e) \/ Answer(e) \/ Retire(e)
    \/ \E f \in Fences, e \in Events : Grant(f, e) \/ Finish(f, e)

Spec == Init /\ [][Next]_vars

=============================================================================
