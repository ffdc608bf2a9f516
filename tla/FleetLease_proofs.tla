------------------------- MODULE FleetLease_proofs -------------------------
(***************************************************************************)
(* Proofs about FleetLease for every number of runners, events, claims and *)
(* faults, every timing and every placement of gates.                      *)
(*                                                                         *)
(* The argument has three layers, each resting on the one before: types,   *)
(* the queue (who may hold, stamp and settle, and which events may be      *)
(* overtaken), and what follows for reports, cards, money and records.     *)
(***************************************************************************)
EXTENDS FleetLease, TLAPS

-----------------------------------------------------------------------------
(* How the steps are grouped below. *)

\* The sweeps that end no lease.
Chores == \/ ExpireGates
          \/ \E f \in Fences : BillExpired(f)
          \/ \E r \in Runners : RecordOffline(r) \/ ReleaseSlots(r) \/ ClearHold(r)

\* Steps no pass, lease, admission or task takes part in.
Quiet == Admit \/ Operator \/ Chores \/ Tick \/ UNCHANGED vars

\* Steps that only say whether tasks may run.
Limits == \/ \E e \in Events : Allow(e) \/ Withhold(e)
          \/ \E f \in Fences : MeteredOut(f)

\* The steps of the specification, by these groups.
LEMMA StepCases ==
    ASSUME [Next]_vars
    PROVE  \/ Quiet \/ Limits
           \/ \E r \in Runners, e \in Events : ClaimHead(r, e)
           \/ \E f \in Fences : PassStep(f) \/ RunnerStep(f) \/ BlockChanged(f) \/ ExpireAbandoned(f)
           \/ \E e \in Events : TaskMoves(e)
           \/ \E f \in Fences, e \in Events :
                 Answer(f, e) \/ \E starts \in BOOLEAN : TakeInput(f, e, starts)
BY DEF Next, Step, Claim, Tasks, Sweeps, Quiet, Chores, Limits

-----------------------------------------------------------------------------
(* Types. *)

\* A minted fence names an event and a runner.
Named == \A f \in Fences : pc[f] # "none" => work[f] \in Events /\ taker[f] \in Runners

Typed == TypeOK /\ Named

\* A fresh database is well typed.
LEMMA TypedInit == Init => Typed
BY LeaseAssumption
   DEF LeaseAssumption, Init, Typed, Named, TypeOK, Statuses, Counters, GateStates, Terminal,
       Events, Fences, Targets

\* The steps of a pass keep every variable's type.
LEMMA TypedPass ==
    ASSUME Typed, NEW f \in Fences, PassStep(f) PROVE Typed'
<1> USE DEF Typed, TypeOK, Named, Counters, Goto
<1> USE DEF envVars, taskVars, queueVars, gateVars, slotVars, leaseVars, runVars
<1>1. CASE ResolveInstalled(f) BY <1>1 DEF ResolveInstalled
<1>2. CASE RecordReceived(f) BY <1>2 DEF RecordReceived
<1>3. CASE Judge(f) BY <1>3, LeaseAssumption DEF LeaseAssumption, Judge, Raise, GateStates
<1>4. CASE AskGrant(f) BY <1>4, LeaseAssumption DEF LeaseAssumption, AskGrant, Raise, GateStates
<1>5. CASE Block(f) BY <1>5 DEF Block, Terminal
<1>6. CASE Park(f) BY <1>6 DEF Park, ReleaseUnleased
<1>7. ASSUME IssuedLease(f), NEW point \in Counters \ {"none"}, pc' = [pc EXCEPT ![f] = point],
             faults' \in Nat,
             UNCHANGED <<now, fleet, host, taskVars, queueVars, gateVars, taker, work, resume, runVars>>
      PROVE  Typed'
    <2>1. until' \in Nat
        BY <1>7, LeaseAssumption DEF LeaseAssumption, IssuedLease, Deadline
    <2>2. expires' \in [Fences -> Nat] BY <1>7, <2>1 DEF IssuedLease
    <2>3. /\ status' \in [Fences -> Statuses] /\ created' \in [Fences -> Nat]
          /\ metered' \in [Fences -> Nat] /\ UNCHANGED <<fence, holder, hold>>
        BY <1>7 DEF IssuedLease, Statuses
    <2>4. ward' \in [Fences -> 0..MaxEvents]
        <3>1. work[f] \in 0..MaxEvents /\ 0 \in 0..MaxEvents
            BY LeaseAssumption DEF LeaseAssumption
        <3> QED BY <1>7, <3>1 DEF IssuedLease
    <2>5. pc' \in [Fences -> Counters] /\ \A g \in Fences : pc'[g] # "none" => pc[g] # "none"
        BY <1>7 DEF IssuedLease
    <2> QED BY <1>7, <2>1, <2>2, <2>3, <2>4, <2>5
<1>8. CASE ClaimLost(f) BY <1>8 DEF ClaimLost
<1>9. CASE LetGo(f) BY <1>9 DEF LetGo, ReleaseUnleased
<1>10. CASE Issue(f) \/ IssueUnacknowledged(f)
    BY <1>7, <1>10 DEF Issue, IssueUnacknowledged, Fault
<1>11. CASE Stop(f) BY <1>11 DEF Stop, Fault, Running
<1>12. CASE CrashPass(f) BY <1>12 DEF CrashPass, Fault, Running
<1> QED
    BY <1>1, <1>2, <1>3, <1>4, <1>5, <1>6, <1>8, <1>9, <1>10, <1>11, <1>12 DEF PassStep

\* The claim keeps every variable's type.
LEMMA TypedClaim ==
    ASSUME Typed, NEW r \in Runners, NEW e \in Events, ClaimHead(r, e) PROVE Typed'
<1> USE DEF Typed, TypeOK, Named, Counters, Statuses
<1>1. fence + 1 \in Fences /\ fence + 1 \in 0..MaxFence
    BY LeaseAssumption DEF LeaseAssumption, ClaimHead, Fences
<1>2. e \in 0..MaxEvents BY DEF Events
<1>3. until' \in Nat /\ hold' \in Nat
    BY LeaseAssumption DEF LeaseAssumption, ClaimHead, KeptHold
<1>4. status' \in [Fences -> Statuses] BY DEF ClaimHead
<1> QED BY <1>1, <1>2, <1>3, <1>4 DEF ClaimHead, envVars, taskVars, gateVars, runVars

\* The verbs of a runner on its lease keep every variable's type.
LEMMA TypedRunner ==
    ASSUME Typed, NEW f \in Fences, RunnerStep(f) PROVE Typed'
<1> USE DEF Typed, TypeOK, Named, Counters, Statuses
<1> USE DEF envVars, taskVars, queueVars, gateVars, slotVars, leaseVars, passVars, runVars
<1>1. Metered(f) \in Nat BY DEF Metered, Greatest, Least
<1>2. CASE Renew(f)
    <2>1. \A cap \in Deadline(ward[f], Least(now + TTL, created[f] + MaxRuntime)) : cap \in Nat
        BY LeaseAssumption DEF LeaseAssumption, Deadline, Least
    <2> QED BY <1>1, <1>2, <2>1 DEF Renew
<1>3. CASE KeepRecords(f) BY <1>3 DEF KeepRecords
<1>4. CASE ReportRefused(f) BY <1>4 DEF ReportRefused, Disposition
<1>5. CASE LoseRun(f) BY <1>5 DEF LoseRun, Fault, Goto, Heard
<1>6. ASSUME NEW ending \in {"processed", "fleet_error"}, NEW asked \in {0, now + HoldIdle + 1},
             Report(f, ending, asked)
      PROVE  Typed'
    <2>1. until' \in Nat /\ hold' \in Nat
        BY <1>6, LeaseAssumption DEF LeaseAssumption, Report, Least
    <2>2. settled' \in SUBSET Events /\ parked' \in SUBSET Events
        BY <1>6 DEF Report, Heard
    <2>3. event' \in [Events -> Terminal \cup {"none", "received"}]
        BY <1>6 DEF Report, Terminal
    <2> QED BY <1>1, <1>6, <2>1, <2>2, <2>3 DEF Report, Checkpoint, Heard
<1> QED BY <1>2, <1>3, <1>4, <1>5, <1>6 DEF RunnerStep

\* Admission, the sweeps, the operator and the clock keep every variable's type.
LEMMA TypedQuiet ==
    ASSUME Typed, Quiet PROVE Typed'
<1> USE LeaseAssumption DEF LeaseAssumption, Typed, TypeOK, Named
<1> USE DEF envVars, taskVars, queueVars, gateVars, slotVars, leaseVars, passVars, runVars
<1>1. CASE Admit BY <1>1 DEF Admit
<1>2. CASE Operator
    <2>1. ASSUME NEW t \in Targets, NEW verdict \in {"approved", "denied"}, ResolveGate(t, verdict)
          PROVE  Typed'
        BY <2>1 DEF ResolveGate, Unpark, GateStates
    <2>2. ASSUME NEW r \in Runners, NEW state \in {"quiet", "cordoned"}, HostLeaves(r, state)
          PROVE  Typed'
        BY <2>2 DEF HostLeaves, Fault
    <2>3. ASSUME NEW r \in Runners, HostReturns(r) PROVE Typed' BY <2>3 DEF HostReturns
    <2>4. ASSUME NEW r \in Runners, TasksOff(r) \/ TasksOn(r) PROVE Typed'
        BY <2>4 DEF TasksOff, TasksOn, Fault
    <2>5. CASE StopFleet BY <2>5 DEF StopFleet, Fault
    <2>6. CASE ResumeFleet BY <2>6 DEF ResumeFleet
    <2> QED BY <1>2, <2>1, <2>2, <2>3, <2>4, <2>5, <2>6 DEF Operator
<1>3. CASE Chores
    <2>1. CASE ExpireGates BY <2>1 DEF ExpireGates, Unpark, GateStates
    <2>2. ASSUME NEW f \in Fences, BillExpired(f) PROVE Typed' BY <2>2 DEF BillExpired
    <2>3. ASSUME NEW r \in Runners, RecordOffline(r) PROVE Typed'
        BY <2>3 DEF RecordOffline, ExpireSlots
    <2>4. ASSUME NEW r \in Runners, ReleaseSlots(r) PROVE Typed'
        BY <2>4 DEF ReleaseSlots, ExpireSlots
    <2>5. ASSUME NEW r \in Runners, ClearHold(r) PROVE Typed' BY <2>5 DEF ClearHold
    <2> QED BY <1>3, <2>1, <2>2, <2>3, <2>4, <2>5 DEF Chores
<1>4. CASE Tick BY <1>4 DEF Tick
<1>5. CASE UNCHANGED vars BY <1>5 DEF vars
<1> QED BY <1>1, <1>2, <1>3, <1>4, <1>5 DEF Quiet

\* What tasks do to the queue keeps every variable's type.
LEMMA TypedTasks ==
    ASSUME Typed, Tasks \/ Limits \/ \E f \in Fences : ExpireAbandoned(f) PROVE Typed'
<1> USE LeaseAssumption DEF LeaseAssumption, Typed, TypeOK, Named
<1> USE DEF queueVars, gateVars, slotVars, leaseVars, passVars, runVars
<1>1. ASSUME NEW e \in Events, Allow(e) \/ Withhold(e) PROVE Typed'
    BY <1>1 DEF Allow, Withhold
<1>2. ASSUME NEW e \in Events, TaskMoves(e) PROVE Typed'
    <2>1. settled' \in SUBSET Events /\ parked' \in SUBSET Events BY <1>2 DEF TaskMoves, Retire
    <2> QED BY <1>2, <2>1 DEF TaskMoves
<1>3. ASSUME NEW f \in Fences, MeteredOut(f) PROVE Typed' BY <1>3 DEF MeteredOut
<1>4. ASSUME NEW f \in Fences, BlockChanged(f) PROVE Typed'
    <2>1. settled' \in SUBSET Events /\ parked' \in SUBSET Events
        BY <1>4 DEF BlockChanged, Retire
    <2> QED BY <1>4, <2>1 DEF BlockChanged, Goto, Counters
<1>5. ASSUME NEW f \in Fences, NEW e \in Events, NEW starts \in BOOLEAN, TakeInput(f, e, starts)
      PROVE  Typed'
    <2>1. until' \in Nat /\ expires' \in [Fences -> Nat] BY <1>5 DEF TakeInput
    <2>2. e \in 0..MaxEvents BY DEF Events
    <2>3. ward' \in [Fences -> 0..MaxEvents] BY <1>5, <2>2 DEF TakeInput
    <2>4. bound' \in SUBSET (Continuations \cup Inputs) /\ taken' \in SUBSET Inputs
        BY <1>5 DEF TakeInput
    <2> QED BY <1>5, <2>1, <2>3, <2>4 DEF TakeInput
<1>6. ASSUME NEW f \in Fences, NEW e \in Events, Answer(f, e) PROVE Typed'
    BY <1>6 DEF Answer, Terminal
<1>7. ASSUME NEW f \in Fences, ExpireAbandoned(f) PROVE Typed'
    BY <1>7 DEF ExpireAbandoned, envVars, taskVars, Statuses
<1> QED BY <1>1, <1>2, <1>3, <1>4, <1>5, <1>6, <1>7 DEF Tasks, Limits

\* Every step keeps every variable's type.
LEMMA TypedNext == Typed /\ [Next]_vars => Typed'
BY TypedPass, TypedClaim, TypedRunner, TypedQuiet, TypedTasks, StepCases DEF Tasks, Limits

\* Every variable keeps its type in every behaviour.
THEOREM TypeCorrect == Spec => []TypeOK
<1>1. Spec => []Typed BY TypedInit, TypedNext, PTL DEF Spec
<1>2. Typed => TypeOK BY DEF Typed
<1> QED BY <1>1, <1>2, PTL

-----------------------------------------------------------------------------
(* The queue. *)

\* Fences are minted one after the other, and a lease is issued on a minted one.
Minted == \A f \in Fences :
    /\ pc[f] = "none" <=> f > fence
    /\ pc[f] = "none" => status[f] = "none"
    /\ pc[f] = "leased" => status[f] # "none"

\* An event's stamp is the last fence claimed for it.
Stamped ==
    /\ \A e \in Events : stamp[e] <= fence
    /\ \A f \in Fences : pc[f] # "none" => f <= stamp[work[f]]

\* Only events of tasks are passed over by a claim.
Behind == \A f \in Fences : pc[f] # "none" => (1..(work[f] - 1)) \ bound \subseteq settled

\* A pass on the current fence has no lease yet and still owns its admission's
\* stamp, and its event row is open once it was recorded.
Owned == \A f \in Fences : pc[f] \in Running =>
    /\ status[f] = "none"
    /\ fence = f => stamp[work[f]] = f
    /\ pc[f] \notin {"claimed", "resolved"} => event[work[f]] # "none"

Queue == /\ Minted /\ Stamped /\ Behind /\ Owned
         /\ ActiveHoldsSlot /\ InOrder /\ SettledIffTerminal

\* What the queue's invariant reads, the tasks aside.
queueState == <<pc, fence, status, work, settled, stamp, event, bound>>

\* No lease exists yet, so the queue's invariant holds at first.
LEMMA QueueInit == Init => Queue
BY DEF Init, Queue, Minted, Stamped, Behind, Owned, ActiveHoldsSlot, InOrder, SettledIffTerminal,
       Running, Terminal, Fences

\* Steps that touch nothing of it and bring no task back keep it.
LEMMA QueueFrame ==
    ASSUME Typed, Queue, UNCHANGED queueState,
           \A e \in Events : task[e] = "stale" => task'[e] = "stale"
    PROVE  Queue'
<1> USE DEF queueState, Queue
<1>1. Minted' /\ Stamped' /\ Behind' /\ Owned' BY DEF Minted, Stamped, Behind, Owned
<1>2. ActiveHoldsSlot' /\ InOrder' BY DEF ActiveHoldsSlot, InOrder
<1>3. \A e \in Events : PriorLeases(e)' = PriorLeases(e) BY DEF PriorLeases
<1>4. SettledIffTerminal' BY <1>3 DEF SettledIffTerminal, Typed, TypeOK
<1> QED BY <1>1, <1>2, <1>4

\* A pass that only moves on keeps it: it gains no lease and skips no recording.
LEMMA QueueMove ==
    ASSUME Typed, Queue, NEW f \in Fences, NEW point \in Counters \ {"none", "leased"},
           pc[f] # "none", pc' = [pc EXCEPT ![f] = point],
           point \in Running => /\ pc[f] \in Running
                               /\ \/ point = "resolved"
                                  \/ pc[f] \notin {"claimed", "resolved"},
           UNCHANGED <<fence, status, work, settled, stamp, event, bound, task>>
    PROVE  Queue'
<1> USE DEF Queue, Typed, TypeOK
<1>1. Minted' BY DEF Minted
<1>2. Behind' BY DEF Behind
<1>3. Owned' BY DEF Owned
<1>4. Stamped' BY DEF Stamped
<1>5. ActiveHoldsSlot' /\ InOrder' BY DEF ActiveHoldsSlot, InOrder
<1>6. SettledIffTerminal' BY DEF SettledIffTerminal, PriorLeases
<1> QED BY <1>1, <1>2, <1>3, <1>4, <1>5, <1>6

\* The current fence's pass writes a new event row.
LEMMA QueueRecord ==
    ASSUME Typed, Queue, NEW f \in Fences, RecordReceived(f) PROVE Queue'
<1> USE DEF Queue, Typed, TypeOK, Goto, envVars, taskVars, slotVars, leaseVars
<1>1. CASE ~Owns(f) BY <1>1, QueueMove DEF RecordReceived, Counters, Running
<1>2. CASE Owns(f)
    <2> DEFINE e == work[f]
    <2>1. e \in Events /\ e \notin settled BY <1>2 DEF Owns, RecordReceived, Named
    <2>2. event[e] \in {"none", "received"} BY <2>1 DEF SettledIffTerminal
    <2>3. event' = [event EXCEPT ![e] = "received"] BY <1>2, <2>1, <2>2 DEF RecordReceived
    <2>4. pc' = [pc EXCEPT ![f] = "recorded"] /\ pc[f] = "resolved"
          /\ UNCHANGED <<fence, status, work, settled, stamp, bound, task>>
        BY <1>2 DEF RecordReceived, Owns
    <2> HIDE DEF e
    <2>5. Minted' BY <2>4 DEF Minted
    <2>6. Behind' /\ Stamped' BY <2>4 DEF Behind, Stamped
    <2>7. Owned' BY <2>1, <2>3, <2>4 DEF Owned, Running, Named, e
    <2>8. ActiveHoldsSlot' BY <2>1, <2>3, <2>4 DEF ActiveHoldsSlot
    <2>9. InOrder' BY <2>1, <2>3, <2>4 DEF InOrder
    <2>10. SettledIffTerminal'
        BY <2>1, <2>3, <2>4 DEF SettledIffTerminal, Terminal, PriorLeases
    <2> QED BY <2>5, <2>6, <2>7, <2>8, <2>9, <2>10
<1> QED BY <1>1, <1>2

\* The pass of the current fence, or its lease, settles the event claimed.
LEMMA QueueSettle ==
    ASSUME Typed, Queue, NEW f \in Fences, fence = f, pc[f] # "none", work[f] \notin settled,
           NEW ending \in Terminal, NEW point \in Counters \ (Running \cup {"none"}),
           NEW ended \in Statuses \ {"active"},
           ended = "none" <=> status[f] = "none",
           point = "leased" => ended # "none",
           settled' = settled \cup {work[f]},
           event' = [event EXCEPT ![work[f]] = ending],
           status' = [status EXCEPT ![f] = ended],
           pc' = [pc EXCEPT ![f] = point],
           UNCHANGED <<fence, work, stamp, bound, task>>
    PROVE  Queue'
<1> DEFINE e == work[f]
<1> USE DEF Queue, Typed, TypeOK
<1>1. e \in Events /\ e \in Nat /\ (1..(e - 1)) \ bound \subseteq settled
    BY DEF Named, Behind, Events
<1>2. Minted' BY DEF Minted
<1>3. Behind' /\ Stamped' BY DEF Behind, Stamped
<1>4. Owned'
    <2>1. SUFFICES ASSUME NEW g \in Fences, pc'[g] \in Running
                   PROVE  /\ status'[g] = "none" /\ fence' # g
                          /\ pc'[g] \notin {"claimed", "resolved"} => event'[work'[g]] # "none"
        BY DEF Owned
    <2>2. g # f BY <2>1
    <2> QED BY <2>1, <2>2, <1>1 DEF Owned, Named, Terminal, Running
<1>5. ActiveHoldsSlot' BY DEF ActiveHoldsSlot
<1>6. \A g \in Fences : status'[g] = "none" <=> status[g] = "none" OBVIOUS
<1>7. InOrder'
    <2>1. \A g \in Fences : status'[g] # "none" => (1..(work'[g] - 1)) \ bound' \subseteq settled'
        BY <1>6 DEF InOrder
    <2>2. \A d \in settled' : event'[d] = "gate_blocked" => (1..(d - 1)) \ bound' \subseteq settled'
        BY <1>1 DEF InOrder
    <2> QED BY <2>1, <2>2 DEF InOrder
<1>8. SettledIffTerminal'
    <2>1. \A d \in Events : PriorLeases(d)' = PriorLeases(d) BY <1>6 DEF PriorLeases
    <2> QED BY <1>1, <2>1 DEF SettledIffTerminal
<1> QED BY <1>2, <1>3, <1>4, <1>5, <1>7, <1>8

\* A refusal.
LEMMA QueueBlock ==
    ASSUME Typed, Queue, NEW f \in Fences, Block(f) PROVE Queue'
<1> USE DEF Queue, Typed, TypeOK, Goto, envVars, taskVars, slotVars, leaseVars
<1>1. CASE ~Owns(f) BY <1>1, QueueMove DEF Block, Counters, Running
<1>2. CASE Owns(f)
    <2>1. work[f] \in Events /\ work[f] \notin settled /\ status[f] = "none" /\ fence = f
        BY <1>2 DEF Owns, Block, Named, Owned, Running
    <2>2. event[work[f]] = "received"
        BY <1>2, <2>1 DEF Block, Owned, Running, SettledIffTerminal
    <2>3. event' = [event EXCEPT ![work[f]] = "gate_blocked"] BY <1>2, <2>1, <2>2 DEF Block
    <2>4. status' = [status EXCEPT ![f] = "none"] BY <1>2, <2>1 DEF Block
    <2>5. settled' = settled \cup {work[f]} /\ pc' = [pc EXCEPT ![f] = "stopping"]
          /\ pc[f] # "none" /\ UNCHANGED <<fence, work, stamp, bound, task>>
        BY <1>2 DEF Block
    <2>6. "stopping" \in Counters \ (Running \cup {"none"}) BY DEF Counters, Running
    <2>7. "none" \in Statuses \ {"active"} /\ "gate_blocked" \in Terminal
        BY DEF Statuses, Terminal
    <2> HIDE DEF Queue, Typed, TypeOK
    <2> QED BY <2>1, <2>3, <2>4, <2>5, <2>6, <2>7, QueueSettle
<1> QED BY <1>1, <1>2

\* A report settles under the current fence: no later claim left it its stamp.
LEMMA ReportIsCurrent ==
    ASSUME Typed, Queue, NEW f \in Fences, NEW ending, NEW asked, Report(f, ending, asked)
    PROVE  /\ fence = f /\ pc[f] = "leased" /\ work[f] \in Events /\ work[f] \notin settled
           /\ status[f] = "active" /\ event[work[f]] = "received"
<1>1. /\ pc[f] = "leased" /\ status[f] = "active" /\ f >= fence
      /\ fence \in Nat /\ f \in Nat
    BY LeaseAssumption
       DEF LeaseAssumption, Report, Heard, Settles, StillStamped, Typed, TypeOK, Fences
<1>2. fence = f BY <1>1 DEF Queue, Minted
<1> QED BY <1>1, <1>2 DEF Typed, Named, Queue, ActiveHoldsSlot

\* The report that settles.
LEMMA QueueReport ==
    ASSUME Typed, Queue, NEW f \in Fences, NEW ending \in {"processed", "fleet_error"},
           NEW asked \in {0, now + HoldIdle + 1}, Report(f, ending, asked)
    PROVE  Queue'
<1>1. /\ fence = f /\ pc[f] = "leased" /\ work[f] \in Events /\ work[f] \notin settled
      /\ status[f] = "active" /\ event[work[f]] = "received"
    BY ReportIsCurrent
<1>2. event' = [event EXCEPT ![work[f]] = ending] BY <1>1 DEF Report, Typed, TypeOK
<1>3. pc' = [pc EXCEPT ![f] = "leased"] BY <1>1 DEF Report, passVars, Typed, TypeOK
<1>4. /\ settled' = settled \cup {work[f]} /\ status' = [status EXCEPT ![f] = "reported"]
      /\ UNCHANGED <<fence, work, stamp, bound, task>>
    BY DEF Report, passVars, envVars, taskVars
<1>5. "leased" \in Counters \ (Running \cup {"none"}) BY DEF Counters, Running
<1>6. "reported" \in Statuses \ {"active"} /\ ending \in Terminal BY DEF Statuses, Terminal
<1> QED BY <1>1, <1>2, <1>3, <1>4, <1>5, <1>6, QueueSettle

\* What an issue finds: the pass's own stamp on an open, unsettled event.
LEMMA IssueFinds ==
    ASSUME Typed, Queue, NEW f \in Fences, IssuedLease(f)
    PROVE  /\ fence = f /\ pc[f] = "judged" /\ status[f] = "none" /\ stamp[work[f]] = f
           /\ work[f] \in Events /\ work[f] \notin settled /\ event[work[f]] = "received"
<1>1. /\ fence = f /\ pc[f] = "judged" /\ work[f] \notin settled /\ event[work[f]] # "none"
    BY DEF IssuedLease, Issuable
<1>2. work[f] \in Events BY <1>1 DEF Typed, Named
<1>3. event[work[f]] = "received"
    BY <1>1, <1>2 DEF Typed, TypeOK, Queue, SettledIffTerminal
<1> QED BY <1>1, <1>2, <1>3 DEF Queue, Owned, Running

\* A lease is issued on the fence the pass still holds.
LEMMA QueueIssue ==
    ASSUME Typed, Queue, NEW f \in Fences, NEW point \in {"leased", "stopping"},
           IssuedLease(f), Goto(f, point), UNCHANGED <<queueVars, taskVars>>
    PROVE  Queue'
<1> USE DEF Queue, Typed, TypeOK
<1>1. /\ fence = f /\ pc[f] = "judged" /\ status[f] = "none" /\ stamp[work[f]] = f
      /\ work[f] \in Events /\ work[f] \notin settled /\ event[work[f]] = "received"
    BY IssueFinds
<1>2. /\ pc' = [pc EXCEPT ![f] = point] /\ status' = [status EXCEPT ![f] = "active"]
      /\ UNCHANGED <<fence, work, settled, stamp, event, bound, task>>
    BY DEF IssuedLease, Goto, queueVars, taskVars
<1>3. Minted' BY <1>1, <1>2 DEF Minted
<1>4. Behind' /\ Stamped' BY <1>1, <1>2 DEF Behind, Stamped
<1>5. Owned' BY <1>2 DEF Owned, Running
<1>6. ActiveHoldsSlot' BY <1>1, <1>2 DEF ActiveHoldsSlot
<1>7. InOrder' BY <1>1, <1>2 DEF InOrder, Behind
<1>8. SettledIffTerminal'
    <2>1. \A d \in settled : PriorLeases(d)' = PriorLeases(d) BY <1>1, <1>2 DEF PriorLeases
    <2> QED BY <1>2, <2>1 DEF SettledIffTerminal
<1> QED BY <1>3, <1>4, <1>5, <1>6, <1>7, <1>8

\* The claim expires the lease it would leave active without a task to show for
\* it.  With the claimed event and a lease's both outside tasks, neither may be
\* passed over, so they are the same event; and the lease an event is stamped
\* with is its latest, which the claim expires.
LEMMA QueueClaim ==
    ASSUME Typed, Queue, NEW r \in Runners, NEW e \in Events, ClaimHead(r, e) PROVE Queue'
<1> USE DEF Queue, Typed, TypeOK
<1>1. /\ fence + 1 \in Fences /\ fence' = fence + 1 /\ fence \in Nat /\ e \in Nat
      /\ e \in 1..admitted /\ e \notin settled
      /\ pc[fence + 1] = "none" /\ status[fence + 1] = "none"
    BY LeaseAssumption DEF LeaseAssumption, ClaimHead, IsHead, Fences, Events, Minted
<1>2. /\ pc' = [pc EXCEPT ![fence + 1] = "claimed"]
      /\ work' = [work EXCEPT ![fence + 1] = e]
      /\ stamp' = [stamp EXCEPT ![e] = fence + 1]
      /\ status' = [g \in Fences |-> IF Superseded(g, e) THEN "expired" ELSE status[g]]
      /\ UNCHANGED <<settled, event, bound, task>>
    BY DEF ClaimHead, envVars, taskVars
<1>3. (1..(e - 1)) \ bound \subseteq settled
    <2>1. SUFFICES ASSUME NEW d \in 1..(e - 1), d \notin bound, d \notin settled PROVE FALSE
        OBVIOUS
    <2>2. IsHead(r, e) BY DEF ClaimHead
    <2> QED BY <2>1, <2>2 DEF IsHead, Eligible
<1>4. \A g \in Fences : status[g] # "none" => pc[g] # "none" /\ g <= fence /\ g # fence + 1
    BY <1>1 DEF Minted, Fences
<1>5. \A g \in Fences : status[g] = "active" /\ work[g] = e => Superseded(g, e)
    <2>1. SUFFICES ASSUME NEW g \in Fences, status[g] = "active", work[g] = e
                   PROVE  Superseded(g, e)
        OBVIOUS
    <2>2. stamp[e] = g BY <2>1 DEF ActiveHoldsSlot
    <2>3. \A h \in PriorLeases(e) : h <= g BY <1>4, <2>2 DEF PriorLeases, Stamped
    <2> QED BY <2>1, <2>3 DEF Superseded, IsLatestLease, PriorLeases
<1>6. \A g \in Fences : status'[g] = "none" <=> status[g] = "none"
    BY <1>2 DEF Superseded, IsLatestLease, PriorLeases
<1>7. Minted'
    <2>1. \A g \in Fences : pc'[g] = "none" <=> g > fence + 1
        BY <1>1, <1>2 DEF Minted, Fences
    <2> QED BY <1>1, <1>2, <1>6, <2>1 DEF Minted
<1>8. Behind' BY <1>1, <1>2, <1>3 DEF Behind
<1>9. Stamped'
    <2>1. \A d \in Events : stamp'[d] <= fence' BY <1>1, <1>2 DEF Stamped
    <2>2. SUFFICES ASSUME NEW g \in Fences, pc'[g] # "none" PROVE g <= stamp'[work'[g]]
        BY <2>1 DEF Stamped
    <2>3. CASE g = fence + 1 BY <1>1, <1>2, <2>3 DEF Fences
    <2>4. CASE g # fence + 1
        <3>1. pc[g] # "none" /\ work'[g] = work[g] /\ work[g] \in Events /\ g <= fence
            BY <1>1, <1>2, <2>2, <2>4 DEF Named, Minted, Fences
        <3> QED BY <1>1, <1>2, <3>1 DEF Stamped, Fences
    <2> QED BY <2>3, <2>4
<1>10. Owned'
    <2>1. SUFFICES ASSUME NEW g \in Fences, pc'[g] \in Running
                   PROVE  /\ status'[g] = "none"
                          /\ fence' = g => stamp'[work'[g]] = g
                          /\ pc'[g] \notin {"claimed", "resolved"} => event'[work'[g]] # "none"
        BY DEF Owned
    <2>2. CASE g = fence + 1 BY <1>1, <1>2, <1>6, <2>2
    <2>3. CASE g # fence + 1 BY <1>1, <1>2, <1>6, <2>1, <2>3 DEF Owned
    <2> QED BY <2>2, <2>3
<1>11. ActiveHoldsSlot'
    <2>1. SUFFICES ASSUME NEW g \in Fences, status'[g] = "active"
                   PROVE  /\ stamp'[work'[g]] = g /\ g # fence'
                          /\ {work'[g], work'[g + 1]} \cap bound' # {}
        BY DEF ActiveHoldsSlot
    <2>2. status[g] = "active" /\ ~Superseded(g, e) BY <1>2, <2>1
    <2>3. g # fence + 1 /\ g <= fence /\ g \in Nat /\ work[g] # e /\ work[g] \in Events
          /\ work[g] \in Nat /\ pc[g] # "none"
        BY <1>4, <1>5, <2>2 DEF Named, Events, Fences
    <2>4. stamp'[work'[g]] = g BY <1>2, <2>2, <2>3 DEF ActiveHoldsSlot
    <2>5. CASE g = fence
        <3>1. work[g] \notin settled /\ (1..(work[g] - 1)) \ bound \subseteq settled
            BY <2>2, <2>3, <2>5 DEF ActiveHoldsSlot, Behind
        <3>2. work[g] \notin bound => ~(work[g] < e)
            BY <1>1, <1>3, <2>3, <3>1 DEF Events
        <3>3. e \notin bound => ~(e < work[g])
            <4>1. e < work[g] => e \in 1..(work[g] - 1) BY <1>1, <2>3
            <4> QED BY <1>1, <3>1, <4>1
        <3>4. {work[g], e} \cap bound # {} BY <1>1, <2>3, <3>2, <3>3
        <3>5. work'[g] = work[g] /\ work'[g + 1] = e BY <1>1, <1>2, <2>3, <2>5
        <3> QED BY <1>1, <1>2, <2>3, <2>4, <3>4, <3>5
    <2>6. CASE g # fence
        <3>1. {work[g], work[g + 1]} \cap bound # {} BY <2>2, <2>6 DEF ActiveHoldsSlot
        <3>2. g + 1 \in Fences /\ g + 1 # fence + 1
            BY <1>1, <2>3, <2>6, LeaseAssumption DEF Fences, LeaseAssumption
        <3>3. work'[g] = work[g] /\ work'[g + 1] = work[g + 1] BY <1>2, <2>3, <3>2
        <3> QED BY <1>1, <1>2, <2>3, <2>4, <3>1, <3>3
    <2> QED BY <2>5, <2>6
<1>12. InOrder'
    <2>1. \A g \in Fences : status[g] # "none" => work'[g] = work[g] BY <1>2, <1>4
    <2> QED BY <1>2, <1>6, <2>1 DEF InOrder
<1>13. SettledIffTerminal'
    <2>1. \A d \in settled : PriorLeases(d)' = PriorLeases(d)
        BY <1>1, <1>2, <1>4, <1>6 DEF PriorLeases
    <2> QED BY <1>2, <2>1 DEF SettledIffTerminal
<1> QED BY <1>7, <1>8, <1>9, <1>10, <1>11, <1>12, <1>13

\* Every step of a pass keeps the queue.
LEMMA QueuePass ==
    ASSUME Typed, Queue, NEW f \in Fences, PassStep(f) PROVE Queue'
<1> USE DEF Goto, envVars, taskVars, queueVars, slotVars, leaseVars
<1>1. CASE ResolveInstalled(f) BY <1>1, QueueMove DEF ResolveInstalled, Counters, Running
<1>2. CASE RecordReceived(f) BY <1>2, QueueRecord
<1>3. CASE Judge(f) BY <1>3, QueueMove DEF Judge, Counters, Running
<1>4. CASE AskGrant(f) BY <1>4, QueueMove DEF AskGrant, Counters, Running
<1>5. CASE Block(f) BY <1>5, QueueBlock
<1>6. CASE Park(f) BY <1>6, QueueMove DEF Park, ReleaseUnleased, Counters, Running
<1>7. CASE Issue(f) BY <1>7, QueueIssue DEF Issue
<1>8. CASE ClaimLost(f) BY <1>8, QueueMove DEF ClaimLost, Counters, Running
<1>9. CASE LetGo(f) BY <1>9, QueueMove DEF LetGo, ReleaseUnleased, Counters, Running
<1>10. CASE IssueUnacknowledged(f) BY <1>10, QueueIssue DEF IssueUnacknowledged
<1>11. CASE Stop(f) BY <1>11, QueueMove DEF Stop, Counters, Running
<1>12. CASE CrashPass(f) BY <1>12, QueueMove DEF CrashPass, Counters, Running
<1> QED
    BY <1>1, <1>2, <1>3, <1>4, <1>5, <1>6, <1>7, <1>8, <1>9, <1>10, <1>11, <1>12 DEF PassStep

\* Every verb of a runner keeps the queue.
LEMMA QueueRunner ==
    ASSUME Typed, Queue, NEW f \in Fences, RunnerStep(f) PROVE Queue'
<1> USE DEF envVars, taskVars, queueVars, slotVars, leaseVars, passVars, queueState
<1>1. CASE Renew(f) BY <1>1, QueueFrame DEF Renew
<1>2. CASE KeepRecords(f) BY <1>2, QueueFrame DEF KeepRecords
<1>3. CASE ReportRefused(f) BY <1>3, QueueFrame DEF ReportRefused
<1>4. CASE LoseRun(f) BY <1>4, QueueMove DEF LoseRun, Heard, Goto, Counters, Running
<1> QED BY <1>1, <1>2, <1>3, <1>4, QueueReport DEF RunnerStep

\* A task that ends or changes marks its admission stale and, before any lease of
\* it was issued, settles it; a pass may stop over it.
LEMMA QueueRetire ==
    ASSUME Typed, Queue, NEW e \in Events, Retire(e), task' = [task EXCEPT ![e] = "stale"],
           pc' \in [Fences -> Counters],
           \A g \in Fences : pc'[g] = pc[g] \/ (pc[g] = "claimed" /\ pc'[g] = "stopping"),
           UNCHANGED <<fence, status, work, stamp, event, bound>>
    PROVE  Queue'
<1> USE DEF Queue, Typed, TypeOK
<1>1. \A d \in Events : PriorLeases(d)' = PriorLeases(d) BY DEF PriorLeases
<1>2. /\ settled \subseteq settled'
      /\ \A d \in settled' : d \in settled \/ (d = e /\ e \in Continuations /\ PriorLeases(e) = {})
    BY DEF Retire
<1>3. Minted' BY DEF Minted
<1>4. Behind' /\ Stamped' BY <1>2 DEF Behind, Stamped
<1>5. Owned' BY DEF Owned, Running
<1>6. ActiveHoldsSlot' BY <1>2 DEF ActiveHoldsSlot, PriorLeases
<1>7. InOrder'
    <2>1. \A g \in Fences : status'[g] # "none" => (1..(work'[g] - 1)) \ bound' \subseteq settled'
        BY <1>2 DEF InOrder
    <2>2. ASSUME NEW d \in settled', event'[d] = "gate_blocked"
          PROVE  (1..(d - 1)) \ bound' \subseteq settled'
        <3>1. d \in settled
            BY <1>2, <2>2 DEF SettledIffTerminal, Terminal
        <3> QED BY <1>2, <2>2, <3>1 DEF InOrder
    <2> QED BY <2>1, <2>2 DEF InOrder
<1>8. SettledIffTerminal' BY <1>1, <1>2 DEF SettledIffTerminal
<1> QED BY <1>3, <1>4, <1>5, <1>6, <1>7, <1>8

\* A run whose lease holds is the current fence's.
LEMMA LiveRunIsCurrent ==
    ASSUME Typed, Queue, NEW f \in Fences, LiveRun(f)
    PROVE  /\ fence = f /\ pc[f] = "leased" /\ status[f] = "active"
           /\ work[f] \in Events /\ work[f] \notin settled /\ event[work[f]] = "received"
<1>1. /\ pc[f] = "leased" /\ status[f] = "active" /\ f >= fence
      /\ fence \in Nat /\ f \in Nat
    BY LeaseAssumption DEF LeaseAssumption, LiveRun, Heard, Typed, TypeOK, Fences
<1>2. fence = f BY <1>1 DEF Queue, Minted
<1> QED BY <1>1, <1>2 DEF Typed, Named, Queue, ActiveHoldsSlot

\* A message may become part of a task: there is one more event to pass over.
LEMMA QueueTakeInput ==
    ASSUME Typed, Queue, NEW f \in Fences, NEW e \in Events, NEW starts \in BOOLEAN,
           TakeInput(f, e, starts)
    PROVE  Queue'
<1> USE DEF Queue, Typed, TypeOK
<1>1. /\ bound \subseteq bound'
      /\ UNCHANGED <<pc, fence, status, work, settled, stamp, event, task>>
    BY DEF TakeInput, queueVars, passVars
<1>2. Minted' BY <1>1 DEF Minted
<1>3. Behind' /\ Stamped' /\ Owned' BY <1>1 DEF Behind, Stamped, Owned
<1>4. ActiveHoldsSlot' BY <1>1 DEF ActiveHoldsSlot
<1>5. InOrder' BY <1>1 DEF InOrder
<1>6. SettledIffTerminal' BY <1>1 DEF SettledIffTerminal, PriorLeases
<1> QED BY <1>2, <1>3, <1>4, <1>5, <1>6

\* An answer ends another event than the current lease's own.
LEMMA QueueAnswer ==
    ASSUME Typed, Queue, NEW f \in Fences, NEW e \in Events, Answer(f, e) PROVE Queue'
<1> USE DEF Queue, Typed, TypeOK
<1>1. fence = f /\ status[f] = "active" /\ e # work[f] /\ pc[f] = "leased"
    BY LiveRunIsCurrent DEF Answer
<1>2. /\ settled' = settled \cup {e}
      /\ event' = [event EXCEPT ![e] = IF @ \in {"none", "received"} THEN "processed" ELSE @]
      /\ UNCHANGED <<pc, fence, status, work, stamp, bound, task>>
    BY DEF Answer, slotVars, leaseVars, passVars
<1>3. /\ event'[e] \in Terminal
      /\ event'[e] = "gate_blocked" => event[e] = "gate_blocked"
    BY <1>2 DEF Terminal
<1>4. Minted' BY <1>2 DEF Minted
<1>5. Behind' /\ Stamped' BY <1>2 DEF Behind, Stamped
<1>6. Owned' BY <1>2, <1>3 DEF Owned, Terminal, Named
<1>7. ActiveHoldsSlot' BY <1>1, <1>2 DEF ActiveHoldsSlot
<1>8. InOrder'
    <2>1. \A g \in Fences : status'[g] # "none" => (1..(work'[g] - 1)) \ bound' \subseteq settled'
        BY <1>2 DEF InOrder
    <2>2. ASSUME NEW d \in settled', event'[d] = "gate_blocked"
          PROVE  (1..(d - 1)) \ bound' \subseteq settled'
        <3>1. event[d] = "gate_blocked" BY <1>2, <1>3, <2>2
        <3>2. d \in settled BY <1>2, <2>2, <3>1 DEF SettledIffTerminal, Terminal
        <3> QED BY <1>2, <3>1, <3>2 DEF InOrder
    <2> QED BY <2>1, <2>2 DEF InOrder
<1>9. SettledIffTerminal'
    <2>1. \A d \in Events : PriorLeases(d)' = PriorLeases(d) BY <1>2 DEF PriorLeases
    <2>2. \A d \in Events : event'[d] \in Terminal => d \in settled'
        BY <1>2 DEF SettledIffTerminal
    <2>3. \A d \in settled' : d = e \/ (d \in settled /\ d \in Events /\ event'[d] = event[d])
        BY <1>2
    <2> QED BY <1>2, <1>3, <2>1, <2>2, <2>3 DEF SettledIffTerminal
<1> QED BY <1>4, <1>5, <1>6, <1>7, <1>8, <1>9

\* The sweep ends a lease nobody ended, and with it nothing of the queue.
LEMMA QueueAbandon ==
    ASSUME Typed, Queue, NEW f \in Fences, ExpireAbandoned(f) PROVE Queue'
<1> USE DEF Queue, Typed, TypeOK
<1>1. /\ status[f] = "active" /\ status' = [status EXCEPT ![f] = "expired"]
      /\ UNCHANGED <<pc, fence, work, settled, stamp, event, bound, task>>
    BY DEF ExpireAbandoned, envVars, taskVars, queueVars, slotVars, passVars
<1>2. \A g \in Fences : /\ status'[g] = "none" <=> status[g] = "none"
                        /\ status'[g] = "active" => status[g] = "active"
    BY <1>1
<1>3. Minted' BY <1>1, <1>2 DEF Minted
<1>4. Behind' /\ Stamped' /\ Owned' BY <1>1, <1>2 DEF Behind, Stamped, Owned
<1>5. ActiveHoldsSlot' BY <1>1, <1>2 DEF ActiveHoldsSlot
<1>6. InOrder' BY <1>1, <1>2 DEF InOrder
<1>7. SettledIffTerminal'
    <2>1. \A d \in Events : PriorLeases(d)' = PriorLeases(d) BY <1>1, <1>2 DEF PriorLeases
    <2> QED BY <1>1, <2>1 DEF SettledIffTerminal
<1> QED BY <1>3, <1>4, <1>5, <1>6, <1>7

\* The producers, the billing sweep, the operator and the clock change no pass,
\* fence, lease status, admission, event or task.
LEMMA QuietLeavesQueue ==
    ASSUME Quiet PROVE UNCHANGED <<queueState, task, runVars, taken, answered>>
<1> USE DEF queueState, envVars, taskVars, queueVars, slotVars, leaseVars, passVars, runVars
<1>1. CASE Admit BY <1>1 DEF Admit
<1>2. CASE Operator
    BY <1>2 DEF Operator, ResolveGate, HostLeaves, HostReturns, TasksOff, TasksOn, StopFleet,
                ResumeFleet
<1>3. CASE Chores
    BY <1>3 DEF Chores, ExpireGates, BillExpired, RecordOffline, ReleaseSlots, ClearHold
<1>4. CASE Tick BY <1>4 DEF Tick
<1>5. CASE UNCHANGED vars BY <1>5 DEF vars
<1> QED BY <1>1, <1>2, <1>3, <1>4, <1>5 DEF Quiet

\* A task's limits change nothing else.
LEMMA LimitsChangeTasks ==
    ASSUME Typed, Limits
    PROVE  /\ \A e \in Events : task[e] = "stale" => task'[e] = "stale"
           /\ UNCHANGED <<now, faults, fleet, host, fit, bound, taken, answered, queueVars, gateVars,
                          slotVars, leaseVars, passVars, runVars>>
BY DEF Limits, Allow, Withhold, MeteredOut, Typed, TypeOK

\* Every step keeps the queue.
LEMMA QueueNext == Typed /\ Queue /\ [Next]_vars => Queue'
<1> SUFFICES ASSUME Typed, Queue, [Next]_vars PROVE Queue'
    OBVIOUS
<1>1. CASE Quiet BY <1>1, QuietLeavesQueue, QueueFrame
<1>2. CASE Limits
    BY <1>2, LimitsChangeTasks, QueueFrame
       DEF queueState, queueVars, slotVars, leaseVars, passVars
<1>3. ASSUME NEW f \in Fences, BlockChanged(f) PROVE Queue'
    <2>1. work[f] \in Events BY <1>3 DEF BlockChanged, Typed, Named
    <2>2. /\ pc[f] = "claimed" /\ pc' = [pc EXCEPT ![f] = "stopping"]
          /\ task' = [task EXCEPT ![work[f]] = "stale"] /\ Retire(work[f])
          /\ UNCHANGED <<fence, status, work, stamp, event, bound>>
        BY <1>3 DEF BlockChanged, Goto, slotVars, leaseVars
    <2>3. pc' \in [Fences -> Counters] BY <2>2 DEF Typed, TypeOK, Counters
    <2>4. \A g \in Fences : pc'[g] = pc[g] \/ (pc[g] = "claimed" /\ pc'[g] = "stopping")
        BY <2>2 DEF Typed, TypeOK
    <2> QED BY <2>1, <2>2, <2>3, <2>4, QueueRetire
<1>4. ASSUME NEW e \in Events, TaskMoves(e) PROVE Queue'
    BY <1>4, QueueRetire DEF TaskMoves, slotVars, leaseVars, passVars, Typed, TypeOK
<1> QED BY <1>1, <1>2, <1>3, <1>4, StepCases, QueueClaim, QueuePass, QueueRunner, QueueAbandon,
           QueueAnswer, QueueTakeInput

\* The queue's invariant holds in every behaviour.
LEMMA QueueInvariant == Spec => [](Typed /\ Queue)
BY TypedInit, TypedNext, QueueInit, QueueNext, PTL DEF Spec

\* What an active lease holds, in every behaviour: its event's stamp; on the slot's
\* fence, an open event; and past that fence only because a task was passed over.
THEOREM LiveHolder == Spec => []ActiveHoldsSlot
<1>1. Queue => ActiveHoldsSlot BY DEF Queue
<1> QED BY <1>1, QueueInvariant, PTL

\* The fleet's events are leased and refused in sequence order, past none but the
\* events of tasks.
THEOREM FleetOrder == Spec => []InOrder
<1>1. Queue => InOrder BY DEF Queue
<1> QED BY <1>1, QueueInvariant, PTL

\* An event with an ending has left the queue, and what left it without one is a
\* continuation that was never leased and whose task moved on.
THEOREM QueueMatchesLedger == Spec => []SettledIffTerminal
<1>1. Queue => SettledIffTerminal BY DEF Queue
<1> QED BY <1>1, QueueInvariant, PTL

-----------------------------------------------------------------------------
(* Endings: what reports settle, what they are told and which records stay. *)

\* A fenced report's lease expired or was left behind by a later claim, and
\* neither is ever undone.
Answered == \A f \in Fences :
    /\ "fenced" \in told[f] => status[f] # "reported" /\ (status[f] = "expired" \/ f < fence)
    /\ "settled" \in told[f] \/ "repeat" \in told[f] => status[f] = "reported"

Endings == SettledOnce /\ Answered /\ RecordsOfSettler

\* No event has ended and no report has been answered.
LEMMA EndingsInit == Init => Endings
BY DEF Init, Endings, SettledOnce, Reporters, Answered, RecordsOfSettler

\* Leases that end without a report, and fences minted, end no event.
LEMMA EndingsFrame ==
    ASSUME Typed, Endings, fence' \in Nat, fence <= fence', answered \subseteq answered',
           UNCHANGED <<event, told, calls>>,
           \A g \in Fences : /\ status'[g] = "reported" <=> status[g] = "reported"
                             /\ status[g] = "reported" => work'[g] = work[g]
                             /\ status[g] = "expired" => status'[g] = "expired"
    PROVE  Endings'
<1> USE DEF Endings
<1>1. \A e \in Events : Reporters(e)' = Reporters(e) BY DEF Reporters
<1>2. SettledOnce' BY <1>1 DEF SettledOnce
<1>3. Answered'
    <2>1. \A g \in Fences : g < fence => g < fence'
        BY LeaseAssumption DEF Typed, TypeOK, Fences, LeaseAssumption
    <2> QED BY <2>1 DEF Answered
<1>4. RecordsOfSettler'
    <2>1. \A e \in Events : calls[e] \subseteq Fences BY DEF Typed, TypeOK
    <2> QED BY <1>1, <2>1 DEF RecordsOfSettler
<1> QED BY <1>2, <1>3, <1>4

\* Opening or refusing an event nobody reported.
LEMMA EndingsEvent ==
    ASSUME Typed, Endings, NEW e \in Events, event[e] \in {"none", "received"},
           NEW s \in {"received", "gate_blocked"}, event' = [event EXCEPT ![e] = s],
           UNCHANGED <<status, work, fence, told, calls, answered>>
    PROVE  Endings'
<1> USE DEF Endings, Typed, TypeOK
<1>1. \A d \in Events : Reporters(d)' = Reporters(d) BY DEF Reporters
<1>2. SettledOnce' BY <1>1 DEF SettledOnce
<1>3. Answered' BY DEF Answered
<1>4. RecordsOfSettler' BY <1>1 DEF RecordsOfSettler
<1> QED BY <1>2, <1>3, <1>4

\* A pass only ends an event by blocking it, before any lease of it reported.
LEMMA EndingsPass ==
    ASSUME Typed, Queue, Endings, NEW f \in Fences, PassStep(f) PROVE Endings'
<1> USE DEF Goto, envVars, taskVars, queueVars, slotVars, leaseVars, runVars
<1>1. fence \in Nat BY LeaseAssumption DEF LeaseAssumption, Typed, TypeOK
<1>2. CASE (RecordReceived(f) /\ Owns(f)) \/ (Block(f) /\ Owns(f))
    <2>1. work[f] \in Events /\ work[f] \notin settled
        BY <1>2 DEF Owns, RecordReceived, Block, Typed, Named
    <2>2. event[work[f]] \in {"none", "received"}
        BY <2>1 DEF Typed, TypeOK, Queue, SettledIffTerminal
    <2>3. CASE RecordReceived(f) /\ Owns(f)
        <3>1. event' = [event EXCEPT ![work[f]] = "received"]
            BY <2>1, <2>2, <2>3 DEF RecordReceived, Typed, TypeOK
        <3> QED BY <2>1, <2>2, <2>3, <3>1, EndingsEvent DEF RecordReceived
    <2>4. CASE Block(f) /\ Owns(f)
        <3>1. event[work[f]] = "received"
            BY <2>1, <2>2, <2>4 DEF Block, Queue, Owned, Running
        <3>2. event' = [event EXCEPT ![work[f]] = "gate_blocked"]
            BY <2>1, <2>4, <3>1 DEF Block, Typed, TypeOK
        <3> QED BY <2>1, <2>2, <2>4, <3>2, EndingsEvent DEF Block
    <2> QED BY <1>2, <2>3, <2>4
<1>3. CASE Issue(f) \/ IssueUnacknowledged(f)
    <2>1. status[f] = "none" /\ status' = [status EXCEPT ![f] = "active"]
          /\ UNCHANGED <<work, event, fence, told, calls, answered>>
        BY <1>3, IssueFinds DEF Issue, IssueUnacknowledged, IssuedLease
    <2> QED BY <1>1, <2>1, EndingsFrame DEF Typed, TypeOK
<1>4. CASE UNCHANGED <<status, work, event, fence, told, calls, answered>>
    BY <1>1, <1>4, EndingsFrame
<1> QED
    BY <1>2, <1>3, <1>4
       DEF PassStep, ResolveInstalled, RecordReceived, Judge, AskGrant, Block, Park,
           ReleaseUnleased, ClaimLost, LetGo, Stop, CrashPass

\* A claim ends nothing and answers nothing.
LEMMA EndingsClaim ==
    ASSUME Typed, Queue, Endings, NEW r \in Runners, NEW e \in Events, ClaimHead(r, e)
    PROVE  Endings'
<1>1. fence \in Nat /\ fence + 1 \in Fences /\ fence' = fence + 1 /\ status[fence + 1] = "none"
    BY LeaseAssumption
    DEF LeaseAssumption, ClaimHead, Typed, TypeOK, Queue, Minted, Fences
<1>2. /\ work' = [work EXCEPT ![fence + 1] = e]
      /\ status' = [g \in Fences |-> IF Superseded(g, e) THEN "expired" ELSE status[g]]
      /\ UNCHANGED <<event, told, calls, answered>>
    BY DEF ClaimHead, envVars, taskVars, runVars
<1>3. \A g \in Fences : /\ status'[g] = "reported" <=> status[g] = "reported"
                        /\ status[g] = "expired" => status'[g] = "expired"
                        /\ status[g] = "reported" => work'[g] = work[g]
    BY <1>1, <1>2 DEF Superseded, Typed, TypeOK
<1> QED BY <1>1, <1>2, <1>3, EndingsFrame

\* A runner's report ends at most the event its own current lease holds.
LEMMA EndingsRunner ==
    ASSUME Typed, Queue, Endings, NEW f \in Fences, RunnerStep(f) PROVE Endings'
<1> USE DEF envVars, taskVars, queueVars, slotVars, leaseVars, passVars, runVars
<1>1. fence \in Nat /\ f \in Nat BY LeaseAssumption DEF LeaseAssumption, Typed, TypeOK, Fences
<1>2. CASE Renew(f) BY <1>1, <1>2, EndingsFrame DEF Renew
<1>3. CASE KeepRecords(f)
    <2>1. /\ f = fence /\ status[f] = "active" /\ pc[f] = "leased"
        BY <1>1, <1>3 DEF KeepRecords, Heard, Queue, Minted
    <2>2. work[f] \in Events /\ event[work[f]] = "received"
        BY <2>1 DEF Typed, Named, Queue, ActiveHoldsSlot
    <2>3. calls' = [calls EXCEPT ![work[f]] = {f}]
          /\ UNCHANGED <<status, work, event, fence, told, answered>>
        BY <1>3 DEF KeepRecords
    <2>4. \A d \in Events : Reporters(d)' = Reporters(d) BY <2>3 DEF Reporters
    <2>5. SettledOnce' BY <2>3, <2>4 DEF Endings, SettledOnce
    <2>6. Answered' BY <2>3 DEF Endings, Answered
    <2>7. Reporters(work[f]) = {} BY <2>2 DEF Endings, SettledOnce
    <2>8. RecordsOfSettler'
        BY <2>2, <2>3, <2>4, <2>7 DEF Endings, RecordsOfSettler, Typed, TypeOK
    <2> QED BY <2>5, <2>6, <2>8 DEF Endings
<1>4. CASE ReportRefused(f)
    <2>1. pc[f] = "leased" /\ status[f] # "none" /\ work[f] \in Events /\ f <= fence
        BY <1>1, <1>4 DEF ReportRefused, Heard, Queue, Minted, Typed, Named
    <2>2. Disposition(f) = "fenced" =>
            status[f] # "reported" /\ (status[f] = "expired" \/ f < fence)
        BY <1>1, <1>4, <2>1
           DEF ReportRefused, Disposition, Settles, StillStamped, Queue, ActiveHoldsSlot, Typed,
               TypeOK, Statuses
    <2>3. Disposition(f) # "fenced" => Disposition(f) = "repeat" /\ status[f] = "reported"
        BY DEF Disposition
    <2>4. told' = [told EXCEPT ![f] = @ \cup {Disposition(f)}]
          /\ UNCHANGED <<status, work, event, fence, calls, answered>>
        BY <1>4 DEF ReportRefused
    <2>5. Answered' BY <2>2, <2>3, <2>4 DEF Endings, Answered, Typed, TypeOK
    <2>6. \A d \in Events : Reporters(d)' = Reporters(d) BY <2>4 DEF Reporters
    <2>7. SettledOnce' BY <2>4, <2>6 DEF Endings, SettledOnce
    <2>8. RecordsOfSettler' BY <2>4, <2>6 DEF Endings, RecordsOfSettler
    <2> QED BY <2>5, <2>7, <2>8 DEF Endings
<1>5. CASE LoseRun(f) BY <1>1, <1>5, EndingsFrame DEF LoseRun, Goto
<1>6. ASSUME NEW ending \in {"processed", "fleet_error"}, NEW asked \in {0, now + HoldIdle + 1},
             Report(f, ending, asked)
      PROVE  Endings'
    <2> USE DEF Endings, Typed, TypeOK
    <2>1. /\ work[f] \in Events /\ status[f] = "active" /\ event[work[f]] = "received" /\ fence = f
        BY <1>6, ReportIsCurrent
    <2>2. /\ status' = [status EXCEPT ![f] = "reported"]
          /\ event' = [event EXCEPT ![work[f]] = ending]
          /\ calls' = [calls EXCEPT ![work[f]] = @ \cap {f}]
          /\ told' = [told EXCEPT ![f] = @ \cup {"settled"}]
          /\ UNCHANGED <<work, fence, answered>>
        BY <1>6, <2>1 DEF Report
    <2>3. Reporters(work[f]) = {} BY <2>1 DEF SettledOnce
    <2>4. /\ Reporters(work[f])' = {f}
          /\ \A d \in Events \ {work[f]} : Reporters(d)' = Reporters(d)
        BY <2>1, <2>2, <2>3 DEF Reporters
    <2>5. SettledOnce'
        <3>1. SUFFICES ASSUME NEW e \in Events
                       PROVE  /\ \A g, h \in Reporters(e)' : g = h
                              /\ Reporters(e)' # {} => event'[e] \in {"processed", "fleet_error"}
                              /\ event'[e] \in {"processed", "fleet_error"} =>
                                    Reporters(e)' # {} \/ e \in answered'
            BY DEF SettledOnce
        <3>2. CASE e = work[f] BY <2>1, <2>2, <2>4, <3>2
        <3>3. CASE e # work[f]
            <4>1. Reporters(e)' = Reporters(e) /\ event'[e] = event[e] /\ answered' = answered
                BY <2>1, <2>2, <2>4, <3>3
            <4> QED BY <4>1 DEF SettledOnce
        <3> QED BY <3>2, <3>3
    <2>6. Answered' BY <1>1, <2>1, <2>2 DEF Answered
    <2>7. RecordsOfSettler'
        <3>1. SUFFICES ASSUME NEW e \in Events, NEW g \in calls'[e]
                       PROVE  /\ calls'[e] = {g}
                              /\ Reporters(e)' # {} => status'[g] = "reported"
            BY DEF RecordsOfSettler
        <3>2. CASE e = work[f] BY <2>1, <2>2, <3>1, <3>2
        <3>3. CASE e # work[f]
            <4>1. calls'[e] = calls[e] /\ Reporters(e)' = Reporters(e) /\ g \in calls[e]
                BY <2>1, <2>2, <2>4, <3>1, <3>3
            <4>2. status[g] = "reported" => status'[g] = "reported" BY <2>2
            <4> QED BY <4>1, <4>2 DEF RecordsOfSettler
        <3> QED BY <3>2, <3>3
    <2> QED BY <2>5, <2>6, <2>7
<1> QED BY <1>2, <1>3, <1>4, <1>5, <1>6 DEF RunnerStep

\* An answer ends an event nobody reported, or finds it ended.
LEMMA EndingsAnswer ==
    ASSUME Typed, Endings, NEW f \in Fences, NEW e \in Events, Answer(f, e) PROVE Endings'
<1> USE DEF Endings, Typed, TypeOK
<1>1. /\ event' = [event EXCEPT ![e] = IF @ \in {"none", "received"} THEN "processed" ELSE @]
      /\ answered' = answered \cup {e}
      /\ UNCHANGED <<status, work, fence, told, calls>>
    BY DEF Answer, slotVars, leaseVars, passVars
<1>2. \A d \in Events : Reporters(d)' = Reporters(d) BY <1>1 DEF Reporters
<1>3. SettledOnce' BY <1>1, <1>2 DEF SettledOnce
<1>4. Answered' BY <1>1 DEF Answered
<1>5. RecordsOfSettler' BY <1>1, <1>2 DEF RecordsOfSettler
<1> QED BY <1>3, <1>4, <1>5

\* Every step keeps what is said of endings.
LEMMA EndingsNext == Typed /\ Queue /\ Endings /\ [Next]_vars => Endings'
<1> SUFFICES ASSUME Typed, Queue, Endings, [Next]_vars PROVE Endings'
    OBVIOUS
<1> USE DEF queueVars, slotVars, leaseVars, passVars, runVars, Goto
<1>1. fence \in Nat BY LeaseAssumption DEF LeaseAssumption, Typed, TypeOK
<1>2. CASE Quiet BY <1>1, <1>2, QuietLeavesQueue, EndingsFrame DEF queueState
<1>3. CASE Limits BY <1>1, <1>3, LimitsChangeTasks, EndingsFrame
<1>4. ASSUME NEW f \in Fences, BlockChanged(f) PROVE Endings'
    BY <1>1, <1>4, EndingsFrame DEF BlockChanged
<1>5. ASSUME NEW e \in Events, TaskMoves(e) PROVE Endings'
    BY <1>1, <1>5, EndingsFrame DEF TaskMoves
<1>6. ASSUME NEW f \in Fences, ExpireAbandoned(f) PROVE Endings'
    <2>1. status[f] = "active" /\ status' = [status EXCEPT ![f] = "expired"]
          /\ UNCHANGED <<work, event, fence, told, calls, answered>>
        BY <1>6 DEF ExpireAbandoned, envVars, taskVars
    <2> QED BY <1>1, <2>1, EndingsFrame DEF Typed, TypeOK
<1>7. ASSUME NEW f \in Fences, NEW e \in Events, NEW starts \in BOOLEAN, TakeInput(f, e, starts)
      PROVE  Endings'
    BY <1>1, <1>7, EndingsFrame DEF TakeInput
<1> QED BY <1>2, <1>3, <1>4, <1>5, <1>6, <1>7, StepCases, EndingsPass, EndingsClaim,
           EndingsRunner, EndingsAnswer

\* Endings hold in every reachable state.
LEMMA EndingsInvariant == Spec => []Endings
BY QueueInvariant, EndingsInit, EndingsNext, PTL DEF Spec

\* An event that ran has exactly one lease that reported it, unless another run
\* answered it first: a reclaim and a late report never both settle.
THEOREM ExactlyOnce == Spec => []SettledOnce
<1>1. Endings => SettledOnce BY DEF Endings
<1> QED BY <1>1, EndingsInvariant, PTL

\* What a report was told stays true, however often it is retried.
THEOREM ReportsTrustworthy == Spec => []AnswersStand
<1>1. Endings => AnswersStand BY DEF Endings, Answered, AnswersStand
<1> QED BY <1>1, EndingsInvariant, PTL

\* A settled run keeps the tool records of the attempt that settled it.
THEOREM SettlerKeepsRecords == Spec => []RecordsOfSettler
<1>1. Endings => RecordsOfSettler BY DEF Endings
<1> QED BY <1>1, EndingsInvariant, PTL

-----------------------------------------------------------------------------
(* Parked admissions. *)

parkState == <<parked, settled, card>>

\* Nothing is parked at first.
LEMMA StrandedInit == Init => NeverStranded
BY DEF Init, NeverStranded

\* What leaves admissions and cards alone strands nothing.
LEMMA StrandedFrame == ASSUME NeverStranded, UNCHANGED parkState PROVE NeverStranded'
BY DEF parkState, NeverStranded, Unresolved

\* An answer to any card leaves nothing parked.
LEMMA UnparkFreesAll == ASSUME NeverStranded, Unpark, UNCHANGED settled PROVE NeverStranded'
BY DEF NeverStranded, Unpark

\* A pass parks an admission only behind a card it reads as unanswered.
LEMMA StrandedPass ==
    ASSUME Typed, NeverStranded, NEW f \in Fences, PassStep(f) PROVE NeverStranded'
<1> USE DEF Goto, queueVars, gateVars, slotVars, leaseVars, runVars, parkState
<1>1. CASE ResolveInstalled(f) BY <1>1, StrandedFrame DEF ResolveInstalled
<1>2. CASE RecordReceived(f) BY <1>2, StrandedFrame DEF RecordReceived
<1>3. ASSUME NEW t \in Targets, Raise(t), UNCHANGED <<parked, settled>> PROVE NeverStranded'
    BY <1>3 DEF Raise, NeverStranded, Unresolved, Typed, TypeOK, Targets
<1>4. CASE Judge(f)
    <2>1. work[f] \in Targets BY <1>4 DEF Judge, Typed, Named, Targets
    <2> QED BY <1>3, <1>4, <2>1, StrandedFrame DEF Judge
<1>5. CASE AskGrant(f) BY <1>3, <1>5, StrandedFrame DEF AskGrant, Targets
<1>6. CASE Block(f) BY <1>6 DEF Block, NeverStranded, Unresolved
<1>7. CASE Park(f) BY <1>7 DEF Park, Owns, NeverStranded, Unresolved
<1>8. CASE Issue(f) BY <1>8, StrandedFrame DEF Issue
<1>9. CASE ClaimLost(f) BY <1>9, StrandedFrame DEF ClaimLost
<1>10. CASE LetGo(f) BY <1>10, StrandedFrame DEF LetGo
<1>11. CASE IssueUnacknowledged(f) BY <1>11, StrandedFrame DEF IssueUnacknowledged
<1>12. CASE Stop(f) BY <1>12, StrandedFrame DEF Stop
<1>13. CASE CrashPass(f) BY <1>13, StrandedFrame DEF CrashPass
<1> QED
    BY <1>1, <1>2, <1>4, <1>5, <1>6, <1>7, <1>8, <1>9, <1>10, <1>11, <1>12, <1>13 DEF PassStep

\* A continuation that is withdrawn is parked no longer.
LEMMA StrandedRetire ==
    ASSUME Typed, NeverStranded, NEW e \in Events, Retire(e), UNCHANGED card PROVE NeverStranded'
<1>1. CASE UNCHANGED <<settled, parked>> BY <1>1, StrandedFrame DEF parkState
<1>2. CASE settled' = settled \cup {e} /\ parked' = parked \ {e}
    BY <1>2 DEF NeverStranded, Unresolved
<1> QED BY <1>1, <1>2 DEF Retire

\* Every step keeps parked admissions behind unanswered cards.
LEMMA StrandedNext == Typed /\ NeverStranded /\ [Next]_vars => NeverStranded'
<1> SUFFICES ASSUME Typed, NeverStranded, [Next]_vars PROVE NeverStranded'
    OBVIOUS
<1> USE DEF queueVars, gateVars, parkState
<1>1. CASE Quiet
    <2>1. CASE \E t \in Targets, verdict \in {"approved", "denied"} : ResolveGate(t, verdict)
        BY <2>1, UnparkFreesAll DEF ResolveGate
    <2>2. CASE ExpireGates BY <2>2, UnparkFreesAll DEF ExpireGates
    <2>3. CASE UNCHANGED parkState BY <2>3, StrandedFrame
    <2> QED BY <1>1, <2>1, <2>2, <2>3
            DEF Quiet, Admit, Operator, HostLeaves, HostReturns, TasksOff, TasksOn, StopFleet,
                ResumeFleet, Chores, BillExpired, RecordOffline, ReleaseSlots, ClearHold, Tick, vars
<1>2. CASE Limits BY <1>2, LimitsChangeTasks, StrandedFrame
<1>3. ASSUME NEW r \in Runners, NEW e \in Events, ClaimHead(r, e) PROVE NeverStranded'
    BY <1>3, StrandedFrame DEF ClaimHead
<1>4. ASSUME NEW f \in Fences, RunnerStep(f) PROVE NeverStranded'
    <2>1. ASSUME NEW ending, NEW asked, Report(f, ending, asked) PROVE NeverStranded'
        BY <2>1 DEF Report, NeverStranded, Unresolved
    <2>2. CASE Renew(f) \/ KeepRecords(f) \/ ReportRefused(f) \/ LoseRun(f)
        BY <2>2, StrandedFrame DEF Renew, KeepRecords, ReportRefused, LoseRun
    <2> QED BY <1>4, <2>1, <2>2 DEF RunnerStep
<1>5. ASSUME NEW f \in Fences, BlockChanged(f) PROVE NeverStranded'
    <2>1. work[f] \in Events BY <1>5 DEF BlockChanged, Typed, Named
    <2> QED BY <1>5, <2>1, StrandedRetire DEF BlockChanged
<1>6. ASSUME NEW e \in Events, TaskMoves(e) PROVE NeverStranded'
    BY <1>6, StrandedRetire DEF TaskMoves
<1>7. ASSUME NEW f \in Fences, ExpireAbandoned(f) PROVE NeverStranded'
    BY <1>7, StrandedFrame DEF ExpireAbandoned
<1>8. ASSUME NEW f \in Fences, NEW e \in Events, Answer(f, e) PROVE NeverStranded'
    BY <1>8 DEF Answer, NeverStranded, Unresolved
<1>9. ASSUME NEW f \in Fences, NEW e \in Events, NEW starts \in BOOLEAN, TakeInput(f, e, starts)
      PROVE  NeverStranded'
    BY <1>9, StrandedFrame DEF TakeInput
<1> QED BY <1>1, <1>2, <1>3, <1>4, <1>5, <1>6, <1>7, <1>8, <1>9, StrandedPass, StepCases

\* A parked admission always has an unanswered card that will un-park it.
THEOREM NothingStranded == Spec => []NeverStranded
<1>1. Spec => []Typed BY TypedInit, TypedNext, PTL DEF Spec
<1> QED BY <1>1, StrandedInit, StrandedNext, PTL DEF Spec

-----------------------------------------------------------------------------
(* Money. *)

\* No claim or deadline is further off than a lease's length, and no bill runs
\* ahead of the clock.
Billing == /\ until <= now + TTL
           /\ \A f \in Fences : status[f] # "none" => /\ metered[f] <= now
                                                      /\ expires[f] <= now + TTL
           /\ BilledWithinGrant

billState == <<now, until, status, created, expires, metered>>

\* No lease exists, so nothing is metered.
LEMMA BillingInit == Init => Billing
BY LeaseAssumption DEF LeaseAssumption, Init, Billing, BilledWithinGrant

\* What leaves the leases' clocks alone keeps the billing windows.
LEMMA BillingFrame == ASSUME Billing, UNCHANGED billState PROVE Billing'
BY DEF billState, Billing, BilledWithinGrant

\* Releasing or expiring the slot only shortens the claim.
LEMMA BillingRelease ==
    ASSUME Typed, Billing, until' \in {until, now - 1},
           UNCHANGED <<now, status, created, expires, metered>>
    PROVE  Billing'
BY LeaseAssumption DEF LeaseAssumption, Typed, TypeOK, Billing, BilledWithinGrant

\* A pass starts a lease's window at its own start, inside the hard cap.
LEMMA BillingPass ==
    ASSUME Typed, Billing, NEW f \in Fences, PassStep(f) PROVE Billing'
<1> USE DEF envVars, slotVars, leaseVars, billState
<1>1. CASE Park(f) \/ LetGo(f)
    BY <1>1, BillingRelease DEF Park, LetGo, ReleaseUnleased
<1>2. CASE Issue(f) \/ IssueUnacknowledged(f)
    <2>1. /\ status' = [status EXCEPT ![f] = "active"]
          /\ created' = [created EXCEPT ![f] = now]
          /\ expires' = [expires EXCEPT ![f] = until']
          /\ metered' = [metered EXCEPT ![f] = now]
          /\ until > now /\ until' \in Deadline(work[f], until) /\ UNCHANGED now
        BY <1>2 DEF Issue, IssueUnacknowledged, IssuedLease
    <2>2. until' \in Nat /\ until' > now /\ until' <= now + TTL /\ now \in Nat
        BY <2>1, LeaseAssumption DEF LeaseAssumption, Deadline, Billing, Typed, TypeOK
    <2> QED BY <2>1, <2>2, LeaseAssumption
            DEF LeaseAssumption, Typed, TypeOK, Billing, BilledWithinGrant
<1> QED BY <1>1, <1>2, BillingFrame
        DEF PassStep, ResolveInstalled, RecordReceived, Judge, AskGrant, Block, ClaimLost, Stop,
            CrashPass

\* A renewal or a report moves a window forward, up to the deadline at most.
LEMMA BillingRunner ==
    ASSUME Typed, Queue, Billing, NEW f \in Fences, RunnerStep(f) PROVE Billing'
<1> USE DEF envVars, slotVars, leaseVars, billState
<1>1. status[f] # "none" => /\ Metered(f) \in Nat /\ Metered(f) >= metered[f]
                            /\ Metered(f) <= now /\ Metered(f) <= expires[f]
    BY DEF Metered, Greatest, Least, Typed, TypeOK, Billing, BilledWithinGrant
<1>2. Heard(f) => status[f] # "none" BY DEF Heard, Queue, Minted
<1>3. CASE Renew(f)
    <2> DEFINE limit == Least(now + TTL, created[f] + MaxRuntime)
    <2>1. PICK cap \in Deadline(ward[f], limit) :
             cap > now /\ expires' = [expires EXCEPT ![f] = cap] /\ until' = cap
        BY <1>3 DEF Renew
    <2>2. /\ metered' = [metered EXCEPT ![f] = Metered(f)] /\ Heard(f)
          /\ UNCHANGED <<now, status, created>>
        BY <1>3 DEF Renew
    <2>3. /\ cap \in Nat /\ cap <= now + TTL /\ cap <= created[f] + MaxRuntime
        <3>1. /\ limit \in Nat /\ limit <= now + TTL /\ limit <= created[f] + MaxRuntime
            BY LeaseAssumption DEF LeaseAssumption, Least, Typed, TypeOK
        <3>2. cap \in Nat /\ cap <= limit
            BY <3>1, LeaseAssumption DEF LeaseAssumption, Deadline, Typed, TypeOK
        <3> QED BY <3>1, <3>2, LeaseAssumption DEF LeaseAssumption, Typed, TypeOK
    <2> HIDE DEF limit
    <2> QED BY <1>1, <1>2, <2>1, <2>2, <2>3, LeaseAssumption
            DEF LeaseAssumption, Typed, TypeOK, Billing, BilledWithinGrant
<1>4. ASSUME NEW ending, NEW asked, Report(f, ending, asked) PROVE Billing'
    <2>1. /\ metered' = [metered EXCEPT ![f] = Metered(f)] /\ Heard(f)
          /\ status' = [status EXCEPT ![f] = "reported"]
          /\ until' \in {until, now - 1} /\ UNCHANGED <<now, created, expires>>
        BY <1>4 DEF Report
    <2> QED BY <1>1, <1>2, <2>1, LeaseAssumption
            DEF LeaseAssumption, Typed, TypeOK, Billing, BilledWithinGrant
<1> QED BY <1>3, <1>4, BillingFrame DEF RunnerStep, KeepRecords, ReportRefused, LoseRun

\* Every step keeps the billing windows inside their grants.
LEMMA BillingNext == Typed /\ Queue /\ Billing /\ [Next]_vars => Billing'
<1> SUFFICES ASSUME Typed, Queue, Billing, [Next]_vars PROVE Billing'
    OBVIOUS
<1> USE DEF envVars, slotVars, leaseVars, billState
<1>1. CASE Admit BY <1>1, BillingFrame DEF Admit
<1>2. ASSUME NEW r \in Runners, NEW e \in Events, ClaimHead(r, e) PROVE Billing'
    <2>1. \A g \in Fences : status'[g] # "none" => status[g] # "none"
        BY <1>2 DEF ClaimHead, Superseded
    <2>2. until' = now + TTL /\ UNCHANGED <<now, created, expires, metered>>
        BY <1>2 DEF ClaimHead
    <2> QED BY <2>1, <2>2, LeaseAssumption
            DEF LeaseAssumption, Typed, TypeOK, Billing, BilledWithinGrant
<1>3. CASE Operator
    BY <1>3, BillingFrame DEF Operator, ResolveGate, HostLeaves, HostReturns, TasksOff, TasksOn,
                              StopFleet, ResumeFleet
<1>4. CASE Chores
    <2>1. ASSUME NEW f \in Fences, BillExpired(f) PROVE Billing'
        BY <2>1, LeaseAssumption
        DEF LeaseAssumption, BillExpired, Typed, TypeOK, Billing, BilledWithinGrant
    <2> QED BY <1>4, <2>1, BillingFrame, BillingRelease
            DEF Chores, ExpireGates, RecordOffline, ReleaseSlots, ClearHold, ExpireSlots
<1>5. CASE Tick
    BY <1>5, LeaseAssumption
    DEF LeaseAssumption, Tick, Typed, TypeOK, Billing, BilledWithinGrant
<1>6. CASE UNCHANGED vars BY <1>6, BillingFrame DEF vars
<1>7. CASE Limits BY <1>7, LimitsChangeTasks, BillingFrame
<1>8. ASSUME NEW f \in Fences, BlockChanged(f) PROVE Billing'
    BY <1>8, BillingFrame DEF BlockChanged
<1>9. ASSUME NEW e \in Events, TaskMoves(e) PROVE Billing'
    BY <1>9, BillingFrame DEF TaskMoves
<1>10. ASSUME NEW f \in Fences, ExpireAbandoned(f) PROVE Billing'
    <2>1. /\ \A g \in Fences : status'[g] # "none" => status[g] # "none"
          /\ UNCHANGED <<now, until, created, expires, metered>>
        BY <1>10 DEF ExpireAbandoned, Typed, TypeOK
    <2> QED BY <2>1 DEF Billing, BilledWithinGrant
<1>11. ASSUME NEW f \in Fences, NEW e \in Events, Answer(f, e) PROVE Billing'
    BY <1>11, BillingFrame DEF Answer
<1>12. ASSUME NEW f \in Fences, NEW e \in Events, NEW starts \in BOOLEAN, TakeInput(f, e, starts)
       PROVE  Billing'
    <2>1. CASE UNCHANGED billState BY <2>1, BillingFrame
    <2>2. CASE ~UNCHANGED billState
        <3>1. /\ expires' = [expires EXCEPT ![f] = until'] /\ until' \in (now + 1)..expires[f]
              /\ status[f] = "active" /\ UNCHANGED <<now, status, created, metered>>
            BY <1>12, <2>2 DEF TakeInput, LiveRun
        <3>2. until' \in Nat /\ until' > now /\ until' <= expires[f]
            BY <3>1 DEF Typed, TypeOK
        <3> QED BY <3>1, <3>2, LeaseAssumption
                DEF LeaseAssumption, Typed, TypeOK, Billing, BilledWithinGrant
    <2> QED BY <2>1, <2>2
<1> QED BY <1>1, <1>2, <1>3, <1>4, <1>5, <1>6, <1>7, <1>8, <1>9, <1>10, <1>11, <1>12, StepCases,
           BillingPass, BillingRunner DEF Quiet

\* Run time is billed within what the lease was granted, and no grant passes the
\* hard cap.
THEOREM BillingSound == Spec => []BilledWithinGrant
<1>1. Billing => BilledWithinGrant BY DEF Billing
<1> QED BY <1>1, QueueInvariant, BillingInit, BillingNext, PTL DEF Spec

-----------------------------------------------------------------------------
(* What a step may never do. *)

\* The steps that move the pass of one fence.
LEMMA OnlyOwnPassMoves ==
    ASSUME Typed, NEW f \in Fences, f < fence, [Next]_vars, pc'[f] # pc[f]
    PROVE  PassStep(f) \/ LoseRun(f)
<1> USE DEF Typed, TypeOK, passVars, Goto
<1>1. ASSUME NEW r \in Runners, NEW e \in Events, ClaimHead(r, e) PROVE FALSE
    BY <1>1 DEF ClaimHead
<1>2. ASSUME NEW g \in Fences, PassStep(g) PROVE g = f
    BY <1>2 DEF PassStep, ResolveInstalled, RecordReceived, Judge, AskGrant, Block, Park, Issue,
                ClaimLost, LetGo, IssueUnacknowledged, Stop, CrashPass
<1>3. ASSUME NEW g \in Fences, RunnerStep(g) PROVE g = f /\ LoseRun(f)
    BY <1>3 DEF RunnerStep, Renew, KeepRecords, ReportRefused, Report, LoseRun
<1>4. CASE Quiet BY <1>4, QuietLeavesQueue DEF queueState
<1>5. CASE Limits BY <1>5, LimitsChangeTasks
<1>6. ASSUME NEW g \in Fences, BlockChanged(g) PROVE FALSE
    BY <1>6, LeaseAssumption DEF LeaseAssumption, BlockChanged, Fences
<1>7. ASSUME NEW g \in Fences, ExpireAbandoned(g) PROVE FALSE BY <1>7 DEF ExpireAbandoned
<1>8. ASSUME NEW e \in Events, TaskMoves(e) PROVE FALSE BY <1>8 DEF TaskMoves
<1>9. ASSUME NEW g \in Fences, NEW e \in Events, Answer(g, e) PROVE FALSE BY <1>9 DEF Answer
<1>10. ASSUME NEW g \in Fences, NEW e \in Events, NEW starts \in BOOLEAN, TakeInput(g, e, starts)
       PROVE  FALSE
    BY <1>10 DEF TakeInput
<1> QED BY <1>1, <1>2, <1>3, <1>4, <1>5, <1>6, <1>7, <1>8, <1>9, <1>10, StepCases

\* A pass whose claim was superseded writes no admission, event, slot or lease.
THEOREM StalePassHarmless == Spec => StalePassWritesNothing
<1> DEFINE A == \A f \in Fences : pc[f] # "none" /\ f < fence /\ pc'[f] # pc[f]
                                   => UNCHANGED <<queueVars, slotVars, leaseVars>>
<1>1. Typed /\ Queue /\ [Next]_vars => [A]_vars
    <2> SUFFICES ASSUME Typed, Queue, [Next]_vars, NEW f \in Fences, f < fence, pc'[f] # pc[f]
                 PROVE  UNCHANGED <<queueVars, slotVars, leaseVars>>
        OBVIOUS
    <2>1. ~Owns(f) /\ fence # f BY DEF Owns, Typed, TypeOK, Fences
    <2>2. CASE PassStep(f)
        BY <2>1, <2>2
        DEF PassStep, ResolveInstalled, RecordReceived, Judge, AskGrant, Block, Park, Issue,
            IssuedLease, ClaimLost, LetGo, ReleaseUnleased, IssueUnacknowledged, Stop, CrashPass,
            queueVars
    <2>3. CASE LoseRun(f) BY <2>3 DEF LoseRun
    <2> QED BY <2>2, <2>3, OnlyOwnPassMoves
<1> QED BY <1>1, QueueInvariant, PTL DEF Spec, StalePassWritesNothing

\* A report that settled is final: nothing reopens its lease or bills it again.
THEOREM SettledIsFinal == Spec => ReportIsFinal
<1> DEFINE A == \A f \in Fences : status[f] = "reported" =>
                  /\ status'[f] = "reported"
                  /\ metered'[f] = metered[f] /\ expires'[f] = expires[f]
<1>1. Typed /\ Queue /\ [Next]_vars => [A]_vars
    <2> SUFFICES ASSUME Typed, Queue, [Next]_vars, NEW f \in Fences, status[f] = "reported"
                 PROVE  /\ status'[f] = "reported"
                        /\ metered'[f] = metered[f] /\ expires'[f] = expires[f]
        OBVIOUS
    <2> USE DEF Typed, TypeOK, leaseVars
    <2>1. ASSUME NEW r \in Runners, NEW e \in Events, ClaimHead(r, e)
          PROVE  status'[f] = "reported" /\ UNCHANGED <<metered, expires>>
        BY <2>1 DEF ClaimHead, Superseded
    <2>2. ASSUME NEW g \in Fences, PassStep(g)
          PROVE  /\ status'[f] = "reported"
                 /\ metered'[f] = metered[f] /\ expires'[f] = expires[f]
        <3>1. CASE Issue(g) \/ IssueUnacknowledged(g)
            BY <3>1 DEF Issue, IssueUnacknowledged, IssuedLease, Queue, Owned, Running
        <3> QED BY <2>2, <3>1
                DEF PassStep, ResolveInstalled, RecordReceived, Judge, AskGrant, Block, Park,
                    ClaimLost, LetGo, Stop, CrashPass
    <2>3. ASSUME NEW g \in Fences, RunnerStep(g)
          PROVE  /\ status'[f] = "reported"
                 /\ metered'[f] = metered[f] /\ expires'[f] = expires[f]
        BY <2>3 DEF RunnerStep, Renew, KeepRecords, ReportRefused, Report, LoseRun, Settles,
                    StillStamped
    <2>4. CASE Quiet
        BY <2>4 DEF Quiet, Admit, Operator, ResolveGate, HostLeaves, HostReturns, TasksOff, TasksOn,
                    StopFleet, ResumeFleet, Chores, ExpireGates, BillExpired, RecordOffline,
                    ReleaseSlots, ClearHold, Tick, vars
    <2>5. CASE Limits BY <2>5, LimitsChangeTasks
    <2>6. ASSUME NEW g \in Fences, BlockChanged(g) PROVE UNCHANGED <<status, metered, expires>>
        BY <2>6 DEF BlockChanged
    <2>7. ASSUME NEW g \in Fences, ExpireAbandoned(g)
          PROVE  status'[f] = "reported" /\ UNCHANGED <<metered, expires>>
        BY <2>7 DEF ExpireAbandoned
    <2>8. ASSUME NEW e \in Events, TaskMoves(e) PROVE UNCHANGED <<status, metered, expires>>
        BY <2>8 DEF TaskMoves
    <2>9. ASSUME NEW g \in Fences, NEW e \in Events, Answer(g, e)
          PROVE  UNCHANGED <<status, metered, expires>>
        BY <2>9 DEF Answer
    <2>10. ASSUME NEW g \in Fences, NEW e \in Events, NEW starts \in BOOLEAN,
                  TakeInput(g, e, starts)
           PROVE  status' = status /\ metered' = metered /\ expires'[f] = expires[f]
        BY <2>10 DEF TakeInput, LiveRun
    <2> QED BY <2>1, <2>2, <2>3, <2>4, <2>5, <2>6, <2>7, <2>8, <2>9, <2>10, StepCases
<1> QED BY <1>1, QueueInvariant, PTL DEF Spec, ReportIsFinal

\* The session's checkpoint follows the queue: a late report never puts the
\* fleet's context back to an older event, unless that event was passed over for
\* its task; and an owed answer stays owed.
ContextNeverRewinds ==
    [][(session' >= session \/ session' \in bound) /\ owed \subseteq owed']_vars

\* What is older than the checkpoint's event has left the queue, tasks aside.
Checkpointed == session # 0 => (1..(session - 1)) \ bound \subseteq settled

\* Only a settling report moves the checkpoint, and nothing takes back a debt, a
\* settlement or a message's task.
LEMMA OnlyReportCheckpoints ==
    ASSUME Typed, [Next]_vars,
           ~(\E f \in Fences, ending \in {"processed", "fleet_error"},
                asked \in {0, now + HoldIdle + 1} : Report(f, ending, asked))
    PROVE  /\ session' = session /\ owed \subseteq owed'
           /\ settled \subseteq settled' /\ bound \subseteq bound'
<1> USE DEF envVars, taskVars, runVars, queueVars
<1> DEFINE Kept == /\ session' = session /\ owed \subseteq owed'
                   /\ settled \subseteq settled' /\ bound \subseteq bound'
<1>1. ASSUME NEW r \in Runners, NEW e \in Events, ClaimHead(r, e) PROVE Kept
    BY <1>1 DEF ClaimHead
<1>2. ASSUME NEW g \in Fences, PassStep(g) PROVE Kept
    BY <1>2 DEF PassStep, ResolveInstalled, RecordReceived, Judge, AskGrant, Block, Park, Issue,
                ClaimLost, LetGo, IssueUnacknowledged, Stop, CrashPass
<1>3. ASSUME NEW g \in Fences, RunnerStep(g) PROVE Kept
    BY <1>3 DEF RunnerStep, Renew, KeepRecords, ReportRefused, LoseRun
<1>4. CASE Quiet BY <1>4, QuietLeavesQueue DEF queueState
<1>5. CASE Limits BY <1>5, LimitsChangeTasks
<1>6. ASSUME NEW g \in Fences, BlockChanged(g) PROVE Kept BY <1>6 DEF BlockChanged, Retire
<1>7. ASSUME NEW g \in Fences, ExpireAbandoned(g) PROVE Kept BY <1>7 DEF ExpireAbandoned
<1>8. ASSUME NEW e \in Events, TaskMoves(e) PROVE Kept BY <1>8 DEF TaskMoves, Retire
<1>9. ASSUME NEW g \in Fences, NEW e \in Events, Answer(g, e) PROVE Kept BY <1>9 DEF Answer
<1>10. ASSUME NEW g \in Fences, NEW e \in Events, NEW starts \in BOOLEAN, TakeInput(g, e, starts)
       PROVE  Kept
    BY <1>10 DEF TakeInput
<1> QED BY <1>1, <1>2, <1>3, <1>4, <1>5, <1>6, <1>7, <1>8, <1>9, <1>10, StepCases

\* The session's context only moves forward in the queue, events of tasks aside,
\* and an owed answer stays owed.
THEOREM ContextMovesForward == Spec => ContextNeverRewinds
<1> DEFINE A == (session' >= session \/ session' \in bound) /\ owed \subseteq owed'
<1>1. Init => Checkpointed BY DEF Init, Checkpointed
<1>2. Typed /\ Queue /\ Checkpointed /\ [Next]_vars => Checkpointed' /\ [A]_vars
    <2> SUFFICES ASSUME Typed, Queue, Checkpointed, [Next]_vars PROVE Checkpointed' /\ A
        OBVIOUS
    <2>1. ASSUME NEW f \in Fences, NEW ending \in {"processed", "fleet_error"},
                 NEW asked \in {0, now + HoldIdle + 1}, Report(f, ending, asked)
          PROVE  Checkpointed' /\ A
        <3>1. /\ pc[f] # "none" /\ work[f] \in Events /\ work[f] \notin settled
              /\ session' = work[f] /\ settled' = settled \cup {work[f]} /\ owed \subseteq owed'
              /\ bound' = bound
            BY <2>1, ReportIsCurrent DEF Report, Checkpoint, envVars, taskVars
        <3>2. Checkpointed' BY <3>1 DEF Checkpointed, Queue, Behind
        <3>3. session \in Nat /\ work[f] \in Nat /\ work[f] >= 1
            BY <3>1, LeaseAssumption DEF LeaseAssumption, Typed, TypeOK, Events
        <3>4. work[f] < session => work[f] \in 1..(session - 1) /\ session # 0 BY <3>3
        <3>5. work[f] < session => work[f] \in bound BY <3>1, <3>4 DEF Checkpointed
        <3> QED BY <3>1, <3>2, <3>3, <3>5
    <2>2. CASE /\ session' = session /\ owed \subseteq owed'
               /\ settled \subseteq settled' /\ bound \subseteq bound'
        BY <2>2, LeaseAssumption DEF LeaseAssumption, Checkpointed, Typed, TypeOK
    <2> QED BY <2>1, <2>2, OnlyReportCheckpoints
<1>3. Spec => []Checkpointed BY <1>1, <1>2, QueueInvariant, PTL DEF Spec
<1> QED BY <1>2, <1>3, QueueInvariant, PTL DEF Spec, ContextNeverRewinds

-----------------------------------------------------------------------------
(* Sandboxes. *)

\* While the claim's poll or run goes on, its runner is the slot's holder.
Holding == \A f \in Fences :
    fence = f /\ pc[f] \in Running \cup {"stopping", "leased"} => holder = taker[f]

\* A hold is of the runner that ran the fleet last.
HeldByLast ==
    hold # 0 /\ holder # NoRunner =>
        \A g \in Fences : status[g] # "none" /\ (\A h \in Fences : h > g => status[h] = "none")
            => taker[g] = holder

Resuming == resume \subseteq 1..fence /\ Holding /\ HeldByLast /\ ResumesOwnRun

resumeState == <<fence, holder, hold, status, taker, work, resume>>

\* No lease has been told to resume.
LEMMA ResumingInit == Init => Resuming
BY DEF Init, Resuming, Holding, HeldByLast, ResumesOwnRun, Running

\* The slot's holder and hold may go; passes may move on or end, and so may leases.
LEMMA ResumingFrame ==
    ASSUME Typed, Resuming, UNCHANGED <<fence, taker, work, resume>>,
           \A g \in Fences : status'[g] = "none" <=> status[g] = "none",
           \/ UNCHANGED <<holder, hold>> \/ (hold' = 0 /\ UNCHANGED holder)
           \/ /\ hold' = hold /\ holder' = NoRunner
              /\ \A f \in Fences : fence = f => pc'[f] = "done",
           \A f \in Fences : pc'[f] \in Running \cup {"stopping", "leased"}
                            => pc[f] \in Running \cup {"stopping", "leased"}
    PROVE  Resuming'
<1>1. Holding' BY DEF Resuming, Holding, Running
<1>2. HeldByLast' BY DEF Resuming, HeldByLast
<1>3. ResumesOwnRun'
    <2>1. SUFFICES ASSUME NEW k \in resume, NEW g \in 1..(k - 1), status'[g] # "none",
                          \A h \in (g + 1)..(k - 1) : status'[h] = "none"
                   PROVE  taker[g] = taker[k] /\ work[g] # work[k]
        BY DEF ResumesOwnRun
    <2>2. k \in Fences BY DEF Typed, TypeOK
    <2>3. 1..(k - 1) \subseteq Fences /\ (g + 1)..(k - 1) \subseteq 1..(k - 1)
        BY <2>2, LeaseAssumption DEF LeaseAssumption, Fences
    <2> QED BY <2>1, <2>3 DEF Resuming, ResumesOwnRun
<1> QED BY <1>1, <1>2, <1>3 DEF Resuming

\* An issued lease resumes only what its claim found: its runner's own last run.
LEMMA ResumingIssue ==
    ASSUME Typed, Queue, Resuming, NEW f \in Fences, Issue(f) \/ IssueUnacknowledged(f)
    PROVE  Resuming'
<1> USE DEF Typed, TypeOK
<1>1. /\ pc[f] = "judged" /\ fence = f /\ status' = [status EXCEPT ![f] = "active"]
      /\ \E point \in {"leased", "stopping"} : pc' = [pc EXCEPT ![f] = point]
      /\ UNCHANGED <<fence, holder, hold, taker, work, resume>>
    BY DEF Issue, IssueUnacknowledged, IssuedLease, Goto
<1>2. holder = taker[f] BY <1>1 DEF Resuming, Holding, Running
<1>3. Holding' BY <1>1, <1>2 DEF Resuming, Holding, Running
<1>4. HeldByLast'
    <2>1. SUFFICES ASSUME NEW g \in Fences, status'[g] # "none",
                          \A h \in Fences : h > g => status'[h] = "none"
                   PROVE  g = f
        BY <1>1, <1>2 DEF HeldByLast
    <2>2. g <= f BY <1>1, <2>1 DEF Queue, Minted, Fences
    <2>3. ~(f > g) BY <1>1, <2>1
    <2> QED BY <2>2, <2>3 DEF Fences
<1>5. ResumesOwnRun'
    <2>1. SUFFICES ASSUME NEW k \in resume, NEW g \in 1..(k - 1), status'[g] # "none",
                          \A h \in (g + 1)..(k - 1) : status'[h] = "none"
                   PROVE  taker[g] = taker[k] /\ work[g] # work[k]
        BY <1>1 DEF ResumesOwnRun
    <2>2. k \in 1..fence /\ k \in Fences BY DEF Resuming
    <2>3. \A h \in 1..(k - 1) : h # f /\ h \in Fences /\ status'[h] = status[h]
        BY <1>1, <2>2, LeaseAssumption DEF Fences, LeaseAssumption
    <2>4. (g + 1)..(k - 1) \subseteq 1..(k - 1) BY <2>2
    <2>5. status[g] # "none" /\ \A h \in (g + 1)..(k - 1) : status[h] = "none"
        BY <2>1, <2>3, <2>4
    <2> QED BY <2>5 DEF Resuming, ResumesOwnRun
<1> QED BY <1>1, <1>3, <1>4, <1>5 DEF Resuming

\* A claim resumes only behind the hold of the runner that ran the fleet last.
LEMMA ResumingClaim ==
    ASSUME Typed, Queue, Resuming, NEW r \in Runners, NEW e \in Events, ClaimHead(r, e)
    PROVE  Resuming'
<1> USE DEF Typed, TypeOK
<1> DEFINE n == fence + 1
<1>1. n \in Fences /\ fence' = n /\ pc[n] = "none" /\ status[n] = "none" /\ fence \in Nat
    BY LeaseAssumption DEF LeaseAssumption, ClaimHead, Fences, Queue, Minted
<1>2. /\ pc' = [pc EXCEPT ![n] = "claimed"] /\ taker' = [taker EXCEPT ![n] = r]
      /\ work' = [work EXCEPT ![n] = e] /\ holder' = r /\ hold' = KeptHold(r)
      /\ resume' = IF Resumes(r, e) THEN resume \cup {n} ELSE resume
    BY DEF ClaimHead
<1>3. \A g \in Fences : status'[g] = "none" <=> status[g] = "none"
    BY DEF ClaimHead, Superseded, IsLatestLease, PriorLeases
<1>4. resume' \subseteq 1..fence' BY <1>1, <1>2 DEF Resuming
<1>5. Holding' BY <1>1, <1>2 DEF Holding
<1>6. HeldByLast'
    <2>1. hold' # 0 => hold # 0 /\ holder = r /\ r # NoRunner
        BY <1>2, LeaseAssumption DEF KeptHold, LeaseAssumption
    <2>2. \A g \in Fences : status'[g] # "none" => taker'[g] = taker[g] BY <1>1, <1>2, <1>3
    <2> QED BY <1>2, <1>3, <2>1, <2>2 DEF Resuming, HeldByLast
<1>7. ResumesOwnRun'
    <2>1. SUFFICES ASSUME NEW k \in resume', NEW g \in 1..(k - 1), status'[g] # "none",
                          \A h \in (g + 1)..(k - 1) : status'[h] = "none"
                   PROVE  taker'[g] = taker'[k] /\ work'[g] # work'[k]
        BY DEF ResumesOwnRun
    <2>2. /\ k \in 1..n /\ k \in Nat /\ g \in Nat /\ g \in Fences /\ g # n
          /\ (g + 1)..(k - 1) \subseteq Fences
        <3>1. k \in 1..n /\ fence + 1 \in 1..MaxFence BY <1>1, <1>4 DEF Fences
        <3>2. 1..(k - 1) \subseteq Fences /\ (g + 1)..(k - 1) \subseteq 1..(k - 1)
            BY <1>1, <3>1, LeaseAssumption DEF LeaseAssumption, Fences
        <3> QED BY <1>1, <3>1, <3>2
    <2>3. status[g] # "none" /\ \A h \in (g + 1)..(k - 1) : status[h] = "none"
        BY <1>3, <2>1, <2>2
    <2>4. taker'[g] = taker[g] /\ work'[g] = work[g] BY <1>2, <2>2
    <2>5. CASE k \in resume
        <3>1. k # n BY <1>1, <2>5 DEF Resuming
        <3>2. taker'[k] = taker[k] /\ work'[k] = work[k] BY <1>2, <2>5, <3>1
        <3> QED BY <2>3, <2>4, <2>5, <3>2 DEF Resuming, ResumesOwnRun
    <2>6. CASE k \notin resume
        <3>1. k = n /\ Resumes(r, e) BY <1>2, <2>6
        <3>2. hold # 0 /\ holder = r /\ r # NoRunner /\ PriorLeases(e) = {}
            BY <3>1, LeaseAssumption DEF Resumes, LeaseAssumption
        <3>3. \A h \in Fences : h > g => status[h] = "none"
            BY <1>1, <2>2, <2>3, <3>1 DEF Queue, Minted, Fences
        <3>4. taker[g] = r BY <2>2, <2>3, <3>2, <3>3 DEF Resuming, HeldByLast
        <3>5. work[g] # e BY <2>2, <2>3, <3>2 DEF PriorLeases
        <3> QED BY <1>1, <1>2, <2>4, <3>1, <3>4, <3>5
    <2> QED BY <2>5, <2>6
<1> QED BY <1>4, <1>5, <1>6, <1>7 DEF Resuming

\* The other steps of a pass leave resumed leases as they are.
LEMMA ResumingPass ==
    ASSUME Typed, Queue, Resuming, NEW f \in Fences, PassStep(f) PROVE Resuming'
<1> USE DEF Goto, slotVars, leaseVars, Running
<1> DEFINE Going == Running \cup {"stopping", "leased"}
<1>1. CASE Issue(f) \/ IssueUnacknowledged(f) BY <1>1, ResumingIssue
<1>2. CASE ~(Issue(f) \/ IssueUnacknowledged(f))
    <2>1. \A g \in Fences : pc'[g] \in Going => pc[g] \in Going
        BY <1>2
        DEF PassStep, ResolveInstalled, RecordReceived, Judge, AskGrant, Block, Park, ClaimLost,
            LetGo, Stop, CrashPass, Typed, TypeOK
    <2>2. CASE Park(f) \/ LetGo(f)
        BY <2>1, <2>2, ResumingFrame DEF Park, LetGo, ReleaseUnleased, Typed, TypeOK
    <2>3. CASE ~(Park(f) \/ LetGo(f))
        <3>1. UNCHANGED <<fence, holder, hold, status, taker, work, resume>>
            BY <1>2, <2>3
            DEF PassStep, ResolveInstalled, RecordReceived, Judge, AskGrant, Block, ClaimLost,
                Stop, CrashPass
        <3> QED BY <2>1, <3>1, ResumingFrame
    <2> QED BY <2>2, <2>3
<1> QED BY <1>1, <1>2

\* A runner's verbs change no lease's resumption and end no other's.
LEMMA ResumingRunner ==
    ASSUME Typed, Queue, Resuming, NEW f \in Fences, RunnerStep(f) PROVE Resuming'
<1> USE DEF slotVars, leaseVars, passVars, Running
<1>1. CASE Renew(f) BY <1>1, ResumingFrame DEF Renew
<1>2. CASE KeepRecords(f) BY <1>2, ResumingFrame DEF KeepRecords
<1>3. CASE ReportRefused(f) BY <1>3, ResumingFrame DEF ReportRefused
<1>4. CASE LoseRun(f) BY <1>4, ResumingFrame DEF LoseRun, Heard, Goto, Typed, TypeOK
<1>5. ASSUME NEW ending \in {"processed", "fleet_error"}, NEW asked \in {0, now + HoldIdle + 1},
             Report(f, ending, asked)
      PROVE  Resuming'
    <2>1. /\ fence = f /\ pc[f] = "leased" /\ status[f] = "active"
          /\ status' = [status EXCEPT ![f] = "reported"]
          /\ UNCHANGED <<fence, holder, taker, work, resume, pc>>
        BY <1>5, ReportIsCurrent DEF Report
    <2>2. holder = taker[f] BY <2>1 DEF Resuming, Holding
    <2>3. \A g \in Fences : status'[g] = "none" <=> status[g] = "none"
        BY <2>1 DEF Typed, TypeOK
    <2>4. Holding' BY <2>1 DEF Resuming, Holding
    <2>5. HeldByLast'
        <3>1. SUFFICES ASSUME NEW g \in Fences, status'[g] # "none",
                              \A h \in Fences : h > g => status'[h] = "none"
                       PROVE  g = f
            BY <2>1, <2>2 DEF HeldByLast
        <3>2. g <= f BY <2>1, <2>3, <3>1 DEF Queue, Minted, Fences
        <3>3. ~(f > g) BY <2>1, <2>3, <3>1
        <3> QED BY <3>2, <3>3 DEF Fences
    <2>6. ResumesOwnRun'
        <3>1. \A k \in resume : 1..(k - 1) \subseteq Fences
            BY <2>1, LeaseAssumption DEF LeaseAssumption, Resuming, Fences
        <3>2. SUFFICES ASSUME NEW k \in resume, NEW g \in 1..(k - 1), status'[g] # "none",
                              \A h \in (g + 1)..(k - 1) : status'[h] = "none"
                       PROVE  taker[g] = taker[k] /\ work[g] # work[k]
            BY <2>1 DEF ResumesOwnRun
        <3>3. (g + 1)..(k - 1) \subseteq 1..(k - 1) BY <3>2, <2>1 DEF Resuming, Fences
        <3> QED BY <2>3, <3>1, <3>2, <3>3 DEF Resuming, ResumesOwnRun
    <2> QED BY <2>1, <2>4, <2>5, <2>6 DEF Resuming
<1> QED BY <1>1, <1>2, <1>3, <1>4, <1>5 DEF RunnerStep

\* Every step keeps resumed sandboxes with the runner that ran last.
LEMMA ResumingNext == Typed /\ Queue /\ Resuming /\ [Next]_vars => Resuming'
<1> SUFFICES ASSUME Typed, Queue, Resuming, [Next]_vars PROVE Resuming'
    OBVIOUS
<1> USE DEF slotVars, leaseVars, passVars
<1>1. CASE Quiet
    <2>1. /\ UNCHANGED <<fence, holder, status, taker, work, resume, pc>>
          /\ hold' \in {hold, 0}
        BY <1>1 DEF Quiet, Admit, Operator, ResolveGate, HostLeaves, HostReturns, TasksOff, TasksOn,
                    StopFleet, ResumeFleet, Chores, ExpireGates, BillExpired, RecordOffline,
                    ReleaseSlots, ClearHold, Tick, vars
    <2> QED BY <2>1, ResumingFrame
<1>2. CASE Limits BY <1>2, LimitsChangeTasks, ResumingFrame
<1>3. ASSUME NEW f \in Fences, BlockChanged(f) PROVE Resuming'
    <2>1. /\ pc[f] = "claimed" /\ pc' = [pc EXCEPT ![f] = "stopping"]
          /\ UNCHANGED <<fence, holder, hold, status, taker, work, resume>>
        BY <1>3 DEF BlockChanged, Goto
    <2> QED BY <2>1, ResumingFrame DEF Typed, TypeOK, Running
<1>4. ASSUME NEW e \in Events, TaskMoves(e) PROVE Resuming'
    BY <1>4, ResumingFrame DEF TaskMoves
<1>5. ASSUME NEW f \in Fences, ExpireAbandoned(f) PROVE Resuming'
    <2>1. /\ status[f] = "active" /\ status' = [status EXCEPT ![f] = "expired"]
          /\ UNCHANGED <<fence, holder, hold, taker, work, resume, pc>>
        BY <1>5 DEF ExpireAbandoned
    <2> QED BY <2>1, ResumingFrame DEF Typed, TypeOK
<1>6. ASSUME NEW f \in Fences, NEW e \in Events, Answer(f, e) PROVE Resuming'
    BY <1>6, ResumingFrame DEF Answer
<1>7. ASSUME NEW f \in Fences, NEW e \in Events, NEW starts \in BOOLEAN, TakeInput(f, e, starts)
      PROVE  Resuming'
    BY <1>7, ResumingFrame DEF TakeInput
<1> QED BY <1>1, <1>2, <1>3, <1>4, <1>5, <1>6, <1>7, StepCases, ResumingPass, ResumingClaim,
           ResumingRunner

\* A claim that resumes a sandbox is on the runner that ran the fleet last, and
\* on another event than that run's.
THEOREM ResumesSafely == Spec => []ResumesOwnRun
<1>1. Resuming => ResumesOwnRun BY DEF Resuming
<1> QED BY <1>1, QueueInvariant, ResumingInit, ResumingNext, PTL DEF Spec

-----------------------------------------------------------------------------
(* The lease plane implements FleetQueue. *)

\* A claim names an event that was admitted, and so does an input.
Known == /\ \A f \in Fences : pc[f] # "none" => work[f] <= admitted
         /\ taken \subseteq 1..admitted

\* No fence is minted at first.
LEMMA KnownInit == Init => Known
BY DEF Init, Known

\* Admissions are never taken back, and only a claim, which takes an admitted
\* event, names one.
LEMMA KnownNext == Typed /\ Known /\ [Next]_vars => Known'
<1> SUFFICES ASSUME Typed, Known, [Next]_vars PROVE Known' OBVIOUS
<1> USE DEF Known, Typed, TypeOK, envVars, taskVars, queueVars, passVars, Goto, Running
<1>1. CASE Admit
    <2>1. admitted' = admitted + 1 /\ admitted \in Nat /\ UNCHANGED <<pc, work, taken>>
        BY <1>1, LeaseAssumption DEF LeaseAssumption, Admit
    <2>2. \A f \in Fences : pc[f] # "none" => work[f] <= admitted'
        BY <2>1 DEF Named, Events
    <2>3. 1..admitted \subseteq 1..admitted' BY <2>1
    <2> QED BY <2>1, <2>2, <2>3
<1>2. ASSUME NEW r \in Runners, NEW e \in Events, ClaimHead(r, e) PROVE Known'
    <2>1. /\ pc' = [pc EXCEPT ![fence + 1] = "claimed"] /\ work' = [work EXCEPT ![fence + 1] = e]
          /\ UNCHANGED <<admitted, taken>> /\ e \in 1..admitted
        BY <1>2 DEF ClaimHead, IsHead
    <2>2. admitted \in Nat /\ e <= admitted
        BY <2>1, LeaseAssumption DEF LeaseAssumption
    <2> QED BY <2>1, <2>2
<1>3. ASSUME NEW g \in Fences, PassStep(g) PROVE Known'
    <2>1. pc[g] # "none" /\ UNCHANGED <<admitted, work, taken>> /\ \E p : pc' = [pc EXCEPT ![g] = p]
        BY <1>3 DEF PassStep, ResolveInstalled, RecordReceived, Judge, AskGrant, Block, Park,
                    Issue, IssuedLease, ClaimLost, LetGo, IssueUnacknowledged, Stop, CrashPass
    <2> QED BY <2>1
<1>4. ASSUME NEW g \in Fences, RunnerStep(g) PROVE Known'
    <2>1. /\ UNCHANGED <<admitted, work, taken>>
          /\ \A f \in Fences : pc'[f] # "none" => pc[f] # "none"
        BY <1>4 DEF RunnerStep, Renew, KeepRecords, ReportRefused, LoseRun, Heard, Report
    <2> QED BY <2>1
<1>5. CASE Operator \/ Chores \/ Tick \/ UNCHANGED vars
    <2>1. UNCHANGED admitted
        BY <1>5 DEF Operator, ResolveGate, HostLeaves, HostReturns, TasksOff, TasksOn, StopFleet,
                    ResumeFleet, Chores, ExpireGates, BillExpired, RecordOffline, ReleaseSlots,
                    ClearHold, Tick, vars
    <2> QED BY <1>5, <2>1, QuietLeavesQueue DEF queueState, Quiet
<1>6. CASE Limits BY <1>6, LimitsChangeTasks
<1>7. ASSUME NEW g \in Fences, BlockChanged(g) PROVE Known' BY <1>7 DEF BlockChanged
<1>8. ASSUME NEW g \in Fences, ExpireAbandoned(g) PROVE Known' BY <1>8 DEF ExpireAbandoned
<1>9. ASSUME NEW e \in Events, TaskMoves(e) PROVE Known' BY <1>9 DEF TaskMoves
<1>10. ASSUME NEW g \in Fences, NEW e \in Events, Answer(g, e) PROVE Known' BY <1>10 DEF Answer
<1>11. ASSUME NEW g \in Fences, NEW e \in Events, NEW starts \in BOOLEAN, TakeInput(g, e, starts)
       PROVE  Known'
    BY <1>11 DEF TakeInput
<1> QED BY <1>1, <1>2, <1>3, <1>4, <1>5, <1>6, <1>7, <1>8, <1>9, <1>10, <1>11, StepCases DEF Quiet

Sound == Typed /\ Queue /\ Endings /\ Known

\* A step that touches no admission, event, lease status, task membership,
\* checkpoint or debt is not seen from outside.
LEMMA Unseen ==
    ASSUME UNCHANGED <<admitted, settled, event, status, work, bound, answered, session, owed>>
    PROVE  UNCHANGED Promise!vars
BY DEF Promise!vars, Outcome, Reporters, Granted, LiveLeases

\* The event of an unsettled claim waits in its turn.
LEMMA ClaimWaits ==
    ASSUME Sound, NEW f \in Fences, pc[f] # "none", work[f] \notin settled
    PROVE  Promise!Waiting(work[f]) /\ Promise!Turn(work[f])
<1>1. /\ work[f] \in Events /\ work[f] \in 1..admitted
      /\ (1..(work[f] - 1)) \ bound \subseteq settled
    BY DEF Sound, Typed, TypeOK, Named, Known, Queue, Behind, Events
<1>2. \A d \in Events : Outcome[d] = "open" <=> d \notin settled BY DEF Outcome
<1>3. \A d \in 1..(work[f] - 1) : d \in Events
    BY <1>1, LeaseAssumption DEF LeaseAssumption, Events
<1> QED BY <1>1, <1>2, <1>3 DEF Promise!Waiting, Promise!Turn

\* While the current fence has no lease, its event has no live one: another's
\* would carry the event's stamp.
LEMMA NoLiveLease ==
    ASSUME Sound, NEW f \in Fences, fence = f, status[f] = "none", stamp[work[f]] = f
    PROVE  Promise!NoneLive(work[f])
BY DEF Sound, Queue, ActiveHoldsSlot, Promise!NoneLive, LiveLeases

\* The current fence's lease, while active, is the newest there was.
LEMMA CurrentIsNewest ==
    ASSUME Sound, NEW f \in Fences, fence = f, status[f] = "active"
    PROVE  <<f, work[f]>> \in LiveLeases /\ Promise!Newest(f, work[f])
<1>1. \A g \in Fences : status[g] # "none" => g <= f
    BY LeaseAssumption DEF LeaseAssumption, Sound, Queue, Minted, Fences, Typed, TypeOK
<1>2. \A l \in Granted : l[1] <= f BY <1>1 DEF Granted
<1> QED BY <1>2 DEF Promise!Newest, LiveLeases

\* A claim lets the latest lease of its event lapse, or nothing is seen of it.
LEMMA ClaimLapses ==
    ASSUME Sound, NEW r \in Runners, NEW e \in Events, ClaimHead(r, e)
    PROVE  (\E l \in LiveLeases : Promise!Lapse(l)) \/ UNCHANGED Promise!vars
<1> USE DEF Sound
<1>1. /\ fence + 1 \in Fences /\ fence' = fence + 1 /\ status[fence + 1] = "none"
      /\ work' = [work EXCEPT ![fence + 1] = e]
      /\ status' = [g \in Fences |-> IF Superseded(g, e) THEN "expired" ELSE status[g]]
      /\ UNCHANGED <<admitted, settled, event, bound, answered, session, owed>>
    BY LeaseAssumption
       DEF LeaseAssumption, ClaimHead, Fences, Typed, TypeOK, Queue, Minted, envVars, taskVars, runVars
<1>2. \A g \in Fences : /\ status[g] # "none" => work'[g] = work[g]
                        /\ status'[g] = "none" <=> status[g] = "none"
                        /\ status'[g] = "reported" <=> status[g] = "reported"
                        /\ status'[g] = "active" <=> status[g] = "active" /\ ~Superseded(g, e)
    BY <1>1 DEF Superseded, IsLatestLease, PriorLeases, Typed, TypeOK
<1>3. \A d \in Events : Reporters(d)' = Reporters(d) BY <1>2 DEF Reporters
<1>4. Outcome' = Outcome BY <1>1, <1>3 DEF Outcome
<1>5. Granted' = Granted BY <1>2 DEF Granted
<1>6. CASE \E g \in Fences : Superseded(g, e)
    <2>1. PICK g \in Fences : Superseded(g, e) BY <1>6
    <2>2. \A h \in Fences : Superseded(h, e) => h = g
        BY <2>1, LeaseAssumption
           DEF LeaseAssumption, Superseded, IsLatestLease, PriorLeases, Fences
    <2>3. <<g, work[g]>> \in LiveLeases BY <2>1 DEF Superseded, LiveLeases
    <2>4. LiveLeases' = LiveLeases \ {<<g, work[g]>>}
        BY <1>2, <2>1, <2>2 DEF LiveLeases
    <2> QED BY <1>1, <1>4, <1>5, <2>3, <2>4 DEF Promise!Lapse
<1>7. CASE \A g \in Fences : ~Superseded(g, e)
    <2>1. LiveLeases' = LiveLeases BY <1>2, <1>7 DEF LiveLeases
    <2> QED BY <1>1, <1>4, <1>5, <2>1 DEF Promise!vars
<1> QED BY <1>6, <1>7

\* The lease a pass is issued is a grant of the event it claimed.
LEMMA IssueGrants ==
    ASSUME Sound, NEW f \in Fences, NEW point \in {"leased", "stopping"},
           IssuedLease(f), Goto(f, point), UNCHANGED <<queueVars, taskVars, runVars>>
    PROVE  Promise!Grant(f, work[f])
<1> USE DEF Sound
<1>1. /\ fence = f /\ pc[f] = "judged" /\ status[f] = "none" /\ stamp[work[f]] = f
      /\ work[f] \in Events /\ work[f] \notin settled
    BY IssueFinds
<1>2. /\ status' = [status EXCEPT ![f] = "active"]
      /\ UNCHANGED <<admitted, settled, event, work, bound, answered, session, owed>>
    BY DEF IssuedLease, Goto, queueVars, taskVars, runVars
<1>3. Promise!Waiting(work[f]) /\ Promise!Turn(work[f]) BY <1>1, ClaimWaits
<1>4. Promise!NoneLive(work[f]) BY <1>1, NoLiveLease
<1>5. \A l \in Granted : l[1] < f
    <2>1. \A g \in Fences : status[g] # "none" => g < f
        BY <1>1, LeaseAssumption DEF LeaseAssumption, Queue, Minted, Fences
    <2> QED BY <2>1 DEF Granted
<1>6. \A g \in Fences : /\ status'[g] # "none" <=> status[g] # "none" \/ g = f
                        /\ status'[g] = "active" <=> status[g] = "active" \/ g = f
                        /\ status'[g] = "reported" <=> status[g] = "reported"
    BY <1>1, <1>2 DEF Typed, TypeOK
<1>7. Granted' = Granted \cup {<<f, work[f]>>} BY <1>2, <1>6 DEF Granted
<1>8. LiveLeases' = LiveLeases \cup {<<f, work[f]>>} BY <1>2, <1>6 DEF LiveLeases
<1>9. \A d \in Events : Reporters(d)' = Reporters(d) BY <1>2, <1>6 DEF Reporters
<1>10. Outcome' = Outcome BY <1>2, <1>9 DEF Outcome
<1> QED BY <1>2, <1>3, <1>4, <1>5, <1>7, <1>8, <1>10 DEF Promise!Grant

\* A refusal ends the event claimed while no lease of it is live.
LEMMA BlockRefuses ==
    ASSUME Sound, NEW f \in Fences, Block(f), Owns(f)
    PROVE  Promise!Refuse(work[f])
<1> USE DEF Sound
<1>1. /\ pc[f] \in Running /\ fence = f /\ work[f] \in Events /\ work[f] \notin settled
      /\ status[f] = "none" /\ stamp[work[f]] = f /\ event[work[f]] = "received"
      /\ event \in [Events -> Terminal \cup {"none", "received"}]
    BY DEF Block, Owns, Typed, TypeOK, Named, Queue, Owned, Running, SettledIffTerminal
<1>2. /\ event' = [event EXCEPT ![work[f]] = "gate_blocked"]
      /\ settled' = settled \cup {work[f]}
      /\ UNCHANGED <<admitted, status, work, bound, answered, session, owed>>
    BY <1>1 DEF Block, envVars, taskVars, leaseVars, runVars, Goto
<1>3. Promise!Waiting(work[f]) /\ Promise!Turn(work[f]) BY <1>1, ClaimWaits DEF Running
<1>4. Promise!NoneLive(work[f]) BY <1>1, NoLiveLease
<1>5. Reporters(work[f]) = {} BY <1>1 DEF Endings, SettledOnce
<1>6. \A d \in Events : Reporters(d)' = Reporters(d) BY <1>2 DEF Reporters
<1>7. Promise!End(work[f], "refused")
    BY <1>1, <1>2, <1>5, <1>6 DEF Outcome, Promise!End
<1>8. Granted' = Granted /\ LiveLeases' = LiveLeases BY <1>2 DEF Granted, LiveLeases
<1> QED BY <1>2, <1>3, <1>4, <1>7, <1>8 DEF Promise!Refuse

\* A report that settles ends the event of the newest lease, under that lease.
LEMMA ReportFinishes ==
    ASSUME Sound, NEW f \in Fences, NEW ending \in {"processed", "fleet_error"},
           NEW asked \in {0, now + HoldIdle + 1}, Report(f, ending, asked)
    PROVE  Promise!Finish(f, work[f])
<1> USE DEF Sound
<1>1. /\ fence = f /\ pc[f] = "leased" /\ work[f] \in Events /\ work[f] \notin settled
      /\ status[f] = "active" /\ event[work[f]] = "received"
      /\ event \in [Events -> Terminal \cup {"none", "received"}] /\ status \in [Fences -> Statuses]
    BY ReportIsCurrent DEF Typed, TypeOK
<1>2. /\ event' = [event EXCEPT ![work[f]] = ending]
      /\ settled' = settled \cup {work[f]}
      /\ status' = [status EXCEPT ![f] = "reported"]
      /\ session' = work[f] /\ owed' = owed \cup ({work[f]} \cap Replies)
      /\ UNCHANGED <<admitted, work, bound, answered>>
    BY <1>1 DEF Report, Checkpoint, envVars, taskVars, passVars
<1>3. Promise!Waiting(work[f]) BY <1>1, ClaimWaits
<1>4. <<f, work[f]>> \in LiveLeases /\ Promise!Newest(f, work[f]) BY <1>1, CurrentIsNewest
<1>5. /\ Reporters(work[f])' # {}
      /\ \A d \in Events \ {work[f]} : Reporters(d)' = Reporters(d)
    BY <1>1, <1>2 DEF Reporters
<1>6. Promise!End(work[f], "ran")
    <2>1. Outcome[work[f]] = "open" /\ Outcome'[work[f]] = "ran" BY <1>1, <1>2, <1>5 DEF Outcome
    <2>2. \A d \in Events \ {work[f]} : Outcome'[d] = Outcome[d] BY <1>1, <1>2, <1>5 DEF Outcome
    <2> QED BY <1>1, <2>1, <2>2 DEF Outcome, Promise!End
<1>7. \A g \in Fences : /\ status'[g] # "none" <=> status[g] # "none"
                        /\ status'[g] = "active" <=> status[g] = "active" /\ g # f
    BY <1>1, <1>2
<1>8. LiveLeases' = LiveLeases \ {<<f, work[f]>>} BY <1>2, <1>7 DEF LiveLeases
<1>9. Granted' = Granted BY <1>2, <1>7 DEF Granted
<1> QED BY <1>2, <1>3, <1>4, <1>6, <1>8, <1>9 DEF Promise!Finish

\* What a step of a pass looks like from outside.
LEMMA PassServes ==
    ASSUME Sound, NEW f \in Fences, PassStep(f)
    PROVE  \/ \E g \in Fences, e \in Events : Promise!Grant(g, e)
           \/ \E e \in Events : Promise!Refuse(e)
           \/ UNCHANGED Promise!vars
<1>1. pc[f] # "none" => work[f] \in Events BY DEF Sound, Typed, Named
<1>2. CASE Issue(f)
    BY <1>1, <1>2, IssueGrants DEF Issue, IssuedLease, envVars
<1>3. CASE IssueUnacknowledged(f)
    BY <1>1, <1>3, IssueGrants DEF IssueUnacknowledged, IssuedLease
<1>4. CASE Block(f) /\ Owns(f) BY <1>1, <1>4, BlockRefuses DEF Block
<1>5. CASE RecordReceived(f)
    <2>1. UNCHANGED <<admitted, settled, status, work, bound, answered, session, owed>>
        BY <1>5 DEF RecordReceived, Goto, envVars, taskVars, leaseVars, runVars
    <2>2. \A d \in Events : Reporters(d)' = Reporters(d) BY <2>1 DEF Reporters
    <2>3. \A d \in settled : event'[d] = event[d]
        BY <1>5 DEF RecordReceived, Owns, Sound, Typed, TypeOK
    <2>4. Outcome' = Outcome BY <2>1, <2>2, <2>3 DEF Outcome
    <2> QED BY <2>1, <2>4 DEF Promise!vars, Granted, LiveLeases
<1>6. CASE UNCHANGED <<admitted, settled, event, status, work, bound, answered, session, owed>>
    BY <1>6, Unseen
<1> QED
    BY <1>2, <1>3, <1>4, <1>5, <1>6
       DEF PassStep, ResolveInstalled, Judge, AskGrant, Block, Park, ClaimLost, LetGo, Stop,
           CrashPass, Goto, envVars, taskVars, queueVars, leaseVars, runVars

\* What a task withdraws is a continuation no lease was granted for.
LEMMA RetireServes ==
    ASSUME Sound, NEW e \in Events, e \in 1..admitted, Retire(e),
           UNCHANGED <<admitted, event, status, work, bound, answered, session, owed>>
    PROVE  Promise!Retire(e) \/ UNCHANGED Promise!vars
<1> USE DEF Sound
<1>1. CASE settled' = settled BY <1>1, Unseen
<1>2. CASE settled' # settled
    <2>1. /\ e \in Continuations /\ PriorLeases(e) = {} /\ e \notin settled
          /\ settled' = settled \cup {e}
        BY <1>2 DEF Retire
    <2>2. e \notin answered BY <2>1, LeaseAssumption DEF LeaseAssumption, Typed, TypeOK
    <2>3. event[e] # "gate_blocked" BY <2>1 DEF Queue, SettledIffTerminal, Terminal
    <2>4. Reporters(e) = {} BY <2>1 DEF Reporters, PriorLeases
    <2>5. \A d \in Events : Reporters(d)' = Reporters(d) BY DEF Reporters
    <2>6. Outcome[e] = "open" /\ Outcome'[e] = "retired"
        BY <2>1, <2>2, <2>3, <2>4, <2>5 DEF Outcome
    <2>7. \A d \in Events \ {e} : Outcome'[d] = Outcome[d] BY <2>1, <2>5 DEF Outcome
    <2>8. Promise!End(e, "retired") BY <2>6, <2>7 DEF Outcome, Promise!End
    <2>9. \A l \in Granted : l[2] # e BY <2>1 DEF Granted, PriorLeases
    <2>10. Granted' = Granted /\ LiveLeases' = LiveLeases BY DEF Granted, LiveLeases
    <2> QED BY <2>1, <2>6, <2>8, <2>9, <2>10 DEF Promise!Retire, Promise!Waiting
<1> QED BY <1>1, <1>2

\* An abandoned lease lapses.
LEMMA AbandonLapses ==
    ASSUME Sound, NEW f \in Fences, ExpireAbandoned(f)
    PROVE  \E l \in LiveLeases : Promise!Lapse(l)
<1>1. /\ status[f] = "active" /\ status' = [status EXCEPT ![f] = "expired"]
      /\ status \in [Fences -> Statuses]
      /\ UNCHANGED <<admitted, settled, event, work, bound, answered, session, owed>>
    BY DEF ExpireAbandoned, envVars, taskVars, queueVars, passVars, runVars, Sound, Typed, TypeOK
<1>2. \A g \in Fences : /\ status'[g] = "none" <=> status[g] = "none"
                        /\ status'[g] = "reported" <=> status[g] = "reported"
                        /\ status'[g] = "active" <=> status[g] = "active" /\ g # f
    BY <1>1
<1>3. \A d \in Events : Reporters(d)' = Reporters(d) BY <1>1, <1>2 DEF Reporters
<1>4. Outcome' = Outcome BY <1>1, <1>3 DEF Outcome
<1>5. Granted' = Granted BY <1>1, <1>2 DEF Granted
<1>6. <<f, work[f]>> \in LiveLeases BY <1>1 DEF LiveLeases
<1>7. LiveLeases' = LiveLeases \ {<<f, work[f]>>} BY <1>1, <1>2 DEF LiveLeases
<1> QED BY <1>1, <1>4, <1>5, <1>6, <1>7 DEF Promise!Lapse

\* The newest lease binds a waiting message to a task, or only reads it.
LEMMA TakeInputBinds ==
    ASSUME Sound, NEW f \in Fences, NEW e \in Events, NEW starts \in BOOLEAN,
           TakeInput(f, e, starts)
    PROVE  Promise!Bind(e) \/ UNCHANGED Promise!vars
<1>1. /\ e \in Inputs \cap 1..admitted /\ e \notin settled
      /\ bound' = bound \cup {e} \/ bound' = bound
      /\ UNCHANGED <<admitted, settled, event, status, work, answered, session, owed>>
    BY DEF TakeInput, queueVars, passVars, runVars
<1>2. CASE bound' = bound BY <1>1, <1>2, Unseen
<1>3. CASE bound' = bound \cup {e}
    <2>1. fence = f /\ status[f] = "active" BY LiveRunIsCurrent DEF TakeInput, Sound
    <2>2. <<f, work[f]>> \in LiveLeases /\ Promise!Newest(f, work[f]) BY <2>1, CurrentIsNewest
    <2>3. \E l \in LiveLeases : Promise!Newest(l[1], l[2]) BY <2>2
    <2>4. \A d \in Events : Reporters(d)' = Reporters(d) BY <1>1 DEF Reporters
    <2>5. Outcome' = Outcome BY <1>1, <2>4 DEF Outcome
    <2>6. Granted' = Granted /\ LiveLeases' = LiveLeases BY <1>1 DEF Granted, LiveLeases
    <2>7. Outcome[e] = "open" BY <1>1 DEF Outcome
    <2> QED BY <1>1, <1>3, <2>3, <2>5, <2>6, <2>7 DEF Promise!Bind, Promise!Waiting
<1> QED BY <1>1, <1>2, <1>3

\* The newest lease answers a message that waits; one that ended keeps its outcome.
LEMMA AnswerServes ==
    ASSUME Sound, NEW f \in Fences, NEW e \in Events, Answer(f, e) PROVE Promise!Answer(e)
<1> USE DEF Sound, Typed, TypeOK
<1>1. /\ e \in taken /\ e \notin answered /\ e # work[f] /\ LiveRun(f)
      /\ answered' = answered \cup {e} /\ settled' = settled \cup {e}
      /\ event' = [event EXCEPT ![e] = IF @ \in {"none", "received"} THEN "processed" ELSE @]
      /\ owed' = owed \cup ({e} \cap Replies)
      /\ UNCHANGED <<admitted, status, work, bound, session>>
    BY DEF Answer, leaseVars, passVars
<1>2. e \in Inputs \cap 1..admitted /\ e \notin Continuations
    BY <1>1, LeaseAssumption DEF LeaseAssumption, Known
<1>3. fence = f /\ status[f] = "active" BY <1>1, LiveRunIsCurrent
<1>4. <<f, work[f]>> \in LiveLeases /\ Promise!Newest(f, work[f]) BY <1>3, CurrentIsNewest
<1>5. \E l \in LiveLeases : Promise!Newest(l[1], l[2]) /\ l[2] # e BY <1>1, <1>4
<1>6. \A d \in Events : Reporters(d)' = Reporters(d) BY <1>1 DEF Reporters
<1>7. \A d \in Events \ {e} : Outcome'[d] = Outcome[d] BY <1>1, <1>6 DEF Outcome
<1>8. Promise!End(e, "answered")
    <2>1. Outcome'[e] = IF Outcome[e] = "open" THEN "answered" ELSE Outcome[e]
        <3>1. CASE e \notin settled
            <4>1. Outcome[e] = "open" BY <3>1 DEF Outcome
            <4>2. event[e] \in {"none", "received"} BY <3>1 DEF Queue, SettledIffTerminal
            <4>3. Reporters(e) = {} BY <4>2 DEF Endings, SettledOnce
            <4>4. event'[e] = "processed" BY <1>1, <4>2
            <4>5. Outcome'[e] = "answered" BY <1>1, <1>6, <4>3, <4>4 DEF Outcome
            <4> QED BY <4>1, <4>5
        <3>2. CASE e \in settled
            <4>1. event[e] \in Terminal BY <1>2, <3>2 DEF Queue, SettledIffTerminal
            <4>2. event'[e] = event[e] BY <1>1, <4>1 DEF Terminal
            <4>3. Reporters(e) # {} \/ event[e] = "gate_blocked"
                BY <1>1, <4>1 DEF Endings, SettledOnce, Terminal
            <4>4. Outcome'[e] = Outcome[e] /\ Outcome[e] # "open"
                BY <1>1, <1>6, <3>2, <4>2, <4>3 DEF Outcome
            <4> QED BY <4>4
        <3> QED BY <3>1, <3>2
    <2> QED BY <1>7, <2>1 DEF Outcome, Promise!End
<1>9. Granted' = Granted /\ LiveLeases' = LiveLeases BY <1>1 DEF Granted, LiveLeases
<1> QED BY <1>1, <1>2, <1>5, <1>8, <1>9 DEF Promise!Answer

\* The lease plane implements FleetQueue, for every number of runners, events,
\* claims and faults and every timing: seen from outside, a step of it admits,
\* binds, grants, lapses, finishes, refuses, answers or retires as the promise
\* says, or changes nothing.
THEOREM ImplementsQueue == Spec => ServesInTurn
<1>1. Init => Promise!Init
    BY DEF Init, Promise!Init, Outcome, Granted, LiveLeases, Events, Promise!Events
<1>2. Typed /\ Queue /\ Endings /\ Known /\ [Next]_vars => [Promise!Next]_(Promise!vars)
    <2> SUFFICES ASSUME Sound, [Next]_vars
                 PROVE  Promise!Next \/ UNCHANGED Promise!vars
        BY DEF Sound
    <2> USE DEF Promise!Events, Promise!Fences, Events, Fences
    <2>1. CASE Admit
        BY <2>1 DEF Admit, envVars, taskVars, leaseVars, passVars, runVars, Promise!Next,
                    Promise!Admit, Outcome, Reporters, Granted, LiveLeases
    <2>2. CASE Operator \/ Chores \/ Tick \/ UNCHANGED vars
        <3>1. UNCHANGED admitted
            BY <2>2 DEF Operator, ResolveGate, HostLeaves, HostReturns, TasksOff, TasksOn, StopFleet,
                        ResumeFleet, Chores, ExpireGates, BillExpired, RecordOffline, ReleaseSlots,
                        ClearHold, Tick, vars, queueVars
        <3>2. Quiet BY <2>2 DEF Quiet
        <3> QED BY <3>1, <3>2, Unseen, QuietLeavesQueue DEF queueState, runVars
    <2>3. CASE Limits
        <3>1. Typed BY DEF Sound
        <3> QED BY <2>3, <3>1, LimitsChangeTasks, Unseen DEF queueVars, leaseVars, passVars, runVars
    <2>4. ASSUME NEW r \in Runners, NEW e \in Events, ClaimHead(r, e)
          PROVE  Promise!Next \/ UNCHANGED Promise!vars
        BY <2>4, ClaimLapses DEF Promise!Next
    <2>5. ASSUME NEW f \in Fences, PassStep(f) PROVE Promise!Next \/ UNCHANGED Promise!vars
        BY <2>5, PassServes DEF Promise!Next
    <2>6. ASSUME NEW f \in Fences, RunnerStep(f) PROVE Promise!Next \/ UNCHANGED Promise!vars
        <3>1. ASSUME NEW ending \in {"processed", "fleet_error"},
                     NEW asked \in {0, now + HoldIdle + 1}, Report(f, ending, asked)
              PROVE  Promise!Next
            <4>1. work[f] \in Events BY <3>1, ReportIsCurrent DEF Sound
            <4> QED BY <3>1, <4>1, ReportFinishes DEF Promise!Next
        <3>2. CASE Renew(f) \/ KeepRecords(f) \/ ReportRefused(f) \/ LoseRun(f)
            BY <3>2, Unseen DEF Renew, KeepRecords, ReportRefused, LoseRun, Goto, envVars, taskVars,
                                queueVars, leaseVars, passVars, runVars
        <3> QED BY <2>6, <3>1, <3>2 DEF RunnerStep
    <2>7. ASSUME NEW f \in Fences, BlockChanged(f) PROVE Promise!Next \/ UNCHANGED Promise!vars
        <3>1. work[f] \in Events /\ work[f] \in 1..admitted
            BY <2>7 DEF BlockChanged, Sound, Typed, TypeOK, Named, Known
        <3>2. /\ Retire(work[f])
              /\ UNCHANGED <<admitted, event, status, work, bound, answered, session, owed>>
            BY <2>7 DEF BlockChanged, Goto, leaseVars, runVars
        <3> QED BY <3>1, <3>2, RetireServes DEF Promise!Next
    <2>8. ASSUME NEW e \in Events, TaskMoves(e) PROVE Promise!Next \/ UNCHANGED Promise!vars
        <3>1. /\ e \in 1..admitted /\ Retire(e)
              /\ UNCHANGED <<admitted, event, status, work, bound, answered, session, owed>>
            BY <2>8 DEF TaskMoves, leaseVars, passVars, runVars
        <3> QED BY <3>1, RetireServes DEF Promise!Next
    <2>9. ASSUME NEW f \in Fences, ExpireAbandoned(f) PROVE Promise!Next
        BY <2>9, AbandonLapses DEF Promise!Next
    <2>10. ASSUME NEW f \in Fences, NEW e \in Events, Answer(f, e) PROVE Promise!Next
        BY <2>10, AnswerServes DEF Promise!Next
    <2>11. ASSUME NEW f \in Fences, NEW e \in Events, NEW starts \in BOOLEAN,
                  TakeInput(f, e, starts)
           PROVE  Promise!Next \/ UNCHANGED Promise!vars
        BY <2>11, TakeInputBinds DEF Promise!Next
    <2> QED BY <2>1, <2>2, <2>3, <2>4, <2>5, <2>6, <2>7, <2>8, <2>9, <2>10, <2>11, StepCases
            DEF Quiet
<1>3. Spec => []Known BY KnownInit, KnownNext, QueueInvariant, PTL DEF Spec
<1> QED BY <1>1, <1>2, <1>3, QueueInvariant, EndingsInvariant, PTL
        DEF Spec, ServesInTurn, Promise!Spec

=============================================================================
