----------------------------- MODULE FleetLease -----------------------------
(***************************************************************************)
(* The lease plane of one fleet: how agentsfleetd hands the fleet's        *)
(* admitted events to runners, one at a time and in order, and settles     *)
(* each exactly once although runners die, daemons crash in the middle of  *)
(* a poll, reports arrive late or twice, people answer approval gates      *)
(* while a poll is parking, and sweeps free slots underneath everybody.    *)
(*                                                                         *)
(* An event that belongs to a durable task is passed over while its task   *)
(* cannot run: younger events are leased and settled ahead of it, and the  *)
(* lease row it left behind stays active.  It leaves the queue without     *)
(* running when its task moves on, and a run may answer a message that     *)
(* still waits in the queue.  What makes a task move is the subject of     *)
(* TaskWaits; here a task is whether its admission may run now.            *)
(*                                                                         *)
(* Everything durable is a Postgres row, so every action below is one      *)
(* transaction or one statement of the daemon; what interleaves between    *)
(* them is whatever the daemon does between two awaits.  A poll that won   *)
(* the fleet's slot is a "pass", named by the fence its claim minted; its  *)
(* program counter is the only state a daemon crash loses.                 *)
(***************************************************************************)
EXTENDS Integers, FiniteSets

CONSTANTS
    Runners,      \* runner.runners: the hosts that poll for work
    NoRunner,     \* a NULL last_runner_id
    MaxEvents,    \* bound: events admitted to the fleet
    Asks,         \* the events whose gate rule asks a person first; 0 when the
                  \* fleet's setup needs an integration grant
    Replies,      \* the events whose answer is owed to an external destination
    Continuations, \* the admissions of the producer task_continuation
    Inputs,       \* the messages of people: a run may read them as its input
    NeedsTasks,   \* the fleet's setup has a decision policy
    TTL,          \* LEASE_TTL, in clock ticks
    MaxRuntime,   \* MAX_RUNTIME: the hard cap of one lease
    HoldIdle,     \* SANDBOX_HOLD_IDLE: the longest sandbox hold
    GateWindow,   \* how long a gate waits for its answer
    Grace,        \* the billing sweep's GRACE after a lease's deadline
    Retention,    \* how long after its deadline an abandoned lease stays active
    MaxFence,     \* bound: claims won
    MaxFaults,    \* bound: faults, crashes and operator interventions
    MaxNow        \* bound: clock

Events == 1..MaxEvents
Fences == 1..MaxFence
Targets == Events \cup {0}      \* what a gate row names: an event, or NULL (0)

ASSUME LeaseAssumption ==
    /\ NoRunner \notin Runners
    /\ MaxEvents \in Nat /\ MaxFence \in Nat /\ MaxFaults \in Nat
    /\ MaxNow \in Nat /\ HoldIdle \in Nat /\ GateWindow \in Nat /\ Grace \in Nat
    /\ TTL \in Nat \ {0} /\ MaxRuntime \in Nat /\ TTL <= MaxRuntime
    /\ Asks \subseteq Targets /\ Replies \subseteq Events
    /\ Continuations \subseteq Events /\ Inputs \subseteq Events \ Continuations
    /\ NeedsTasks \in BOOLEAN /\ Retention \in Nat

VARIABLES
    now,       \* the database clock
    faults,    \* disturbances so far
    fleet,     \* fleet.fleets.status: "active" or "stopped"
    host,      \* runner -> "active", "quiet" (beats stopped), "offline"
               \* (recorded so) or "cordoned" (any status but active)
    fit,       \* the runners with runner.runners.durable_tasks_enabled; every
               \* runner's capability report is taken to list durable tasks
    task,      \* for an admission of a task: "current"; "withheld" while the task
               \* has no time, money or leases left; "stale" once its generation
               \* moved on or it ended
    bound,     \* the admissions with fleet.admissions.task_id set
    taken,     \* the admissions with fleet.admissions.interpreted_at set
    answered,  \* the admissions another event's run answered
    admitted,  \* fleet.admissions: sequences 1..admitted exist
    stamp,     \* fleet.admissions.lease_fence, 0 for NULL
    parked,    \* the admissions with fleet.admissions.parked_at set
    settled,   \* the admissions with fleet.admissions.settled_at set
    event,     \* fleet.events.status, "none" before the row exists
    card,      \* fleet.approval_gates.status per target, "none" before it is raised
    cardUntil, \* fleet.approval_gates.expires_at
    fence,     \* runner.fleet_slots.fencing_token, 0 before the row exists
    holder,    \* runner.fleet_slots.last_runner_id
    until,     \* runner.fleet_slots.lease_expires_at
    hold,      \* runner.fleet_slots.hold_expires_at, 0 for NULL
    taker,     \* the runner each fence was minted for; its lease row repeats it
    work,      \* the event each fence was minted for; its lease row repeats it
    resume,    \* the fences whose claim resumes the runner's held sandbox
    pc,        \* where the poll that won the fence stands
    status,    \* runner.leases.status by fencing_token, "none" before the row exists
    created,   \* runner.leases.created_at
    expires,   \* runner.leases.lease_expires_at
    metered,   \* runner.leases.last_metered_at
    ward,      \* runner.leases.task_id, as the admission that task bound, or 0
    told,      \* what the reports on each lease were answered
    calls,     \* fleet.tool_calls: the fences whose records an event keeps
    session,   \* fleet.sessions: the checkpoint's last_event_id
    owed       \* fleet.obligations: the events whose answer is owed

queueVars == <<admitted, stamp, parked, settled, event>>
slotVars == <<fence, holder, until, hold>>
gateVars == <<card, cardUntil>>
leaseVars == <<status, created, expires, metered, ward>>
passVars == <<taker, work, resume, pc>>
runVars == <<told, calls, session, owed>>
taskVars == <<fit, task, bound, taken, answered>>
envVars == <<now, faults, fleet, host, taskVars>>
vars == <<envVars, queueVars, gateVars, slotVars, leaseVars, passVars, runVars>>

Terminal == {"processed", "fleet_error", "gate_blocked"}
Running == {"claimed", "resolved", "recorded", "judged", "refusing", "parking"}

Least(a, b) == IF a < b THEN a ELSE b
Greatest(a, b) == IF a > b THEN a ELSE b

Init ==
    /\ now = 1 /\ faults = 0 /\ fleet = "active"
    /\ host = [r \in Runners |-> "active"]
    /\ fit = Runners
    /\ task = [e \in Events |-> "current"]
    /\ bound = Continuations /\ taken = {} /\ answered = {}
    /\ admitted = 0
    /\ stamp = [e \in Events |-> 0]
    /\ parked = {}
    /\ settled = {}
    /\ event = [e \in Events |-> "none"]
    /\ card = [t \in Targets |-> "none"]
    /\ cardUntil = [t \in Targets |-> 0]
    /\ fence = 0 /\ holder = NoRunner /\ until = 0 /\ hold = 0
    /\ taker = [f \in Fences |-> NoRunner]
    /\ work = [f \in Fences |-> 0]
    /\ resume = {}
    /\ pc = [f \in Fences |-> "none"]
    /\ status = [f \in Fences |-> "none"]
    /\ created = [f \in Fences |-> 0]
    /\ expires = [f \in Fences |-> 0]
    /\ metered = [f \in Fences |-> 0]
    /\ ward = [f \in Fences |-> 0]
    /\ told = [f \in Fences |-> {}]
    /\ calls = [e \in Events |-> {}]
    /\ session = 0
    /\ owed = {}

-----------------------------------------------------------------------------
(* The ledger and the gates. *)

\* A producer's event is admitted; the row lock on the fleet serialises the
\* fleet's admissions, so the sequence is the commit order.
Admit ==
    /\ admitted < MaxEvents
    /\ admitted' = admitted + 1
    /\ UNCHANGED <<envVars, stamp, parked, settled, event, gateVars, slotVars, leaseVars, passVars, runVars>>

\* An unanswered card on the event or on the whole fleet.
Unresolved(t) == card[t] = "pending"

\* What keeps a parked head from being claimed: an unanswered fleet card at any
\* age, or the event's own card while its window lasts.
Waits(e) == \/ Unresolved(0)
            \/ Unresolved(e) /\ cardUntil[e] > now

\* Whether runner r may be given event e: a fleet with a decision policy and an
\* event of a task need a runner durable tasks are enabled for, and the task must
\* let its admission run.
Eligible(r, e) == /\ NeedsTasks => r \in fit
                  /\ e \in bound => r \in fit /\ task[e] = "current"

\* Mutant: the claim takes any unsettled admission the runner may be given.
IsHeadUnordered(r, e) == e \in 1..admitted /\ e \notin settled /\ Eligible(r, e)

\* The oldest unsettled admission the runner may be given.
IsHead(r, e) == /\ e \in 1..admitted
                /\ e \notin settled
                /\ Eligible(r, e)
                /\ \A d \in 1..(e - 1) : d \in settled \/ ~Eligible(r, d)

\* Everything un-parks when any of the fleet's cards is resolved.
Unpark == parked' = parked \cap settled

\* A person answers a card; the answer stands even after its window.
ResolveGate(t, verdict) ==
    /\ Unresolved(t)
    /\ card' = [card EXCEPT ![t] = verdict]
    /\ Unpark
    /\ UNCHANGED <<envVars, cardUntil, admitted, stamp, settled, event, slotVars, leaseVars, passVars, runVars>>

\* The sweep times out every card past its window.  An integration grant stays
\* pending, so its card may be raised again.
ExpireGates ==
    LET due == {t \in Targets : Unresolved(t) /\ cardUntil[t] <= now} IN
    /\ due # {}
    /\ card' = [t \in Targets |-> CASE t \notin due -> card[t]
                                   [] t \in due /\ t = 0 -> "none"
                                   [] t \in due /\ t # 0 -> "timed_out"]
    /\ Unpark
    /\ UNCHANGED <<envVars, cardUntil, admitted, stamp, settled, event, slotVars, leaseVars, passVars, runVars>>

-----------------------------------------------------------------------------
(* The claim. *)

\* Whether a live holder's sandbox hold keeps other runners off the slot.
HeldByOther(r) == /\ hold > now
                  /\ holder # r
                  /\ holder \in Runners /\ host[holder] = "active"

\* Leases the event has had before, and the latest of them.
PriorLeases(e) == {g \in Fences : status[g] # "none" /\ work[g] = e}
IsLatestLease(g, e) == g \in PriorLeases(e) /\ \A h \in PriorLeases(e) : h <= g

\* Mutant: the claim leaves the event's last lease active.
SupersededNever(g, e) == FALSE

\* The latest lease of the event, when still active, is expired by the claim.
Superseded(g, e) == IsLatestLease(g, e) /\ status[g] = "active"

\* Mutant: a live hold is resumed, whoever holds it.
ResumesAnyHold(r, e) == hold > now /\ PriorLeases(e) = {}

\* Whether the claim resumes the sandbox the runner holds: only the holder's own
\* live hold, and never on an event that has been leased before.
Resumes(r, e) == hold > now /\ holder = r /\ PriorLeases(e) = {}

\* The hold outlives a claim only when the claimant is the holder.
KeptHold(r) == IF holder = r THEN hold ELSE 0

\* A poll of runner r wins the slot with the head of the queue: one statement
\* bumps the fence, stamps the head with it and expires the event's last lease,
\* and no other event's.
ClaimHead(r, e) ==
    /\ fleet = "active"
    /\ host[r] # "cordoned"
    /\ fence < MaxFence
    /\ until < now
    /\ ~HeldByOther(r)
    /\ IsHead(r, e)
    /\ e \in parked => ~Waits(e)
    /\ fence' = fence + 1
    /\ holder' = r
    /\ until' = now + TTL
    /\ hold' = KeptHold(r)
    /\ stamp' = [stamp EXCEPT ![e] = fence + 1]
    /\ status' = [g \in Fences |-> IF Superseded(g, e) THEN "expired" ELSE status[g]]
    /\ taker' = [taker EXCEPT ![fence + 1] = r]
    /\ work' = [work EXCEPT ![fence + 1] = e]
    /\ resume' = IF Resumes(r, e) THEN resume \cup {fence + 1} ELSE resume
    /\ pc' = [pc EXCEPT ![fence + 1] = "claimed"]
    /\ UNCHANGED <<envVars, admitted, parked, settled, event, gateVars, created, expires,
                   metered, ward, runVars>>

Claim(r) == \E e \in Events : ClaimHead(r, e)

-----------------------------------------------------------------------------
(* The pass: what the poll does with the claim it won, one transaction at a  *)
(* time.                                                                     *)

Goto(f, point) == pc' = [pc EXCEPT ![f] = point] /\ UNCHANGED <<taker, work, resume>>

\* Mutant: the lock does not compare fences.
OwnsUnfenced(f) == work[f] \notin settled

\* lock_admission: the pass still owns the slot and the unsettled admission.
Owns(f) == /\ fence = f
           /\ stamp[work[f]] = f
           /\ work[f] \notin settled

\* release_unleased_slot: the slot is free at once; the sticky hint outlives the
\* claim only behind a live hold.
ReleaseUnleased(f) ==
    IF fence = f
    THEN /\ until' = now - 1
         /\ holder' = IF hold > now THEN holder ELSE NoRunner
         /\ UNCHANGED <<fence, hold>>
    ELSE UNCHANGED slotVars

\* The installed fleet is read: a stopped fleet ends the pass.
ResolveInstalled(f) ==
    /\ pc[f] = "claimed"
    /\ Goto(f, IF fleet = "active" THEN "resolved" ELSE "stopping")
    /\ UNCHANGED <<envVars, queueVars, gateVars, slotVars, leaseVars, runVars>>

\* The event row is opened under the admission lock; a lost claim ends the pass.
RecordReceived(f) ==
    LET e == work[f] IN
    /\ pc[f] = "resolved"
    /\ \/ /\ Owns(f)
          /\ event' = [event EXCEPT ![e] = IF @ = "none" THEN "received" ELSE @]
          /\ Goto(f, "recorded")
       \/ /\ ~Owns(f)
          /\ Goto(f, "stopping")
          /\ UNCHANGED event
    /\ UNCHANGED <<envVars, admitted, stamp, parked, settled, gateVars, slotVars, leaseVars, runVars>>

\* A card is raised with its window.
Raise(t) == /\ card' = [card EXCEPT ![t] = "pending"]
            /\ cardUntil' = [cardUntil EXCEPT ![t] = now + GateWindow]

\* The event's approval gate: raised on the first encounter, and answered by the
\* person, by nobody in time, or not yet.
Judge(f) ==
    LET e == work[f] IN
    /\ pc[f] = "recorded"
    /\ \/ /\ e \notin Asks \/ card[e] = "approved"
          /\ Goto(f, "judged")
          /\ UNCHANGED gateVars
       \/ /\ e \in Asks /\ card[e] = "none"
          /\ Raise(e)
          /\ Goto(f, "parking")
       \/ /\ e \in Asks /\ Unresolved(e)
          /\ Goto(f, IF cardUntil[e] > now THEN "parking" ELSE "refusing")
          /\ UNCHANGED gateVars
       \/ /\ e \in Asks /\ card[e] \in {"denied", "timed_out"}
          /\ Goto(f, "refusing")
          /\ UNCHANGED gateVars
    /\ UNCHANGED <<envVars, queueVars, slotVars, leaseVars, runVars>>

\* The setup needs an integration nobody granted: its card is raised once and
\* the event waits, or a denial ends it.
AskGrant(f) ==
    /\ pc[f] = "judged"
    /\ 0 \in Asks /\ card[0] # "approved"
    /\ IF card[0] = "none" THEN Raise(0) ELSE UNCHANGED gateVars
    /\ Goto(f, IF card[0] = "denied" THEN "refusing" ELSE "parking")
    /\ UNCHANGED <<envVars, queueVars, slotVars, leaseVars, runVars>>

\* Mutant: the refusal closes the event and leaves its admission queued.
BlockUnsettled(f) ==
    /\ pc[f] \in {"recorded", "judged", "refusing"}
    /\ event' = IF Owns(f) THEN [event EXCEPT ![work[f]] = "gate_blocked"] ELSE event
    /\ Goto(f, "stopping")
    /\ UNCHANGED <<envVars, admitted, stamp, parked, settled, gateVars, slotVars, leaseVars, runVars>>

\* A refusal (an unsupported event, a money gate, a denied gate, a binding that
\* cannot be enforced) closes the event and settles its admission together.
Block(f) ==
    LET e == work[f] IN
    /\ pc[f] \in {"recorded", "judged", "refusing"}
    /\ \/ /\ Owns(f)
          /\ event' = [event EXCEPT ![e] = IF @ = "received" THEN "gate_blocked" ELSE @]
          /\ settled' = settled \cup {e}
          /\ parked' = parked \ {e}
       \/ /\ ~Owns(f)
          /\ UNCHANGED <<event, settled, parked>>
    /\ Goto(f, "stopping")
    /\ UNCHANGED <<envVars, admitted, stamp, gateVars, slotVars, leaseVars, runVars>>

\* Mutant: the park does not look whether the card was answered meanwhile.
ParkBlindly(f) ==
    /\ pc[f] = "parking"
    /\ IF Owns(f)
       THEN parked' = parked \cup {work[f]} /\ ReleaseUnleased(f)
       ELSE UNCHANGED <<parked, slotVars>>
    /\ Goto(f, "done")
    /\ UNCHANGED <<envVars, admitted, stamp, settled, event, gateVars, leaseVars, runVars>>

\* Park and free the slot atomically; an answer that came first leaves the
\* admission un-parked.
Park(f) ==
    LET e == work[f] IN
    /\ pc[f] = "parking"
    /\ \/ /\ Owns(f)
          /\ parked' = IF Unresolved(e) \/ Unresolved(0) THEN parked \cup {e} ELSE parked
          /\ ReleaseUnleased(f)
       \/ /\ ~Owns(f)
          /\ UNCHANGED <<parked, slotVars>>
    /\ Goto(f, "done")
    /\ UNCHANGED <<envVars, admitted, stamp, settled, event, gateVars, leaseVars, runVars>>

\* A task's remaining time may end a deadline sooner.
Deadline(e, limit) == IF e \in bound THEN (now + 1)..limit ELSE {limit}

\* Mutant: the issue does not look at the admission again.
IssuableBlindly(f) == TRUE

\* The issue's own look at the admission and its task.
Issuable(f) == work[f] \notin settled /\ Eligible(taker[f], work[f])

\* The lease row, under the slot it was claimed with; the slot follows a deadline
\* the task shortened.
IssuedLease(f) ==
    LET e == work[f] IN
    /\ pc[f] = "judged"
    /\ 0 \notin Asks \/ card[0] = "approved"
    /\ host[taker[f]] # "cordoned"
    /\ fence = f /\ until > now
    /\ event[e] # "none"
    /\ Issuable(f)
    /\ status' = [status EXCEPT ![f] = "active"]
    /\ created' = [created EXCEPT ![f] = now]
    /\ until' \in Deadline(e, until)
    /\ expires' = [expires EXCEPT ![f] = until']
    /\ metered' = [metered EXCEPT ![f] = now]
    /\ ward' = [ward EXCEPT ![f] = IF e \in bound THEN e ELSE 0]
    /\ UNCHANGED <<fence, holder, hold>>

\* The lease is issued and the runner is answered.
Issue(f) ==
    /\ IssuedLease(f)
    /\ Goto(f, "leased")
    /\ UNCHANGED <<envVars, queueVars, gateVars, runVars>>

Fault == faults < MaxFaults /\ faults' = faults + 1

\* The commit lands but its acknowledgement does not: the pass takes the lease
\* for a fault and lets the slot go.
IssueUnacknowledged(f) ==
    /\ Fault
    /\ IssuedLease(f)
    /\ Goto(f, "stopping")
    /\ UNCHANGED <<now, fleet, host, taskVars, queueVars, gateVars, runVars>>

\* Any other ending without a lease: an outage, a retry, no capacity, a lost
\* claim.  run_claimed frees the slot once the pass has its answer.
Stop(f) ==
    /\ Fault
    /\ pc[f] \in Running
    /\ Goto(f, "stopping")
    /\ UNCHANGED <<now, fleet, host, taskVars, queueVars, gateVars, slotVars, leaseVars, runVars>>

\* issue_for_revision finds the claim lapsed or superseded, or the admission
\* gone or no longer to be run: claim_lost.
ClaimLost(f) ==
    /\ pc[f] = "judged"
    /\ fence # f \/ until <= now \/ ~Issuable(f)
    /\ Goto(f, "stopping")
    /\ UNCHANGED <<envVars, queueVars, gateVars, slotVars, leaseVars, runVars>>

LetGo(f) ==
    /\ pc[f] = "stopping"
    /\ ReleaseUnleased(f)
    /\ Goto(f, "done")
    /\ UNCHANGED <<envVars, queueVars, gateVars, leaseVars, runVars>>

\* The daemon dies, or the release itself fails: the claim lapses at its expiry.
CrashPass(f) ==
    /\ Fault
    /\ pc[f] \in Running \cup {"stopping"}
    /\ Goto(f, "done")
    /\ UNCHANGED <<now, fleet, host, taskVars, queueVars, gateVars, slotVars, leaseVars, runVars>>

-----------------------------------------------------------------------------
(* The runner's verbs on its lease.  The runner knows a lease only when the  *)
(* poll answered it.                                                         *)

Heard(f) == pc[f] = "leased"

\* Mutant: a late report bills up to the moment it lands.
MeteredToNow(f) == Greatest(metered[f], now)

\* metered_until: never past the deadline that was granted.
Metered(f) == Greatest(metered[f], Least(now, expires[f]))

\* The part of the guard renewal and settlement share.
StillStamped(f) == /\ status[f] = "active"
                   /\ stamp[work[f]] = f
                   /\ work[f] \notin settled

\* The live holder extends its lease and its slot, within the hard cap and the
\* time its task has left.
Renew(f) ==
    /\ Heard(f)
    /\ StillStamped(f)
    /\ f = fence
    /\ expires[f] > now /\ until > now
    /\ ward[f] # 0 => task[ward[f]] = "current"
    /\ \E cap \in Deadline(ward[f], Least(now + TTL, created[f] + MaxRuntime)) :
         /\ cap > now
         /\ expires' = [expires EXCEPT ![f] = cap]
         /\ until' = cap
    /\ metered' = [metered EXCEPT ![f] = Metered(f)]
    /\ UNCHANGED <<envVars, queueVars, gateVars, status, created, ward, fence, holder, hold,
                   passVars, runVars>>

\* Mutant: a superseded run's records are still kept.
KeepRecordsUnfenced(f) ==
    /\ Heard(f)
    /\ calls' = [calls EXCEPT ![work[f]] = @ \cup {f}]
    /\ UNCHANGED <<envVars, queueVars, gateVars, slotVars, leaseVars, passVars, told, session, owed>>

\* keep_records: the live holder's tool records replace every other fence's.
KeepRecords(f) ==
    /\ Heard(f)
    /\ status[f] = "active" /\ expires[f] > now /\ f >= fence
    /\ calls' = [calls EXCEPT ![work[f]] = {f}]
    /\ UNCHANGED <<envVars, queueVars, gateVars, slotVars, leaseVars, passVars, told, session, owed>>

\* Mutant: a settle looks at neither the fence nor the admission's stamp.
SettlesUnfenced(f) == status[f] \in {"active", "expired"}

\* METER_LEASE as a settle: late is fine, superseded is not.
Settles(f) == StillStamped(f) /\ f >= fence

\* checkpoint: the session's last event.
Checkpoint(f) == work[f]

\* The report that settles: one transaction ends the lease, the admission and
\* the event, keeps only this fence's records, checkpoints the session, frees
\* the slot with the hold the runner asked for and owes the answer.
Report(f, ending, asked) ==
    LET e == work[f] IN
    /\ Heard(f)
    /\ Settles(f)
    /\ status' = [status EXCEPT ![f] = "reported"]
    /\ metered' = [metered EXCEPT ![f] = Metered(f)]
    /\ settled' = settled \cup {e}
    /\ parked' = parked \ {e}
    /\ event' = [event EXCEPT ![e] = IF @ = "received" THEN ending ELSE @]
    /\ calls' = [calls EXCEPT ![e] = @ \cap {f}]
    /\ session' = Checkpoint(f)
    /\ \/ /\ fence = f
          /\ until' = now - 1
          /\ hold' = IF asked > now THEN Least(asked, now + HoldIdle) ELSE 0
       \/ fence # f /\ UNCHANGED <<until, hold>>
    /\ owed' = owed \cup ({e} \cap Replies)
    /\ told' = [told EXCEPT ![f] = @ \cup {"settled"}]
    /\ UNCHANGED <<envVars, admitted, stamp, gateVars, fence, holder, created, expires, ward, passVars>>

\* Mutant: a retried report is not told apart from a fenced one.
DispositionFenced(f) == "fenced"

\* disposition: why a report claimed nothing.
Disposition(f) == IF status[f] = "reported" THEN "repeat" ELSE "fenced"

\* The report that does not: a repeat of what this lease settled, or fenced.
ReportRefused(f) ==
    /\ Heard(f)
    /\ ~Settles(f)
    /\ told' = [told EXCEPT ![f] = @ \cup {Disposition(f)}]
    /\ UNCHANGED <<envVars, queueVars, gateVars, slotVars, leaseVars, passVars, calls, session, owed>>

\* The runner dies with its lease, or the answer to its poll was lost.
LoseRun(f) ==
    /\ Fault
    /\ Heard(f)
    /\ Goto(f, "lost")
    /\ UNCHANGED <<now, fleet, host, taskVars, queueVars, gateVars, slotVars, leaseVars, runVars>>

-----------------------------------------------------------------------------
(* The durable tasks of the fleet, as far as they touch its queue.           *)

\* Mutant: an issued continuation is retired as well.
RetireIssued(e) ==
    IF e \in Continuations
    THEN settled' = settled \cup {e} /\ parked' = parked \ {e}
    ELSE UNCHANGED <<settled, parked>>

\* continuation::retire: a continuation whose task moved on before any lease of
\* it was issued leaves the queue without running.
Retire(e) ==
    IF e \in Continuations /\ PriorLeases(e) = {}
    THEN settled' = settled \cup {e} /\ parked' = parked \ {e}
    ELSE UNCHANGED <<settled, parked>>

\* The task of e moves to its next generation or ends (a control, a report, a
\* wait that finished or was cancelled, an adoption), and retires e.
TaskMoves(e) ==
    /\ e \in bound /\ e \in 1..admitted
    /\ task' = [task EXCEPT ![e] = "stale"]
    /\ Retire(e)
    /\ UNCHANGED <<now, faults, fleet, host, fit, bound, taken, answered, admitted, stamp, event,
                   gateVars, slotVars, leaseVars, passVars, runVars>>

\* A usage report ends the task that spent its limits, and retires nothing.
MeteredOut(f) ==
    /\ ward[f] # 0
    /\ task' = [task EXCEPT ![ward[f]] = "stale"]
    /\ UNCHANGED <<now, faults, fleet, host, fit, bound, taken, answered, queueVars, gateVars,
                   slotVars, leaseVars, passVars, runVars>>

\* The task has no time, money or leases left, for now or for good.
Withhold(e) ==
    /\ e \in bound /\ task[e] = "current"
    /\ task' = [task EXCEPT ![e] = "withheld"]
    /\ UNCHANGED <<now, faults, fleet, host, fit, bound, taken, answered, queueVars, gateVars, slotVars,
                   leaseVars, passVars, runVars>>

Allow(e) ==
    /\ task[e] = "withheld"
    /\ task' = [task EXCEPT ![e] = "current"]
    /\ UNCHANGED <<now, faults, fleet, host, fit, bound, taken, answered, queueVars, gateVars,
                   slotVars, leaseVars, passVars, runVars>>

\* block_changed_task_setup: a pass that finds its task's setup changed blocks
\* the task, under the slot lock.
BlockChanged(f) ==
    LET e == work[f] IN
    /\ pc[f] = "claimed"
    /\ fence = f /\ until > now /\ stamp[e] = f
    /\ e \in bound /\ task[e] # "stale"
    /\ task' = [task EXCEPT ![e] = "stale"]
    /\ Retire(e)
    /\ Goto(f, "stopping")
    /\ UNCHANGED <<now, faults, fleet, host, fit, bound, taken, answered, admitted, stamp, event,
                   gateVars, slotVars, leaseVars, runVars>>

\* guard::lease: the run still holds its slot, before either deadline.
LiveRun(f) == /\ Heard(f)
              /\ status[f] = "active" /\ f >= fence /\ holder = taker[f]
              /\ expires[f] > now /\ until > now

\* admit::bind: the run's own message, or one that waits in the queue, is
\* interpreted as its input.  A run without a task may start one: the message
\* and the lease are bound to it, and the lease ends within the task's time.
TakeInput(f, e, starts) ==
    /\ LiveRun(f)
    /\ e \in Inputs \cap 1..admitted /\ e \notin settled \cup taken
    /\ taken' = taken \cup {e}
    /\ \/ /\ starts /\ ward[f] = 0 /\ e \notin bound
          /\ bound' = bound \cup {e}
          /\ ward' = [ward EXCEPT ![f] = e]
          /\ until' \in (now + 1)..expires[f]
          /\ expires' = [expires EXCEPT ![f] = until']
       \/ ~starts /\ UNCHANGED <<bound, ward, until, expires>>
    /\ UNCHANGED <<now, faults, fleet, host, fit, task, answered, queueVars, gateVars, fence, holder,
                   hold, status, created, metered, passVars, runVars>>

\* input_receipt::accept: the run answers the message of another event: the
\* event, its admission and the owed answer commit together.
Answer(f, e) ==
    /\ LiveRun(f)
    /\ e \in taken \ answered /\ e # work[f]
    /\ answered' = answered \cup {e}
    /\ event' = [event EXCEPT ![e] = IF @ \in {"none", "received"} THEN "processed" ELSE @]
    /\ settled' = settled \cup {e}
    /\ parked' = parked \ {e}
    /\ owed' = owed \cup ({e} \cap Replies)
    /\ UNCHANGED <<now, faults, fleet, host, fit, task, bound, taken, admitted, stamp, gateVars,
                   slotVars, leaseVars, passVars, told, calls, session>>

-----------------------------------------------------------------------------
(* The sweeps, the operator and the clock. *)

\* Mutant: the sweep also bills leases a report settled.
BillAnyExpired(f) ==
    /\ status[f] # "none"
    /\ expires[f] + Grace < now
    /\ metered[f] < expires[f]
    /\ metered' = [metered EXCEPT ![f] = expires[f]]
    /\ UNCHANGED <<envVars, queueVars, gateVars, slotVars, status, created, expires, ward, passVars, runVars>>

\* The billing sweep charges what an unreported lease ran before its deadline.
BillExpired(f) ==
    /\ status[f] \in {"active", "expired"}
    /\ expires[f] + Grace < now
    /\ metered[f] < expires[f]
    /\ metered' = [metered EXCEPT ![f] = expires[f]]
    /\ UNCHANGED <<envVars, queueVars, gateVars, slotVars, status, created, expires, ward, passVars, runVars>>

\* The retention sweep expires a lease row nobody ended.
ExpireAbandoned(f) ==
    /\ status[f] = "active"
    /\ expires[f] + Retention < now
    /\ status' = [status EXCEPT ![f] = "expired"]
    /\ UNCHANGED <<envVars, queueVars, gateVars, slotVars, created, expires, metered, ward,
                   passVars, runVars>>

\* expire_slots: the slot the runner was last on reads as lapsed, when the
\* runner has an active lease row on the fleet.
ExpireSlots(r) ==
    until' = IF /\ holder = r /\ until > now - 1
                /\ \E f \in Fences : status[f] = "active" /\ taker[f] = r
             THEN now - 1 ELSE until

\* The liveness sweep records a quiet runner offline, once per episode, and
\* frees its slot in the same transaction.
RecordOffline(r) ==
    /\ host[r] = "quiet"
    /\ host' = [host EXCEPT ![r] = "offline"]
    /\ ExpireSlots(r)
    /\ UNCHANGED <<now, faults, fleet, taskVars, queueVars, gateVars, fence, holder, hold, leaseVars, passVars, runVars>>

\* A runner out of service holds no slot, whether or not it still beats.
ReleaseSlots(r) ==
    /\ host[r] = "cordoned"
    /\ ExpireSlots(r)
    /\ UNCHANGED <<envVars, queueVars, gateVars, fence, holder, hold, leaseVars, passVars, runVars>>

\* A heartbeat that no longer lists the fleet's hold clears it.
ClearHold(r) ==
    /\ holder = r /\ hold # 0
    /\ hold' = 0
    /\ UNCHANGED <<envVars, queueVars, gateVars, fence, holder, until, leaseVars, passVars, runVars>>

\* Beats stop or an operator takes the host out of service.
HostLeaves(r, state) ==
    /\ Fault
    /\ host[r] = "active"
    /\ host' = [host EXCEPT ![r] = state]
    /\ UNCHANGED <<now, fleet, taskVars, queueVars, gateVars, slotVars, leaseVars, passVars, runVars>>

HostReturns(r) ==
    /\ host[r] # "active"
    /\ host' = [host EXCEPT ![r] = "active"]
    /\ UNCHANGED <<now, faults, fleet, taskVars, queueVars, gateVars, slotVars, leaseVars, passVars, runVars>>

\* An operator turns durable tasks off on a host, and on again.
TasksOff(r) ==
    /\ Fault
    /\ r \in fit /\ fit' = fit \ {r}
    /\ UNCHANGED <<now, fleet, host, task, bound, taken, answered, queueVars, gateVars, slotVars,
                   leaseVars, passVars, runVars>>

TasksOn(r) ==
    /\ r \notin fit /\ fit' = fit \cup {r}
    /\ UNCHANGED <<now, faults, fleet, host, task, bound, taken, answered, queueVars, gateVars,
                   slotVars, leaseVars, passVars, runVars>>

StopFleet ==
    /\ Fault
    /\ fleet = "active" /\ fleet' = "stopped"
    /\ UNCHANGED <<now, host, taskVars, queueVars, gateVars, slotVars, leaseVars, passVars, runVars>>

ResumeFleet ==
    /\ fleet = "stopped" /\ fleet' = "active"
    /\ UNCHANGED <<now, faults, host, taskVars, queueVars, gateVars, slotVars, leaseVars, passVars, runVars>>

\* Instants some guard still compares with the clock.  Time that passes after
\* the last of them changes nothing any guard reads, so it is not modelled.
Deadlines == {until, hold} \cup {cardUntil[t] : t \in {t \in Targets : Unresolved(t)}}
             \cup {expires[f] + Grace : f \in {f \in Fences : metered[f] < expires[f]}}
             \cup {expires[f] + Retention : f \in {f \in Fences : status[f] = "active"}}

Tick ==
    /\ now < MaxNow
    /\ \E d \in Deadlines : d >= now
    /\ now' = now + 1
    /\ UNCHANGED <<faults, fleet, host, taskVars, queueVars, gateVars, slotVars, leaseVars, passVars, runVars>>

-----------------------------------------------------------------------------
PassStep(f) ==
    \/ ResolveInstalled(f) \/ RecordReceived(f) \/ Judge(f) \/ AskGrant(f)
    \/ Block(f) \/ Park(f) \/ Issue(f) \/ ClaimLost(f) \/ LetGo(f)
    \/ IssueUnacknowledged(f) \/ Stop(f) \/ CrashPass(f)

RunnerStep(f) ==
    \/ Renew(f) \/ KeepRecords(f) \/ ReportRefused(f) \/ LoseRun(f)
    \/ \E ending \in {"processed", "fleet_error"}, asked \in {0, now + HoldIdle + 1} :
         Report(f, ending, asked)

Operator ==
    \/ \E t \in Targets, verdict \in {"approved", "denied"} : ResolveGate(t, verdict)
    \/ \E r \in Runners, state \in {"quiet", "cordoned"} : HostLeaves(r, state)
    \/ \E r \in Runners : HostReturns(r) \/ TasksOff(r) \/ TasksOn(r)
    \/ StopFleet \/ ResumeFleet

Tasks ==
    \/ \E e \in Events : TaskMoves(e) \/ Allow(e)
    \/ \E f \in Fences : MeteredOut(f) \/ BlockChanged(f)
    \/ \E f \in Fences, e \in Events : Answer(f, e) \/ \E starts \in BOOLEAN : TakeInput(f, e, starts)

Sweeps ==
    \/ ExpireGates
    \/ \E f \in Fences : BillExpired(f) \/ ExpireAbandoned(f)
    \/ \E r \in Runners : RecordOffline(r) \/ ReleaseSlots(r) \/ ClearHold(r)

Step ==
    \/ Admit
    \/ \E r \in Runners : Claim(r)
    \/ \E f \in Fences : PassStep(f) \/ RunnerStep(f)
    \/ Tasks
    \/ Operator
    \/ Sweeps

Next == Step \/ Tick \/ \E e \in Events : Withhold(e)

Spec == Init /\ [][Next]_vars

-----------------------------------------------------------------------------
(* What must hold. *)

Statuses == {"none", "active", "reported", "expired"}
GateStates == {"none", "pending", "approved", "denied", "timed_out"}
Counters == {"none", "claimed", "resolved", "recorded", "judged", "refusing",
             "parking", "stopping", "leased", "lost", "done"}

\* Every variable keeps its type; a slot exists once fenced.
TypeOK ==
    /\ now \in Nat \ {0} /\ faults \in Nat /\ fleet \in {"active", "stopped"}
    /\ host \in [Runners -> {"active", "quiet", "offline", "cordoned"}]
    /\ fit \in SUBSET Runners
    /\ task \in [Events -> {"current", "withheld", "stale"}]
    /\ bound \in SUBSET (Continuations \cup Inputs) /\ taken \in SUBSET Inputs /\ answered \in SUBSET Inputs
    /\ admitted \in 0..MaxEvents
    /\ stamp \in [Events -> 0..MaxFence]
    /\ parked \in SUBSET Events
    /\ settled \in SUBSET Events
    /\ event \in [Events -> Terminal \cup {"none", "received"}]
    /\ card \in [Targets -> GateStates]
    /\ cardUntil \in [Targets -> Nat]
    /\ fence \in 0..MaxFence
    /\ holder \in Runners \cup {NoRunner}
    /\ until \in Nat /\ hold \in Nat
    /\ taker \in [Fences -> Runners \cup {NoRunner}]
    /\ work \in [Fences -> 0..MaxEvents]
    /\ resume \in SUBSET Fences
    /\ pc \in [Fences -> Counters]
    /\ status \in [Fences -> Statuses]
    /\ created \in [Fences -> Nat]
    /\ expires \in [Fences -> Nat]
    /\ metered \in [Fences -> Nat]
    /\ ward \in [Fences -> 0..MaxEvents]
    /\ told \in [Fences -> SUBSET {"settled", "repeat", "fenced"}]
    /\ calls \in [Events -> SUBSET Fences]
    /\ session \in 0..MaxEvents
    /\ owed \in SUBSET Events

\* What an active lease still holds: its event stays stamped with its fence, so no
\* later claim of the event leaves it active; the fleet's latest fence holds the
\* slot of an open event; and the fleet goes on past an active lease only for the
\* sake of a task, when the event leased or the one claimed next belongs to one.
\* A claim expires the latest lease of the event it takes and no other, so this
\* rests on which event the claim takes.
ActiveHoldsSlot ==
    \A f \in Fences : status[f] = "active" =>
        /\ stamp[work[f]] = f
        /\ f = fence => work[f] \notin settled /\ event[work[f]] = "received"
        /\ f # fence => {work[f], work[f + 1]} \cap bound # {}

\* No event is leased or refused while an older one still waits, except past
\* events of tasks: these may be overtaken, and nothing else may.
InOrder ==
    /\ \A f \in Fences : status[f] # "none" =>
         (1..(work[f] - 1)) \ bound \subseteq settled
    /\ \A e \in settled : event[e] = "gate_blocked" =>
         (1..(e - 1)) \ bound \subseteq settled

\* An event with an ending has left the queue, whichever of block, report and
\* answer wrote it; and what left without an ending is a continuation whose task
\* moved on before anybody was given it.
SettledIffTerminal ==
    /\ \A e \in Events : event[e] \in Terminal => e \in settled
    /\ \A e \in settled : event[e] \in Terminal \/
         (e \in Continuations /\ task[e] = "stale" /\ PriorLeases(e) = {})

\* The leases that reported an event.
Reporters(e) == {f \in Fences : status[f] = "reported" /\ work[f] = e}

\* An event that ran has exactly one lease that reported it, unless another run
\* answered it first, and an event that was blocked has none: a reclaim and a
\* late report never both settle.
SettledOnce ==
    \A e \in Events :
        /\ \A f, g \in Reporters(e) : f = g
        /\ Reporters(e) # {} => event[e] \in {"processed", "fleet_error"}
        /\ event[e] \in {"processed", "fleet_error"} => Reporters(e) # {} \/ e \in answered

\* The runner can trust its answer: a fenced report never settles, however often
\* it is retried, and one told it settled (or repeated) stays reported.
AnswersStand ==
    \A f \in Fences :
        /\ "fenced" \in told[f] => status[f] # "reported"
        /\ told[f] \cap {"settled", "repeat"} # {} => status[f] = "reported"

\* A parked admission always has an unanswered card that will un-park it,
\* whichever of park and the card's answer commits first.
NeverStranded ==
    \A e \in parked : e \notin settled /\ (Unresolved(e) \/ Unresolved(0))

\* Run time is billed between the lease's start and the deadline it was granted,
\* and no grant passes the hard cap, whichever of renewal, report and sweep bills.
BilledWithinGrant ==
    \A f \in Fences : status[f] # "none" =>
        /\ created[f] <= metered[f]
        /\ metered[f] <= expires[f]
        /\ expires[f] <= created[f] + MaxRuntime

\* A settled run keeps the tool records of the attempt that settled it, and an
\* event keeps at most one attempt's.
RecordsOfSettler ==
    \A e \in Events : \A f \in calls[e] :
        /\ calls[e] = {f}
        /\ Reporters(e) # {} => status[f] = "reported"

\* A lease told to resume a sandbox runs on the host of the fleet's last lease:
\* no other runner has run the fleet since that sandbox was held.
ResumesOwnRun ==
    \A f \in resume : \A g \in 1..(f - 1) :
            status[g] # "none" /\ (\A h \in (g + 1)..(f - 1) : status[h] = "none")
            => taker[g] = taker[f] /\ work[g] # work[f]

\* A pass whose claim was superseded changes no admission, event, slot or lease.
StalePassWritesNothing ==
    [][\A f \in Fences : pc[f] # "none" /\ f < fence /\ pc'[f] # pc[f] =>
         UNCHANGED <<queueVars, slotVars, leaseVars>>]_vars

\* Nothing bills or reopens a lease once its report settled it.
ReportIsFinal ==
    [][\A f \in Fences : status[f] = "reported" =>
         /\ status'[f] = "reported"
         /\ metered'[f] = metered[f] /\ expires'[f] = expires[f]]_vars

\* How each admitted event left the queue, if it did.
Outcome == [e \in Events |-> CASE e \notin settled -> "open"
                               [] e \in settled /\ Reporters(e) # {} -> "ran"
                               [] e \in settled /\ event[e] = "gate_blocked" -> "refused"
                               [] OTHER -> IF e \in answered THEN "answered" ELSE "retired"]

\* Every lease there ever was, and those a report could settle, by their fences
\* and events.
Granted == {<<f, work[f]>> : f \in {g \in Fences : status[g] # "none"}}
LiveLeases == {<<f, work[f]>> : f \in {g \in Fences : status[g] = "active"}}

Promise == INSTANCE FleetQueue WITH
    outcome <- Outcome, granted <- Granted, live <- LiveLeases, context <- session

\* Seen from outside, the lease plane is FleetQueue: whatever crashes, lapses or
\* reports late, each step admits an event, binds one to a task, leases or
\* refuses an event all the older ones let pass, lets a lease lapse, ends an
\* event by the report of the newest lease or that lease's answer, retires a
\* continuation nobody ran, or changes nothing.
ServesInTurn == Promise!Spec

=============================================================================
