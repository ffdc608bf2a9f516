# agentsfleet: a TLA+ development

agentsfleet runs fleets of AI agents. A control plane of `agentsfleetd` daemons
(`src/rustd/crates/afd_*`) keeps everything durable in Postgres, moves short
jobs through Dragonfly, and hands work to runner daemons (`afr_*`) that poll for
it from their own hosts. This directory models the parts of that system whose
correctness rests on the order in which several actors reach the shared rows,
checks them with TLC on small instances, and proves with TLAPS, for instances of
any size, the safety of the lease plane (as the refinement of an abstract queue), the
truth and finality of delivery stamps, the order in which lanes deliver (as the
refinement of an abstract delivery), that a runner's report is never lost, that a
durable task owns the work its state calls for, and that a fleet's backlog stays within its budget.

| file | what it is |
|---|---|
| `FleetLease.tla` | the lease plane of one fleet: admissions, claims, passes, leases, reports, gates, holds, sweeps, and what durable tasks do to the queue |
| `FleetLeaseLive.tla` | its timing and fairness, and its liveness property |
| `FleetQueue.tla` | what `FleetLease` promises: a queue served in turn but past events of tasks, leases in the order of their fences, one ending an event |
| `FleetLease_proofs.tla` | fourteen theorems about `FleetLease`, the refinement among them, proved with TLAPS |
| `Outbound.tla` | the delivery of answers: obligation ledger, stream, lane, poster, producer |
| `Outbound_proofs.tla` | four theorems about `Outbound` |
| `Lanes.tla` | inside one outbound worker: reader, dispatch, lanes, retirement, permits, shutdown |
| `OrderedDelivery.tla` | what `Lanes` promises: each destination gets its entries in order |
| `Lanes_proofs.tla` | seven theorems about `Lanes`, the refinement among them |
| `RunnerHost.tla` | a runner host: workers, fleet turns, the keeper of held sandboxes, shutdown |
| `RunnerHost_proofs.tla` | four theorems about `RunnerHost` and the invariant behind them |
| `ReportSpool.tla` | the runner's report spool: worker, drain, disk, lost answers, restarts |
| `ReportSpool_proofs.tla` | three theorems about `ReportSpool` and the invariant behind them |
| `TaskWaits.tla` | a durable task: runs, reports, waits for a check, people's inputs and controls, limits |
| `TaskWaits_proofs.tla` | four theorems about `TaskWaits` |
| `Admission.tla` | admissions against the two backlog ceilings: fleet lock, sampled estimate, repeated keys |
| `Admission_proofs.tla` | four theorems about `Admission` |
| `MC*.tla` | instances for TLC |
| `*.cfg` | one configuration per run |
| `PROJECT.json` | components, runs, mutants, the definition-to-source map, findings, hazards, theorems |

To check one run: `tlc -config FleetLeaseCrash.cfg MCFleetLease.tla`; to check the
proofs: `tlapm FleetLease_proofs.tla`.

## 1. Inventory

### Modelled

**Admissions ledger** (`afd_admission`, `fleet.admissions`). State: one row per
event with its sequence in the fleet, `lease_fence`, `parked_at`, `settled_at`.
Operations: admit (under a row lock on the fleet, after the replay key and the
backlog ceilings), stamp (a claim), park and un-park, settle. Hard: the sequence
must be the commit order; a parked row is invisible to claims, so whoever parks
it must be sure that somebody will un-park it; a fleet's ceiling is raced for by
callers of every replica, and the deployment's is an estimate in relaxed atomics
that one caller at a time renews while others count onto it. Correct when events
are handed out and settled in order, each exactly once, none is left behind, a
fleet stays within its budget, a repeated key is accepted although it is full, and a
replica's figure neither misses what it read or counted nor refuses for ever.

**Lease plane** (`afd_fleet/src/lease`, `runner.fleet_slots`, `runner.leases`,
`fleet.events`, `fleet.sessions`, `fleet.tool_calls`). One slot row per fleet
carries the fencing token, its expiry, the last runner and a sandbox hold. A
runner's poll claims the slot with the head of the queue in one statement, which
mints a fence, stamps the admission and expires the event's previous lease; the
poll ("pass") then resolves the fleet, opens the event, judges gates, and issues
a lease, parks, refuses, or lets go. The runner renews, sends tool records and
reports; a billing sweep charges what a silent lease ran. Hard: a pass crosses
many awaits with nothing but its fence to protect it; leases lapse and are taken
over while the old run is still talking; commits land without their
acknowledgement; reports are repeated; an event whose durable task cannot run is
passed over, and settled later by a runner, by its task or by another event's run.
Correct when only the holder of the newest fence can be issued, renew or answer, a superseded
pass or run changes nothing, nothing but an event of a task is overtaken, an event
settles once, run time is billed inside its grant, and what a runner was answered
stays true.

**Approval gates** (`afd_gate`, `afd_approval`, `fleet.approval_gates`). A card per
event (or one per fleet, for an integration grant), raised once, answered by a
person or lapsed by a sweep; every resolution un-parks the fleet's admissions.
Hard: the answer may land between the read that said "pending" and the park.

**Runner liveness and holds** (`afd_runner`). Host status, the sweep that records
a quiet host offline and frees its slots, the release of slots of hosts out of
service, sandbox holds kept between events. Hard: the sweep acts on hosts that
may be running, renewing or coming back.

**Outbound delivery** (`afd_outbound`, the outbound stream of `afd_dragonfly`,
`fleet.obligations`). A report owes its answer in its own transaction; the report
path appends it to the stream and receipts it; each daemon's worker reads the
stream into a lane per destination, counts a cycle, posts with retries, stamps,
gives up or hands back, and acknowledges; each daemon's producer re-appends what
was never receipted or never delivered. Hard: Postgres, Dragonfly and Slack share
no transaction, so every await can lose the second half of a step; a retry must
find out whether the first attempt landed; the queue may come back empty.
Correct when a stamp always means a message, an answer is not posted twice by one
daemon that can see the thread, and every owed answer ends.

**Lane dispatch and retirement** (`afd_outbound/src/lanes`, `worker`, the reader of
`afd_dragonfly`). Inside a worker the reader walks what its predecessor left
pending, then new entries, and publishes each to its destination's lane: a task
behind a bounded channel, spawned on demand, delivering serially under a ceiling
all lanes share, retiring when idle. Hard: a lane retires while a dispatch holds
capacity in its channel; shutdown and crash meet every step. Correct when a
destination has one lane, no accepted job is left in a channel nobody reads, and
deliveries end in the stream's order.

**Runner host** (`afr_supervisor`). Workers run leases of several fleets, one at a
time per fleet (a *turn*); a keeper task holds a fleet's sandbox, frozen, between
two of its leases. Hard: workers, report drain, heartbeat and shutdown reach the
keeper by one mailbox in any order, while the daemon decides from its own records
what may be resumed. Correct when a lease resumes exactly the run it was told to,
no late request ends a hold that is still wanted, and no sandbox is lost.

**Report spool** (`afr_supervisor/src/spool`, `settle`, `drainer`). A finished run's
report is written to disk before it is posted and stays until the daemon settled
it. Hard: worker and drain deliver one file without a lock, an older replica
refuses the newer report shape, disk and process fail between any two steps.
Correct when a report leaves the disk only for a final answer, a hold ends only
for a run the daemon did not record, and no report blocks another.

**Durable tasks** (`afd_fleet/src/task`, `fleet.tasks`, `fleet.task_waits`,
`fleet.task_completions`). A task outlives its runs: a report leaves it ready with a
continuation in the ledger, waiting for the checks of its pull request, or ended.
A maintenance pass reads GitHub for the waits; signed completions, people's inputs
and controls, limits and metering move the task too. Hard: report, read and input
are composed against a task that may change before they are bound, and each path
makes the whole transition (state, generation, wait, continuation) on its own.
Correct when a task owns exactly the work its state calls for, a stopped task stays
stopped, no input is left unseen, and a signed completion wakes the task.

### Not modelled (yet, or at all)

| part | state and operations | hard behaviour | plan |
|---|---|---|---|
| Runner capacity and choice (`afd_runner/src/capacity`) | capacity of a host over fleet and authoring leases | optimistic choice, recheck at issue | `RunnerChoice` |
| Gate mirror and card delivery (`afd_gate`) | Dragonfly copy of a decision | the mirror is missing or older than the row | `ApprovalGate` |
| Fleet billing ledger (`afd_billing`) | balances, charges per metered window | windows of successive leases | `Charges` |
| Rest of durable tasks (`afd_fleet/src/task`) | messages interpreted into tasks, effects, checkpoints, decisions | an effect whose outcome is unknown; a decision paid for before it is used | `TaskEffects` |
| Authoring drafts (`afd_authoring`) | attempts leased to runners | a second lease protocol | `AuthoringLease` |
| Schedules (`afd_cron`) | due slots | once per slot over several daemons | `Schedules` |
| Live tail (`afd_sse`) | subscriptions | gaps, slow readers | `LiveTail` |
| Daemon supervisor (`agentsfleetd`) | tasks and tokens | ordered cancellation, bounded joins | `Shutdown` |
| HTTP surfaces, identity, vault, connectors, stores, clients, CLI, console | single rows, parsing, rendering | none that interleaves | none |
| Agent loop, tools, sandbox, providers | a conversation, kernel facilities | a sequential loop; one host | none |

`PROJECT.json` lists every component with its sources, and every hazard at its line.

## 2. FleetLease

### Correspondence

A Postgres transaction or statement is one action; whatever the daemon does
between two awaits is a step of a *pass*, named by the fence its claim minted.
`pc[f]` is the only state a daemon crash loses.

| action | code |
|---|---|
| `Admit` | `admit`: the insert of the next sequence |
| `Claim` (`ClaimHead`) | `claim_admission_head.sql`, with `IsHead`, `Eligible`, `Waits`, `HeldByOther`, `Superseded`, `Resumes`, `KeptHold` its parts |
| `ResolveInstalled`, `RecordReceived`, `Judge`, `AskGrant` | the steps of `Plane::run_claimed` up to delivery |
| `Block`, `Park`, `Issue`, `ClaimLost`, `Stop`, `LetGo` | its endings; `Issuable` is the issue's own look at admission and task, `Deadline` the task's cut of a deadline, `LetGo` is `release_unleased` |
| `IssueUnacknowledged`, `CrashPass`, `LoseRun` | a commit whose acknowledgement is lost; a daemon that dies; a runner that dies or never heard of its lease |
| `Renew`, `KeepRecords`, `Report`, `ReportRefused` | the runner's verbs; `Report` is the whole settling transaction (meter, event, records, checkpoint, slot and hold, obligation) |
| `TaskMoves`, `MeteredOut`, `Withhold`, `Allow`, `BlockChanged` | what makes a task let its admission run or not; `Retire` is `retire_continuations.sql` |
| `TakeInput`, `Answer` (`LiveRun`) | a run reads a message as its input (`task/admit`), and answers it (`input_receipt`) |
| `TasksOff`, `TasksOn` | an operator turns durable tasks off on a host, and on |
| `BillExpired`, `ExpireAbandoned` | one lease of the billing sweep, of the retention sweep |
| `RecordOffline`, `ReleaseSlots`, `ClearHold`, `HostLeaves`, `HostReturns` | liveness sweep, heartbeats, operators |
| `ResolveGate`, `ExpireGates` | a person's answer, the gate sweep; both `Unpark` |
| `StopFleet`, `ResumeFleet`, `Tick` | the fleet's status and the clock |

### Abstractions

- Each SQL statement is one atomic step. `claim_admission_head.sql` reads under a
  snapshot and locks a row; the distance between the two is listed as a hazard
  that no property covers yet.
- A gate check and the raise that follows it are one step (the row insert is
  idempotent on the pending key); the Dragonfly mirror of decisions is left out,
  and a mirror that cannot be read is a `Stop`.
- `Stop` also stands for capacity and ticket refusals and for outages of any kind.
- "cordoned" is any host status but active. A failed claim rolls back and is no
  step. `Claim` asks for an active fleet and host, because the statements that
  change them commute with a claim that finds nothing.
- A task is what its admission meets of it: `current`, `withheld` (no time, money or
  lease is left, for now or for good) or `stale` (its generation moved on, or it ended).
  Each admission has its own, although admissions of one task share a row: every
  combination the shared row allows is among those modelled. What makes a task move is
  `TaskWaits`, where a report settles its own task too; here its step is followed by a
  `TaskMoves` at any later time. Limits are not counted, so a task may stop letting its
  admission run, or let it, at any time.
- A runner's capability report always lists durable tasks; the operator's switch moves.
- Only continuations are retired. A message bound to a task that moved on is skipped
  by claims and leaves the queue when a run answers it.
- Left out: the amounts of money, memory writes, `delivered_at` and the redelivery
  metric, `degraded_reason`, and the path that finishes a redelivery of an event already
  ended, which `SettledIffTerminal` shows to be unreachable.
- The billing windows of two successive leases may overlap after a sweep or an
  unacknowledged issue; nothing is claimed about their sum.
- `Tick` stops when no guard compares the clock with a later instant, so bounded
  time loses no behaviour other than idling.

### Properties

- `ActiveHoldsSlot`: an active lease still has its event's stamp; when it has the newest
  fence its event is open; and the fleet goes on past an active lease only where the event
  leased or the one claimed next is a task's. The stronger claim, one active lease a
  fleet, is false (section 11).
- `InOrder`: no event is leased or refused while an older one waits, but for events of
  tasks, which may be passed over. The filter of the claim (`Eligible`) is per runner, so
  nothing stronger holds: an event one runner may not have is overtaken by its next poll.
- `SettledIffTerminal`: refusal, report and answer each end an event and its admission
  together, and an admission settled without an ending is a continuation that was retired
  before any lease of it.
- `SettledOnce`, `AnswersStand` (what a report was answered stays true),
  `NeverStranded` (a parked admission always has a card that will un-park it),
  `BilledWithinGrant`, `RecordsOfSettler`, `ResumesOwnRun`; as action properties
  `StalePassWritesNothing`, `ReportIsFinal`.
- `ServesInTurn`, the refinement, and `EveryEventEnds`, the liveness property: every
  admitted event leaves the queue unless its task does not let it run, and an event that
  is passed over starves none behind it.

Each has a mutant: a one-line change of a definition, defined
beside it with a comment starting "Mutant", under which its run must fail.

`FleetQueue` is the fleet as whoever admits events and reads outcomes sees it. It has
the outcome of each event (open, ran, refused, answered or retired), the events of tasks,
the fences ever leased, the live leases, the saved context and the answers owed. `Grant`
leases an event all whose elders ended or are of tasks, under a fence above all earlier
ones, while no lease of that event is live; `Refuse` ends one under the same conditions;
`Finish` and `Answer` are the newest lease's, for its own event and for a message;
`Retire` withdraws a continuation never leased; `Bind` starts a task for a message;
`Lapse` ends a lease; `Admit` adds an event. `ServesInTurn` reads these from the rows
(`Outcome` from the settled admissions and their events, `Granted` and `LiveLeases` from
lease rows): a claim is a `Lapse` or unseen, an issue, acknowledged or not, a `Grant`, a
settling report a `Finish`, a refusal that owns its claim a `Refuse`, a retention sweep
a `Lapse`, and every other step (renewals, parking, stale passes, refused reports, limits,
sweeps, crashes, operators) is unseen.

### Fairness

`FleetLeaseLive` assumes that somebody polls (runners poll in a loop), that a
pass runs to its end and a run reports unless a fault intervenes, that the gate
sweep runs, and that a stopped fleet, a departed host or a host's switch for durable
tasks comes back; nothing is assumed of people answering cards or of tasks getting their
limits back. That a task's limits run out is bounded by the faults (`LateWithhold`):
one that always runs out between claim and issue is never leased. The clock passes a busy fleet only as a fault
(`LateTick`): a pass takes milliseconds and a run renews every 5 seconds of a
30-second lease, so a lapse under a live holder is the exception, and the number
of exceptions is the bounded `MaxFaults`. Without that assumption a run that
always lapses just before it reports starves its event, in the code as in the
model.

## 3. Outbound

### Correspondence

| action | code |
|---|---|
| `Owe`, `QueueDelivery`, `Receipt`, `LoseReport` | the report's transaction, then `queue_delivery`'s append and receipt, or their loss |
| `Read` | `Worker::next`: the pending list found at start, then new entries |
| `CountCycle`, `Begin` | `count_cycle`, `Attempt::opening` |
| `Look`, `LookFailed`, `Post`, `TimeOut`, `Rejected` (`Again`) | `dispatch`, the Slack poster and `deliver_with_retry` |
| `LandsLate` (external) | the destination takes a request whose deadline fired |
| `StampDelivered`, `GiveUp`, `Exhausted`, `HandBack`, `Ack` | the arms of `deliver_and_ack` |
| `Scan`, `Requeue`, `RequeueRefused`, `RecordReappended` | the producer's two scans |
| `Stop`, `Exit`, `Crash`, `Start`, `LoseQueue` | shutdown, death, boot, and Dragonfly coming back empty |

`Disturbances` says which kinds of fault a run allows, so that a run asks about
the faults its property is meant to survive.

### Abstractions

One destination, so a daemon has one lane, whose dispatch, permits and
retirement are `Lanes`; interim messages and trims are left out. The producer's age floors are zero: any
step may take arbitrarily long, so the floors only make a race rarer. Counts
saturate where nothing reads further (`cycles` at `MaxCycles`, `posted` at two).
`StreamCap` is a datastore that refuses an append. A post lands before its
deadline, after it or never: one whose deadline fired goes adrift and may land at any
later step, after the retry's look, after the answer was given up on, or after a crash.
`posted` counts what landed in time, `late` the rest; the thread holds both.
`Unroutable` merges two refusals that end alike: a connector id the worker does not
know, which it refuses before any poster is asked, and a known connector no poster serves.

### Properties

`DeliveredWasPosted`, `DeliveredIsFinal`, `PostedOnce`, and `EveryAnswerEnds`: an owed
answer is delivered or given up on, whatever else failed, unless the stream's consumer group
is gone. Since an owed answer stays owed, it is under the obligation again at every instant
at which the group is back: the exception excuses the time without a group and nothing
after it. `producer.rs` and the worker say that an answer outlives its queue;
`OutlivesItsQueue` states it without the exception, and run `lost_queue` refutes it
(section 11).

### Fairness

`Deliver`, `Read`, `Scan`, `Produce`, `Exit` and `Start` of each daemon: its tasks
run, and a daemon that went down is started again. A running one need never
stop, and nothing is assumed of the destination or of the report path.

## 4. Lanes

`Lanes` is one worker's inside; `Outbound` says what a delivery does to ledger and
thread, `Lanes` which entry is delivered when. The hand-over between the two is a
job: `Post` here is a cycle's vendor call there.

| action | code |
|---|---|
| `Resume`, `ResumeEnds`, `ReadNew` | `OutboundReader::read` over the pending list and then over `>`; the `resuming` walk of `Worker::next` |
| `LaneFor` | `lane_for`: find or spawn, under the map entry's guard |
| `Reserve`, `Publish` | capacity in the channel the dispatch found, then the send, under the guard, only if the map still names that channel |
| `TakeNext`, `TakeOrRetire` | the lane's look at its channel, then the second look under the guard that takes or removes the entry |
| `AcquirePermit`, `StopLane` | the shared semaphore against the token |
| `Post`, `Wake`, `Ack` | `deliver_with_retry` with its pauses, then the acknowledgement |
| `Cancel`, `Break`, `Exit`, `Crash`, `Start` | the worker's token, its loop's end (which may drop a read in flight), its drain, death, next process |

`Channels` are names a new lane reuses once nothing refers to them. An entry that
does not decode (`Poison`) is acknowledged by the reader and answered as nothing,
which ends the resume: that is the code (section 11).

`OrderedDelivery` owes each destination a set of entries and settles the least one
that is owed. `DeliversInOrder` maps `owed[d]` to the unsettled entries of `d`, so
it says that the entries of a destination end in the stream's order, across
shutdowns and crashes; a repeat of one that had ended is a stutter. The other
properties are `OneLaneEach`, `NothingStranded` (a job in a channel has a live
lane), `InOrder` (without undecodable entries a theorem), `AckedWasSettled` (nothing is acknowledged undelivered),
`InOnePlace`, and the liveness property `EveryEntryEnds`.

Fairness: every task runs, a vendor call has a deadline, and a worker that went
down is started again: reader, dispatch, lanes, `Break`, `Exit` and `Start` are
weakly fair. The semaphore serves first come first, so `AcquirePermit` is strongly fair.
A lane spawned empty may retire before its first job is published; it does not
win that race for ever, because the dispatch has nothing to wait for, so the steps
that get a permit in the channel and publish are strongly fair too.

## 5. RunnerHost

| action | code |
|---|---|
| `Issue`, `IssueElsewhere`, `Recorded`, `Refused` | the daemon: next lease of a fleet (here or on another host), what a report is answered |
| `GiveUp`, `HasTurn` | `turns`: the queue for a fleet's turn and its release by drop |
| `BuildFresh`, `Refuse`, `RunBare`, `AskHeld`, `Thaw` | how a lease comes by its sandbox (`build`, `hold`, `workspace`) |
| `EndRun`, `Freeze`, `Report` | the end of a lease: turn, freeze and park, post or spool |
| `Drain` | the drain's second post of a spooled report |
| `Take`, `Park`, `Release`, `Discard`, `LetGo`, `Resize` | the keeper's messages and its own reasons |
| `Halt`, `Close`, `Shutdown`, `Finish` | tokens, the heartbeat's close, the host's end |

Abstractions. A sandbox is named after the lease it was built for. `FreezesFirst`:
a freeze settles within a second or fails, so a lease is past it before a later
lease of its fleet has run and freezes in its turn. The host takes leases after its
first heartbeat. `LetGo` and `Resize` reach the keeper directly and not by its mailbox,
which can only make them earlier; the worker count only falls (a larger one ends
no hold). The idle window is "any time". The spool is a set: `ReportSpool` is its inside.

Properties: `ResumesRecorded` (what a lease thaws was last used by the lease the
daemon named), `EndsOnlyStale` (action: no request of another lease of the fleet
ends a hold the daemon counts on), `NothingLeaks` (a sandbox is always in one
place, and destroyed once the host ended), and the liveness property
`StopsClean`; `TypeOK` bounds the holds by the workers. Fairness: the runtime polls every task; leases, the keeper
and the shutdown sequence are weakly fair, signals and the daemon are not.

## 6. ReportSpool

| action | code |
|---|---|
| `Hold` | the spool's write, sync and rename, which may fail before or after the rename |
| `Post`, `Answered`, `Direct` | one post, the daemon's answer or its loss; the post from memory of a report no file backs |
| `Apply`, `Decide`, `Forget`, `Conclude` | `deliver`'s change to the spool, the plain replacement of a report refused for its shape, the removal of the refused copy, the hold's end |
| `Pass`, `Take` | the drain: it reads the directory with the bytes, then posts one by one |
| `Overtake`, `Deploy`, `Restart` | the daemon gives the fleet away, replicas of two releases, a process that dies |

Worker and drain are two *actors* running the same `Deliver`; nothing locks the
file. A report is `full` (with the run's memory) or `plain`. What the daemon does
with a lease's report (`reads`, keeps it `stuck`, `refuses` it) is a case of the
instance. The authoring and decision spools are left out, and so is the push of
the memory itself.

Properties: `WaitsOnDisk`, `EndsUnrecorded` (a hold is ended only for a run the
daemon did not record), `EachIsAnswered` (liveness: reports the daemon keeps
putting off block nobody). `RefusedWaits` is run `forgotten_refusal`. Fairness: the
drain wakes at least every half minute and the runtime polls every task.

## 7. TaskWaits

| action | code |
|---|---|
| `Issue`, `BlockSetup`, `Refuse`, `TakeOther`, `EndOther`, `Lapse` | the fleet's slot as a task meets it: `attach`, `block_changed_task_setup`, a gate's refusal, other work of the fleet, a lease that runs out |
| `Cover` | the receipt of the next inputs (`input_receipt`) |
| `PrepareReport`, `PrepareBlind`, `Report` | `prepare`'s reads of GitHub before the transaction, then `apply` inside it; `Verdicts` and `Judged` are its decision |
| `Pause`, `Cancel`, `Resume`, `Adopt` | `control.rs`, `adoption.rs` |
| `BeginSteer`, `AcceptSteer` | `wake`, composed against the task found, then `accept` under the task's lock |
| `Claim`, `ClaimSuperseded`, `Observe`, `Finish`, `DropProbe`, `LapseClaim` | a wait's read: claimed and charged, made without a lock, bound again; the pass that dies; the claim's time-out |
| `DeliverWebhook`, `Fanout` | the inbox of signed completions and its fan-out, one wait per step |
| `Expire` | `cleanup.rs`: deadline and spent runs |
| `Meter`, `Spend` | `usage_record.sql`, which stops a task as it adds to its usage; the decisions' accounting, which only adds |
| `StartAttempt`, `Complete`, `MoveHead`, `Late`, `Revoke` | GitHub, the deadline, the fleet's grant |

`Moves` is the transition all of them make; a task is fenced by its generation. A wait
is named by the generation it was armed at.

Abstractions. One pull request head, one workflow, one check with attempts. Money,
running time and the deadline are one limit (`within`, `spent`, `late`); due times
and cooldowns may always have passed. `Refuse` stands for the gates that end an
event without the task knowing. A wait's read counter is reduced to "was read
once" and `reads`. Usage may be learnt of at any time after a run began, because a
late or repeated renewal still accounts its requests. The signal of a completion
older than what the wait knows is not counted. Left out: interpretation of a message
into tasks, effects, checkpoints, decisions but for their cost, retention of
completions, several fleets and waits under one completion.

Properties. `OwnsItsWork`: only the current generation of a ready task is queued, a
task waits if and only if its wait is open; what metering stops keeps the work of the
generation before, which its status and generation make harmless. `InputsReach`: a
task that waits or is done has seen every input it accepted; an input that does not
wake a task is bound under the lease of a run that has yet to report. `StoppedStays`
(action): ended tasks do not move, a paused one moves where a person or a limit takes
it. `SignedCompletionWakes` (liveness): whatever read was in flight when it came, a
signed completion ends the wait, unless the wait's last read failed with no signal
after it and no allowance left. `TypeOK` carries the allowances of runs, reads and inputs.

Fairness: `Maintain` only, as one action. A daemon runs its maintenance pass for ever;
nothing is owed by runners, people, GitHub, webhooks or clocks. One weak fairness for
the whole pass is enough because what it can do on its own is bounded: each read is
charged or answers a signal, each completion fans out once.

## 8. Admission

| action | code |
|---|---|
| `Begin`, `Load`, `JudgeAge` (`Due`, `Over`) | `admit` or `prepare`, then `deployment_estimate`: the two loads of `estimate`, then `due` |
| `Claim`, `Query`, `QueryFails`, `Publish` (`Remaining`), `Release` (`Released`) | the winner's sample: `claim`, `backlog`, the three stores of `publish`, the second estimate, the claim's drop |
| `Ask` | `policy::check` finds the key's row and takes no lock |
| `Decide` (`Locked`, `Repeated`, `Full`) | the fleet row's lock, `check_fleet_budget`, `insert_admission.sql` |
| `Commit`, `Count` | `commit` then `admitted` in `admit`; `admitted` then the caller's commit under `stage` (the callers of `Stagers`) |
| `CommitUnheard`, `Cancel`, `Crash` | a commit whose acknowledgement is lost; a caller cancelled or refused by the database; a replica that dies |
| `Settle`, `Tick` | a row leaves the backlog; the age of the figure |

Abstractions. A sample is the set of rows it read, of which the code keeps the number:
that is what lets the figure be compared with the rows it stands for (`countedBy`, the
replicas that counted a row after its commit, is history). An estimate is kept up to the
budget it is compared with (`Capped`). Time is the age of a figure in intervals: 1 is due while refusing, 2 is due
always, and older is no different. No await lies between the clock's read and the claim,
so a caller's age starts with its claim. Relaxed loads and stores of different cells happen
in either order. Lock, budget check and insert are one step: under the lock only a
settlement can come between them, and it only makes room. A key belongs to one fleet.
Left out: the installed policy, payload digests, reply destinations and the wake-up,
which refuse or follow an admission and change no figure.

Properties. `FleetWithinBudget`: whatever callers and replicas race for its last place, a
fleet's backlog never exceeds its budget. `RepeatsAccepted` (action): only a key without a
row is refused, also when the row came while the repeat waited for the lock.
`FigureCovers`: between samples the figure accounts for every row the replica read, or
counted after its commit; it errs only by what siblings admitted, what was committed
unheard, and what was staged across a sample (section 11).
`RefusalClears` (liveness): a replica that refuses while nothing is unsettled stops.
The comments disagree about a repeat at a spent budget: `repeat.rs` says that the budget
refuses before the insert is reached, and that a repeat must then be read elsewhere;
`budget/mod.rs` says that a repeated key is accepted although a budget is full. The SQL
does the second (`fleet_budget.sql` exempts a key that has a row), and so does the model:
`RepeatsAccepted` holds also when `Ask` missed the row (section 11).

Fairness: each caller's steps, some caller of every replica that begins, and the clock.
Requests keep coming, because `RefusalClears` is about the next ones: a figure is only
sampled by an admission, so without any nothing clears and nobody is refused. The bounded
troubles are outages, cancellations, lost acknowledgements and crashes.

## 9. Runs

| run | instance | shows |
|---|---|---|
| `crash` | 2 runners, 2 events, an integration to be granted, 3 claims, 1 fault, holds of 2 ticks; 728,253 states | one settlement, truthful answers, harmless stale passes, safe resumption, billing and records across take-overs, no stranded admission |
| `task_queue` | 1 runner, 3 events (a continuation, a message, a plain one), 2 claims, 3 ticks, no fault; 413,601 states | what an active lease holds, what may be overtaken, how an event may leave the queue, one ending each, the whole as the refinement of `FleetQueue` |
| `live` | 1 runner, 2 events of which the first a continuation, a fleet that needs tasks, 4 claims, 1 fault, 14 ticks; 590,597 states | `EveryEventEnds` |
| `delivery_once` | 1 daemon, 2 answers (one that no poster takes), two faults of thirteen kinds; 3,412,493 states | stamps are true and final, an answer lands once in time whatever lands late |
| `delivery_live` | 1 daemon, 1 answer, two faults of fourteen kinds, loss of queue and group among them; 396,231 states | `EveryAnswerEnds` |
| `lanes` | 5 entries (one pending at start, one that does not decode), 2 destinations, 2 channels one deep, 1 permit, 2 attempts, 1 stop, 1 failed acknowledgement; 165,792 states | one lane each, nothing stranded, every entry ends, order as the refinement |
| `host` | 3 leases of one fleet or one each of two, 2 workers then 1, 1 lapse; 596,242 states | resumption, holds, leaks, shutdown |
| `spool` | 2 leases, one that is stuck or unreadable, 2 faults; 236,490 states | reports stay, holds end only unrecorded, nobody blocks |
| `tasks` | 3 runs, 1 fallback read, 1 input, 1 attempt, 2 readers, 1 trouble of any kind; 400,636 states | work, inputs, stops, allowances, and that a signed completion wakes |
| `admission` | 2 keys of one fleet, both budgets 1, 1 replica, 2 callers of which one stages, 1 trouble; 600,843 states | budget, repeats, figure, `RefusalClears` |
| `lost_queue`, `forgotten_refusal` | as small as the case allows | the disagreements of section 11 |

Why the bounds are enough. The three claims of `crash` reach, in different behaviours, a
claim and its take-over with the older run still talking, a claim of the next event after
either, and the claims a card costs before and after its answer; no behaviour has room
for all of these, which the theorems of section 10 do not need. One fault creates each of
the situations and the clock produces the lapses. `crash` has
the fleet's card and `live` the event's own; that two cards un-park one event without
missing it is a theorem. Two runners cover the holder and the other. `task_queue` leaves
cards, faults and the second runner to `crash`: its two claims are a run (or a pass) of
the continuation or the message and whatever comes past it or after it, at each of whose
steps the task may move; the plain event is the one that must never be overtaken. Bound,
skipped and answered messages meet cards and crashes in the theorems. `TTL` 1 with `MaxRuntime` 2
makes the renewal meet the cap; `Grace` is zero so that the billing sweep races
everything. A clock or a supply of claims too small for the live run would fail
it, because a bound that disables the step an event waits for leaves it waiting
for ever. In `Outbound`, two cycles and two attempts tell the first from the repeat
and the last; one unread entry of room makes the stream refuse. One daemon with its
predecessor's entries has a stale entry race a delivery; that several daemons
keep stamps true and final is a theorem, for any number of them. In `Lanes`, three entries of one destination
fill its channel behind the one being delivered, and the other destination's wait
behind them or overtake; one permit makes lanes compete. In `RunnerHost`, three
leases of a fleet are an old hold, its replacement and the lease that resumes;
one lapse makes the daemon and the host disagree; falling to one worker meets a
full keeper. In `ReportSpool`, two faults combine any two of a lost answer, a failed
write, a deploy, a death. In `TaskWaits`, three runs are a first run, a wake and one more
that finds the allowance spent; five generations are a wait, a wake and a wait again;
two readers let a read outlive its claim and meet the next; one trouble of any kind
at every step is what the state space allows beside the liveness property, and the
theorems of section 10 cover any number. In `Admission`, two callers are all the races
have parts for (a sampler and one who counts, two for a last place, a first admission
and its repeat): one asks for either key, the other for one of them; siblings share only
the rows and the lock, and the theorems cover any number of them. `SYMMETRY` is used in safety runs only.
`CHECK_DEADLOCK FALSE` is set where a system may end: the lease runs by their bounds
on clock, claims and events, the others because everything was delivered, posted
or shut down.

Real values, for comparison: lease 30 s, renewal every 5 s, `MAX_RUNTIME` 12 h,
hold 10 min, offline after 90 s, billing grace 120 s; three attempts a cycle,
twelve cycles, lanes of 32, 8 deliveries in flight, a producer pass every 30 s.

## 10. Proofs

Each proof module assumes only the named assumption its model states about its constants.

`FleetLease_proofs` (`LeaseAssumption`: naturals, `TTL` positive and at most
`MaxRuntime`, `NoRunner` no runner) proves

| theorem | property |
|---|---|
| `TypeCorrect` | `TypeOK` (proved only; no run repeats it) |
| `LiveHolder`, `FleetOrder`, `QueueMatchesLedger` | `ActiveHoldsSlot`, `InOrder`, `SettledIffTerminal` |
| `ExactlyOnce`, `ReportsTrustworthy`, `SettlerKeepsRecords` | `SettledOnce`, `AnswersStand`, `RecordsOfSettler` |
| `NothingStranded`, `BillingSound`, `ResumesSafely` | `NeverStranded`, `BilledWithinGrant`, `ResumesOwnRun` |
| `StalePassHarmless`, `SettledIsFinal` | `StalePassWritesNothing`, `ReportIsFinal` |
| `ContextMovesForward` | `ContextNeverRewinds` (proved only) |
| `ImplementsQueue` | `ServesInTurn`, the refinement of `FleetQueue` |

The argument is a stack of inductive invariants, each used by the next:

1. `Typed`: types, and every minted fence names an event and a runner.
2. `Queue`: `ActiveHoldsSlot`, `InOrder` and `SettledIffTerminal` together with
   what makes them inductive: fences above the slot's own are unused (`Minted`), an
   event's stamp is the last fence claimed for it (`Stamped`), what is older than a claimed
   event is settled or a task's (`Behind`), and a pass on the current fence has no lease
   and still has its stamp (`Owned`). `Behind` is where the claim's filter enters: a runner
   that may be given anything is refused only events of tasks (`Eligible`). An active lease of
   an older fence keeps its stamp because a claim of its event would have expired it;
   its report still finds a newer fence in the slot and settles nothing.
3. On top of `Queue`, independently: `Endings` (who settled and what reports were
   told), `NeverStranded`, `Billing` (grants never pass the cap), `Checkpointed` (what is
   older than the checkpoint has ended or is a task's) and `Resuming` (a live hold is of
   the runner that ran last).
4. The action properties follow from these one step at a time. `ContextNeverRewinds` says
   that the checkpoint moves back to no event but one that was passed over for its task.
5. The refinement needs `Queue` and that a claim names an admitted event (`Known`). Then
   an unsettled claim's event may have its turn (`ClaimWaits`), no lease of it is live before
   its issue (`NoLiveLease`), a run that may answer has the newest lease (`CurrentIsNewest`),
   and each action has its abstract step: `ClaimLapses`, `IssueGrants`, `BlockRefuses`,
   `ReportFinishes`, `RetireServes`, `AbandonLapses`, `TakeInputBinds`, `AnswerServes`; the
   rest is `Unseen`.

`Outbound_proofs` (`OutboundAssumption`) proves `EntriesAreOwed`
(`TypeOK`, whose content is that every entry of the stream, a lane, a pending list
or a producer's scan is of a row the report owed), `StampsAreTrue`
(`DeliveredWasPosted`) and `StampsAreFinal` (`DeliveredIsFinal`), for any number
of daemons, answers, faults, cycles and attempts, and `PostsOnce` (`PostedOnce`)
under `OneSure`: one daemon, no count and no look that fails, and two cycles or more,
which `producer.rs:93` asserts of the build. Types are inductive once a
cycle in hand is known to have a lane's head and attempts left; the stamp is true
because a cycle reaches "delivered" only by finding or posting the message
(`Found`), messages stay, and the lane's head does not move under a cycle. An
answer lands once because whatever is in the thread or on its way there was counted
(`Counted`, `InHand`), a count of one opens the only cycle that posts without
looking, and what is about to be posted has not been posted in time (`Clear`). Late
requests disturb none of the three: a look may miss one, and it then lands beside
the one post that look allows.

`Lanes_proofs` (`LanesAssumption`) proves, for any number of entries, destinations,
channels, permits, stops and faults: `TypeCorrect`, `OneLane`, `NoneStranded`,
`AckedSettled`, `OnePlace`, and, when every entry decodes (`Poison = {}`, without
which section 11 has the counterexample), `EndsInOrder` and `ImplementsOrdered`. Three
layers: `Shape` ties the map, the channels and their lanes together (a live
lane is the one its destination names; a channel in a dispatch's hand is that
lane's or dead), `Line` says where every pending entry is and that it is there
once, and `Order` that along a destination (settled, lane's job, channel, hand,
what the reader has yet to read) entries only increase. The refinement then is one step
per action: only `Post` moves `owed`, and `Order` makes the entry it settles the
least one owed.

`ReportSpool_proofs` (`SpoolAssumption`) proves `TypeCorrect`, `NoReportLost`
(`WaitsOnDisk`) and `HoldsEndUnrecorded` (`EndsUnrecorded`). The invariant behind both is
`Knows`: an actor holding an answer knows something that stays true, because the
daemon's word is final (recorded and overtaken do not change), so acting on it late,
after the other actor or a restart, does no harm.

`TaskWaits_proofs` (`WaitsAssumption`) proves `TypeCorrect`, `WorkOwned`
(`OwnsItsWork`), `InputsSeen` (`InputsReach`) and `StaysStopped`. `MovesSound` is the
transition, once, over any ledger with nothing for generations to come; the actions
that make it then differ in what they saw before. The invariant says what that is
still worth: a report that is not stale was prepared in its task's generation
(`Ahead`, `Runs`), a read counts for no more signals than the open wait it is for has
(`Behind`), and an input bound while the task waits was begun while it did (`Knows`),
which is why it wakes the task instead of being left.

`RunnerHost_proofs` (`HostAssumption`: lease ids are positive naturals, the other
lease and no lease are none of them) proves `Typed` (`TypeOK`), `ResumesTheRecorded`
(`ResumesRecorded`), `LateRequestsEndOnlyStale` (`EndsOnlyStale`) and
`NothingIsLeaked` (`NothingLeaks`), for any number of leases, fleets, workers and
lapses. The argument is about order. `Issued` and `Lines`: a fleet's leases are issued
and take their turns in one order. `Ordered`: once a lease has its turn the earlier ones
ended theirs, and once it parks they are past their freeze. `Mailed`: the mailbox is
first in, first out, so what a lease asks in its turn reaches the keeper before any
later lease of its fleet has parked; hence a hold is of the last lease that parked
(`Holding`), the lease to resume is the one before (`Resumes`), and a take, release
or park that reaches the keeper is of a later lease than every one it could end. A
supersede names its own lease, which the daemon refused for good (`Refusals`). What is
in one place stays in one (`Placed`): each step that takes a sandbox out of a hand,
the mailbox or the keeper puts it in exactly one other place. `Closing` says that
nobody is left to send a sandbox once the keeper is told to finish.

`Admission_proofs` (`AdmissionAssumption`: finitely many keys, a caller runs in a
replica, budgets positive, a sampling interval within the deployment's budget) proves
`Typed` (`TypeOK`: no publish takes a count below zero), `WithinBudget`
(`FleetWithinBudget`), `RepeatsStand` (`RepeatsAccepted`) and `FigureSound`
(`FigureCovers`), for any number of keys, fleets, replicas, callers and troubles and both
kinds of admission. The budget rests on the lock: one open transaction a fleet
(`Serial`), whose holder found room and no row of its key (`Room`); a commit then adds one
row where one was missing. Most steps are `Quiet` (commit nothing, open nothing), which is
shown to be enough once. The figure rests on the claim: one sampler a replica
(`Exclusive`), and what it will take off was counted before it read, so that the rows it
counted but did not read never outnumber what will be left (`Reading`), between its
stores too; no row is noted as counted before it is committed (`Committed`).

Only model-checked: liveness (`EveryEventEnds`, `EveryAnswerEnds`, `EveryEntryEnds`,
`StopsClean`, `EachIsAnswered`, `SignedCompletionWakes`, `RefusalClears`), which rests on fairness and is outside the prover.

## 11. Where code and its documents disagree

Two are runs that must fail; `PROJECT.json` quotes the lines.

- `lost_queue`: when Dragonfly comes back empty under a running worker, the producer appends
  the answer again but nobody makes the consumer group until a process starts, so nothing
  reads it. `producer.rs:24` says that its scan "is what makes losing Dragonfly cost latency
  rather than answers", `worker/mod.rs:157` that "the producer re-offers it whatever the group did".
- `forgotten_refusal`: when the plain copy of a refused report is refused too, it
  is moved aside over the first and then forgotten: nothing waits for an operator.

Met while modelling, without a run of their own:

- Two leases of a fleet may be active: a claim expires the latest lease of the event it
  stamps and of no other (`claim_admission_head.sql:77`), so a run of a task that lapsed and
  whose task then let it be passed over keeps its row active beside the next event's, until its
  event is claimed again or the retention sweep finds it. `data_flow.md:733` says "at most
  one lease is active per fleet at any time", `durable_tasks.md:37` "at most one active lease
  per fleet", and `saturation/invariants.rs:9` of `afd_bench` counts "fleets holding more than
  one active lease" as a defect. The fence keeps the first run from settling anything.
- A repeat at a spent fleet budget is accepted (`fleet_budget.sql:10`, and `budget/mod.rs:104`
  says so), while `repeat.rs:5` says "A spent fleet budget or the caller's own check refuses
  before the insert is reached".
- A pending entry that does not decode is acknowledged and answered as nothing, which the
  worker takes for the end of the resume: newer entries of a destination overtake those left
  behind it, which `lanes/mod.rs:17` ("leave in the order they were queued") and
  `worker/mod.rs:8` deny.
- A 200 whose body is lost reads as a permanent refusal of a message the destination
  took (`slack/mod.rs:225`), and the answer is abandoned as refused, which
  `obligation/outcome.rs:28` describes as "The destination refused it".

- The liveness sweep frees the slots of every host that is not active, cordoned
  ones included, so another host takes over a run that "may finish".
- A cycle whose count failed posts anyway; the next one counts one, opens as
  "nothing was tried before", and posts without looking. A duplicate entry of
  an answer already delivered is run, and posted again when the thread cannot be
  read. `PostedOnce` is therefore checked without those two faults.
- A retry's pause checks its token only before it sleeps, so one attempt can
  start after the cancellation.
- A refused report whose plain replacement could not be spooled, or whose drain
  dies between moving it aside and spooling, is left only in memory.
- A continuation ended by a money gate or an unreadable configuration
  (`pull/refuse.rs:106`, `lease/event.rs:253`) leaves its task ready or running with
  nothing queued. Resume does nothing for it, and an input is added without waking it
  (`task/admit/input.rs:53`), so it waits for a pause and a resume or for its deadline,
  though `task/lease.rs:130` says of the setup refusal beside it that it "blocks the old
  task instead of stranding a Ready owner".
- A task stopped by metering keeps its open wait and its queued continuation
  (`usage_record.sql` makes the transition without the two clean-ups). Reads and claims
  check state and generation, so neither is acted on, and neither is settled.
- An issued continuation whose task changed generation and whose runner died is neither
  claimed again (`claim_admission_head.sql:44`) nor retired; `EveryEventEnds` excuses it, and
  its lease row is the active one of the first item.
- A wait's first read is spent when it is claimed and a failed read observes its signal,
  so with no fallback read left a task may wait for its deadline although its check
  is over and GitHub said so.
- `estimate` is two loads and `publish` three stores, all relaxed: a caller that loads
  between them may add the old sample to the new count and be admitted on less than either
  figure. The publishing caller and everybody after it see both.
- `stage` counts an admission before its transaction commits (`stage/mod.rs:62`, "Counting
  here keeps concurrent staged inserts from undercounting capacity"): a sample claimed
  after the count whose query runs before the commit takes the count off without having
  read the row, and the figure misses it until the next sample.
- A commit whose acknowledgement is lost is counted by nobody until the next sample.

## 12. Plan

1. The claim of `FleetLease` split into snapshot and lock, as a finer step of it
   (hazard `claim_admission_head.sql:74`).
2. `RunnerChoice` (optimistic capacity over two placement domains;
   `capacity/mod.rs:81`), `ApprovalGate` (the mirror; `pass.rs:132`).
3. `TaskEffects` (effects and their reconciliation, checkpoints, decisions), `AuthoringLease`, `Schedules`, `Charges`, `LiveTail`, `Shutdown`.
