------------------------------ MODULE TaskWaits ------------------------------
(***************************************************************************)
(* One durable task and its wait for a check of its pull request.  A run   *)
(* holds the fleet's slot; its report leaves the task ready, with one      *)
(* continuation in the ledger, or waiting, with one wait that maintenance  *)
(* reads on behalf of.  Signed completions, reads with their claims,       *)
(* people's inputs and controls, limits and other work of the fleet meet   *)
(* the task in any order; its generation fences what is late.              *)
(*                                                                         *)
(* Abstracted: one head, one workflow, one check of it by attempts; money, *)
(* running time and the deadline are one limit; due times and cooldowns    *)
(* may always have passed; effects, checkpoints and decisions are left     *)
(* out.  A wait is named by the generation it was armed at.                *)
(***************************************************************************)
EXTENDS Naturals, FiniteSets

CONSTANTS
    Readers,      \* bound: reads in flight
    MaxGen,       \* bound: generations in which the task may run
    MaxLeases,    \* runs a task may have
    MaxReads,     \* fallback reads a task may have
    MaxInputs,    \* bound: inputs people add
    MaxAttempts,  \* bound: attempts of the check
    MaxTroubles   \* bound: refusals, controls, lost reads, ends of authority or limits

ASSUME WaitsAssumption ==
    /\ Readers \in Nat \ {0} /\ MaxGen \in Nat \ {0, 1, 2}
    /\ {MaxLeases, MaxReads, MaxInputs, MaxAttempts, MaxTroubles} \subseteq Nat

VARIABLES
    status, gen,          \* fleet.tasks: its state and generation
    used, reads,          \* fleet.tasks: leases and fallback reads used
    inputs, covered,      \* fleet.tasks: inputs accepted, and reached by a run
    adm,                  \* generation -> its continuation in fleet.admissions
    slot,                 \* the fleet's slot: its work, the generation it runs, whether it is live
    plan,                 \* the report being prepared by the slot's run
    steer,                \* the input being bound by the slot's work
    wait,                 \* the latest of fleet.task_waits
    probes,               \* reads of the check in flight
    check, moved,         \* GitHub: the check's attempt, and whether the head moved
    retained, ended,      \* fleet.task_completions, and those fanned out
    cursor,               \* completion -> the last wait its fan-out met
    limit, revoked,       \* the task's limits, the fleet's grant
    troubles              \* how many troubles happened

taskVars == <<status, gen, used, inputs, covered, adm>>
runVars == <<slot, plan, steer>>
waitVars == <<reads, wait, probes>>
hookVars == <<retained, ended, cursor>>
worldVars == <<check, moved, limit, revoked>>
vars == <<taskVars, runVars, waitVars, hookVars, worldVars, troubles>>

Terminal == {"done", "cancelled", "exhausted"}
States == {"ready", "running", "waiting", "blocked", "paused"} \cup Terminal
Gens == 1..(MaxGen + 2)
Attempts == 1..MaxAttempts
Claims == 1..Readers
Snapshots == [att : 0..MaxAttempts, done : BOOLEAN]

Free == [work |-> "none", gen |-> 0, live |-> FALSE]
NoPlan == [ask |-> "none", seen |-> [att |-> 0, done |-> FALSE], moved |-> FALSE, covered |-> 0]
Unverified == [NoPlan EXCEPT !.ask = "unverified"]
NoSteer == [wake |-> 0, live |-> FALSE, open |-> FALSE]
NoWait == [gen |-> 0, open |-> FALSE, read |-> FALSE, sig |-> 0, obs |-> 0, missed |-> FALSE,
           base |-> [att |-> 0, done |-> FALSE], valid |-> FALSE, claim |-> 0]

Init ==
    /\ status = "ready" /\ gen = 1 /\ used = 0 /\ reads = 0 /\ inputs = 0 /\ covered = 0
    /\ adm = [g \in Gens |-> IF g = 1 THEN "queued" ELSE "none"]
    /\ slot = Free /\ plan = NoPlan /\ steer = NoSteer /\ wait = NoWait /\ probes = {}
    /\ check = [att |-> 0, done |-> FALSE] /\ moved = FALSE
    /\ retained = {} /\ ended = {} /\ cursor = [a \in Attempts |-> 0]
    /\ limit = "within" /\ revoked = FALSE /\ troubles = 0

Trouble == troubles < MaxTroubles /\ troubles' = troubles + 1
Fine == UNCHANGED troubles

CanResume == limit = "within" /\ used < MaxLeases

-----------------------------------------------------------------------------
(* A transition of the task. *)

\* Mutant: continuations of earlier generations stay queued.
RetiredNever(a) == a

\* Continuations never issued that the new generation makes obsolete.
Retired(a) == [g \in Gens |-> IF a[g] = "queued" THEN "settled" ELSE a[g]]

\* Nothing of a closed wait is read again but its name.
Cancelled(w) == [NoWait EXCEPT !.gen = w.gen]

\* The transition every path makes: the state, the next generation, the wait it leaves, and
\* a continuation of its own for a task made ready, over the ledger it found.
Moves(state, ledger, next) ==
    /\ status' = state /\ gen' = gen + 1 /\ wait' = next
    /\ adm' = [Retired(ledger) EXCEPT ![gen + 1] = IF state = "ready" THEN "queued" ELSE @]

Becomes(state) == Moves(state, adm, Cancelled(wait))

-----------------------------------------------------------------------------
(* The fleet's slot. *)

\* A pass takes the slot once its lease is over; what the former holder still does is fenced.
Takes(work, g) ==
    /\ ~slot.live
    /\ slot' = [work |-> work, gen |-> g, live |-> work # "none"]
    /\ plan' = NoPlan /\ steer' = [steer EXCEPT !.live = FALSE]

\* The head of the queue may be this task's continuation.
Claimable == /\ adm[gen] \in {"queued", "leased"}
             /\ status \in {"ready", "running"} /\ CanResume

Issue ==
    /\ Claimable /\ Takes("task", gen)
    /\ status' = "running" /\ used' = used + 1 /\ adm' = [adm EXCEPT ![gen] = "leased"]
    /\ Fine /\ UNCHANGED <<gen, inputs, covered, waitVars, hookVars, worldVars>>

\* A money or configuration gate ends the event the pass claimed.
Refuse ==
    /\ Trouble /\ Claimable /\ Takes("none", 0)
    /\ adm' = [adm EXCEPT ![gen] = "refused"]
    /\ UNCHANGED <<status, gen, used, inputs, covered, waitVars, hookVars, worldVars>>

\* The fleet's setup changed under the task's accepted one.
BlockSetup ==
    /\ Trouble /\ Claimable /\ Takes("none", 0)
    /\ Becomes("blocked")
    /\ UNCHANGED <<used, reads, inputs, covered, probes, hookVars, worldVars>>

\* Other work of the fleet, which may bind inputs to this task.
TakeOther ==
    /\ Takes("other", 0)
    /\ Fine /\ UNCHANGED <<taskVars, waitVars, hookVars, worldVars>>

EndOther ==
    /\ slot.work = "other" /\ slot' = Free /\ steer' = [steer EXCEPT !.live = FALSE]
    /\ Fine /\ UNCHANGED <<plan, taskVars, waitVars, hookVars, worldVars>>

\* The run is the one its task is in.
Attached == slot.work = "task" /\ slot.live /\ slot.gen = gen /\ status = "running"

\* The holder's lease runs out: its runner died, or may not renew as its task went on.
Lapse ==
    /\ slot.live /\ slot' = [slot EXCEPT !.live = FALSE] /\ steer' = [steer EXCEPT !.live = FALSE]
    /\ IF slot.work = "task" /\ ~Attached THEN Fine ELSE Trouble
    /\ UNCHANGED <<plan, taskVars, waitVars, hookVars, worldVars>>

-----------------------------------------------------------------------------
(* A run and its report. *)

\* The run reaches the next accepted input.
Cover ==
    /\ Attached /\ plan = NoPlan /\ limit = "within" /\ covered < inputs
    /\ covered' = covered + 1
    /\ Fine /\ UNCHANGED <<status, gen, used, inputs, adm, runVars, waitVars, hookVars, worldVars>>

Asks == {"continue", "waiting", "complete", "blocked"}

\* Bound: the generations a report that goes on leaves room for.
Room(ask) == \/ ask \in {"complete", "blocked"}
             \/ ask = "continue" /\ gen < MaxGen
             \/ ask = "waiting" /\ gen + 1 < MaxGen

\* The report's evidence, read before its transaction; without it the report is unverified.
PrepareReport(ask) ==
    /\ slot.work = "task" /\ plan = NoPlan /\ Room(ask)
    /\ plan' = IF ~(Attached /\ limit = "within") THEN Unverified
               ELSE IF ask \in {"waiting", "complete"}
               THEN [ask |-> ask, seen |-> check, moved |-> moved, covered |-> covered]
               ELSE [NoPlan EXCEPT !.ask = ask, !.covered = covered]
    /\ Fine /\ UNCHANGED <<slot, steer, taskVars, waitVars, hookVars, worldVars>>

\* The read for the report failed, or its runner left the task part out.
PrepareBlind ==
    /\ slot.work = "task" /\ plan = NoPlan
    /\ plan' = Unverified
    /\ Trouble /\ UNCHANGED <<slot, steer, taskVars, waitVars, hookVars, worldVars>>

\* Mutant: any report of a run speaks for the task.
StaleNever == FALSE

\* The task changed while its run was finishing.
Stale == slot.gen # gen \/ status # "running"

Matches == plan.covered = covered /\ inputs = covered

\* The wait a report arms: it has not been read, and nothing signalled it.
Armed(seen) == [NoWait EXCEPT !.gen = gen + 1, !.open = TRUE, !.base = seen]

\* What a report whose evidence stands asks for; the check may have failed.
Judged ==
    CASE plan.ask = "continue" -> {"ready"}
      [] plan.ask = "blocked"  -> {"blocked"}
      [] plan.ask = "complete" -> {"blocked"} \cup (IF plan.seen.done /\ ~plan.moved THEN {"done"} ELSE {})
      [] plan.ask = "waiting"  -> {IF plan.moved THEN "blocked" ELSE IF plan.seen.done THEN "ready" ELSE "waiting"}

\* What the report makes of a current task.
Verdicts ==
    IF plan.ask = "unverified" THEN {"blocked"}
    ELSE IF limit # "within" THEN {"exhausted"}
    ELSE IF ~Matches THEN {"blocked"}
    ELSE IF plan.ask \in {"continue", "waiting"} /\ used >= MaxLeases THEN {"exhausted"}
    ELSE IF revoked THEN {"blocked"} ELSE Judged

\* The report's transaction: it ends the event and frees the slot whatever it says of the task.
Report ==
    /\ plan.ask # "none"
    /\ slot' = Free /\ plan' = NoPlan /\ steer' = [steer EXCEPT !.live = FALSE]
    /\ LET ledger == [adm EXCEPT ![slot.gen] = "settled"] IN
       \/ /\ Stale
          /\ adm' = ledger /\ Fine /\ UNCHANGED <<status, gen, wait>>
       \/ /\ ~Stale
          /\ \E state \in Verdicts :
              \/ Moves(state, ledger, IF state = "waiting" THEN Armed(plan.seen) ELSE Cancelled(wait)) /\ Fine
              \* the ledger has no room for the continuation
              \/ state = "ready" /\ Moves("blocked", ledger, Cancelled(wait)) /\ Trouble
    /\ UNCHANGED <<used, reads, inputs, covered, probes, hookVars, worldVars>>

-----------------------------------------------------------------------------
(* People: controls, a new goal, inputs bound by whatever run the fleet has. *)

Person == /\ status \notin Terminal
          /\ UNCHANGED <<used, inputs, covered, runVars, reads, probes, hookVars, worldVars>>

Pause == Person /\ Trouble /\ status # "paused" /\ gen <= MaxGen /\ Becomes("paused")

Cancel == Person /\ Trouble /\ Becomes("cancelled")

Resume == Person /\ Fine /\ status \in {"paused", "blocked"} /\ CanResume /\ gen < MaxGen /\ Becomes("ready")

\* A stopped task takes the new goal where it stands.
Adopt ==
    /\ Person /\ Trouble
    /\ \/ status \in {"ready", "running", "waiting"} /\ CanResume /\ gen < MaxGen /\ Becomes("ready")
       \/ status \in {"paused", "blocked"} /\ gen <= MaxGen /\ Becomes(status)

\* An input's reply is composed against the task as it was: it wakes a task found stopped
\* with nothing queued.
BeginSteer ==
    /\ slot.live /\ ~steer.open /\ inputs < MaxInputs
    /\ LET wakes == status \in {"waiting", "blocked"} /\ adm[gen] \notin {"queued", "leased"} IN
       /\ wakes => gen < MaxGen
       /\ steer' = [open |-> TRUE, live |-> TRUE, wake |-> IF wakes THEN gen ELSE 0]
    /\ Fine /\ UNCHANGED <<slot, plan, taskVars, waitVars, hookVars, worldVars>>

\* Mutant: an input is bound although the run that began it is over.
BoundUnheld == TRUE

\* The run that binds the input still holds the slot.
Bound == steer.live

Accepts ==
    /\ Bound /\ status \notin Terminal
    /\ steer.wake # 0 => steer.wake = gen /\ status \in {"waiting", "blocked"} /\ CanResume

AcceptSteer ==
    /\ steer.open /\ steer' = NoSteer
    /\ IF Accepts
       THEN inputs' = inputs + 1 /\ IF steer.wake # 0 THEN Becomes("ready") ELSE UNCHANGED <<status, gen, adm, wait>>
       ELSE UNCHANGED <<status, gen, adm, wait, inputs>>
    /\ Fine /\ UNCHANGED <<used, covered, slot, plan, reads, probes, hookVars, worldVars>>

-----------------------------------------------------------------------------
(* The maintenance pass: reads on behalf of the wait. *)

Signalled == wait.sig > wait.obs
Fallback == wait.read /\ ~Signalled

\* The task still waits for it.
Current == wait.open /\ status = "waiting" /\ wait.gen = gen

\* Mutant: the allowance is not looked at.
MayReadAny == TRUE

MayRead == Fallback => reads < MaxReads

\* A name no read in flight has.
NewClaim == {c \in Claims : /\ \A p \in probes : p.claim # c
                           /\ \A d \in 1..(c - 1) : \E p \in probes : p.claim = d}

\* The wait is taken before the network is touched; a wait out of limits or out of
\* authority stops the task.
Claim ==
    /\ Current /\ (MayRead \/ limit = "late")
    /\ \/ ~CanResume /\ Becomes("exhausted") /\ UNCHANGED <<reads, probes>>
       \/ /\ CanResume /\ ~wait.valid /\ MayRead
          /\ \/ revoked /\ Becomes("blocked") /\ UNCHANGED <<reads, probes>>
             \/ /\ ~revoked
                /\ reads' = (IF Fallback THEN reads + 1 ELSE reads)
                /\ \E c \in NewClaim :
                      /\ wait' = [wait EXCEPT !.read = TRUE, !.valid = TRUE, !.claim = c, !.missed = FALSE]
                      /\ probes' = probes \cup {[wait |-> wait.gen, claim |-> c, sig |-> wait.sig,
                                                 got |-> "none", seen |-> wait.base]}
                /\ UNCHANGED <<status, gen, adm>>
    /\ Fine /\ UNCHANGED <<used, inputs, covered, runVars, hookVars, worldVars>>

\* A wait found due is cancelled if its task stopped before its turn came.
ClaimSuperseded ==
    /\ wait.open /\ ~Current /\ wait' = Cancelled(wait)
    /\ Fine /\ UNCHANGED <<taskVars, runVars, reads, probes, hookVars, worldVars>>

Reads(p, got, seen) == probes' = (probes \ {p}) \cup {[p EXCEPT !.got = got, !.seen = seen]}

\* The read answers with the check as it is, or fails.
Observe(p) ==
    /\ p.got = "none"
    /\ \/ moved /\ Reads(p, "moved", p.seen) /\ Fine
       \/ ~moved /\ Reads(p, "check", check) /\ Fine
       \/ Reads(p, "error", p.seen) /\ Trouble
    /\ UNCHANGED <<taskVars, runVars, reads, wait, hookVars, worldVars>>

\* Mutant: the read counts for every signal that came while it ran.
MarksAll(p) == wait.sig

\* The signals a read counts for: those there when it was claimed.
Marks(p) == p.sig

Actionable(p) == p.got = "check" /\ p.seen.done /\ p.seen # wait.base

\* Nothing to wake for: the wait goes on.
Update(p) ==
    /\ wait' = [wait EXCEPT !.obs = Marks(p), !.valid = FALSE,
                            !.base = IF p.got = "check" THEN p.seen ELSE @,
                            !.missed = p.got = "error" /\ wait.sig = p.sig]
    /\ UNCHANGED <<status, gen, adm>>

\* The claim is checked again under the task's lock.
Ours(p) == Current /\ wait.gen = p.wait /\ wait.valid /\ wait.claim = p.claim

Finish(p) ==
    /\ p.got # "none" /\ probes' = probes \ {p}
    /\ \/ ~Ours(p) /\ Fine /\ UNCHANGED <<status, gen, adm, wait>>
       \/ /\ Ours(p)
          /\ \/ ~CanResume /\ Becomes("exhausted") /\ Fine
             \/ CanResume /\ (revoked \/ p.got = "moved") /\ Becomes("blocked") /\ Fine
             \/ CanResume /\ ~revoked /\ Actionable(p) /\ Becomes("ready") /\ Fine
             \/ CanResume /\ ~revoked /\ Actionable(p) /\ Becomes("blocked") /\ Trouble
             \/ CanResume /\ ~revoked /\ p.got # "moved" /\ ~Actionable(p) /\ Update(p) /\ Fine
    /\ UNCHANGED <<used, inputs, covered, runVars, reads, hookVars, worldVars>>

\* The pass dies with its reads.
DropProbe(p) ==
    /\ Trouble /\ probes' = probes \ {p}
    /\ UNCHANGED <<taskVars, runVars, reads, wait, hookVars, worldVars>>

\* A claim times out; its read was spent, unless a signal is still to be read for.
LapseClaim ==
    /\ Current /\ wait.valid
    /\ IF \E p \in probes : Ours(p) THEN Trouble ELSE Fine
    /\ wait' = [wait EXCEPT !.valid = FALSE, !.missed = ~Signalled]
    /\ UNCHANGED <<taskVars, runVars, reads, probes, hookVars, worldVars>>

-----------------------------------------------------------------------------
(* Signed completions and the limits. *)

Completed(a) == a < check.att \/ (a = check.att /\ check.done)

\* A delivery may come late, twice or never; it is retained once, for a live task.
DeliverWebhook(a) ==
    /\ Completed(a) /\ a \notin retained /\ status \notin Terminal
    /\ retained' = retained \cup {a}
    /\ Fine /\ UNCHANGED <<ended, cursor, taskVars, runVars, waitVars, worldVars>>

\* One wait per step; a completion older than what the wait knows does not signal it.
Fanout(a) ==
    /\ a \in retained \ ended
    /\ IF wait.open /\ wait.gen > cursor[a]
       THEN /\ cursor' = [cursor EXCEPT ![a] = wait.gen]
            /\ wait' = IF a >= wait.base.att THEN [wait EXCEPT !.sig = @ + 1, !.missed = FALSE] ELSE wait
            /\ UNCHANGED ended
       ELSE ended' = ended \cup {a} /\ cursor' = [cursor EXCEPT ![a] = 0] /\ UNCHANGED wait
    /\ Fine /\ UNCHANGED <<retained, taskVars, runVars, reads, probes, worldVars>>

\* The pass ends a task past its deadline, or whose last run is over.
Expire ==
    /\ status \notin Terminal
    /\ limit = "late" \/ (used >= MaxLeases /\ ~(slot.work = "task" /\ slot.live))
    /\ Becomes("exhausted")
    /\ Fine /\ UNCHANGED <<used, reads, inputs, covered, probes, runVars, hookVars, worldVars>>

\* A run's usage is accounted when it renews, reports or is swept, and whenever it is
\* learnt of later; it stops a task it takes out of limits, and touches nothing else.
Meter ==
    /\ used > 0 /\ status \notin Terminal
    /\ status' = "exhausted" /\ gen' = gen + 1
    /\ IF limit = "within" THEN limit' = "spent" /\ Trouble ELSE UNCHANGED limit /\ Fine
    /\ UNCHANGED <<used, inputs, covered, adm, runVars, waitVars, hookVars, check, moved, revoked>>

-----------------------------------------------------------------------------
(* The world: the check runs, the head moves, money, time and grants run out. *)

World == UNCHANGED <<taskVars, runVars, waitVars, hookVars>>

StartAttempt ==
    /\ check.att < MaxAttempts /\ (check.att = 0 \/ check.done)
    /\ check' = [att |-> check.att + 1, done |-> FALSE]
    /\ Fine /\ World /\ UNCHANGED <<moved, limit, revoked>>

Complete ==
    /\ check.att > 0 /\ ~check.done
    /\ check' = [check EXCEPT !.done = TRUE]
    /\ Fine /\ World /\ UNCHANGED <<moved, limit, revoked>>

MoveHead == Trouble /\ ~moved /\ moved' = TRUE /\ World /\ UNCHANGED <<check, limit, revoked>>

\* What a decision cost is added to the task's usage alone.
Spend == Trouble /\ used > 0 /\ limit = "within" /\ limit' = "spent" /\ World /\ UNCHANGED <<check, moved, revoked>>

Late == Trouble /\ limit # "late" /\ limit' = "late" /\ World /\ UNCHANGED <<check, moved, revoked>>
Revoke == Trouble /\ ~revoked /\ revoked' = TRUE /\ World /\ UNCHANGED <<check, moved, limit>>

-----------------------------------------------------------------------------

\* What the maintenance pass does, here and in every other daemon.
Maintain ==
    \/ Expire \/ (\E a \in Attempts : Fanout(a))
    \/ Claim \/ LapseClaim \/ (\E p \in probes : Observe(p) \/ Finish(p))

Next ==
    \/ Issue \/ Refuse \/ BlockSetup \/ TakeOther \/ EndOther \/ Lapse
    \/ Cover \/ (\E ask \in Asks : PrepareReport(ask)) \/ PrepareBlind \/ Report
    \/ Pause \/ Cancel \/ Resume \/ Adopt \/ BeginSteer \/ AcceptSteer
    \/ Maintain \/ ClaimSuperseded \/ (\E p \in probes : DropProbe(p)) \/ Meter
    \/ (\E a \in Attempts : DeliverWebhook(a))
    \/ StartAttempt \/ Complete \/ MoveHead \/ Spend \/ Late \/ Revoke

\* The daemon runs its maintenance pass for ever; nothing is owed by runners, people,
\* GitHub or the clock of the limits.
Spec == Init /\ [][Next]_vars /\ WF_vars(Maintain)

-----------------------------------------------------------------------------

Live == {"queued", "leased"}

\* The generation whose work may still be there.
Owned == IF status = "exhausted" THEN gen - 1 ELSE gen

\* Types, and the allowances no race of claims or runs exceeds.
TypeOK ==
    /\ status \in States /\ gen \in Gens
    /\ used \in 0..MaxLeases /\ reads \in 0..MaxReads
    /\ inputs \in 0..MaxInputs /\ covered \in 0..inputs
    /\ adm \in [Gens -> {"none", "queued", "leased", "refused", "settled"}]
    /\ slot \in [work : {"none", "task", "other"}, gen : 0..(MaxGen + 2), live : BOOLEAN]
    /\ plan \in [ask : Asks \cup {"none", "unverified"}, seen : Snapshots, moved : BOOLEAN, covered : 0..MaxInputs]
    /\ steer \in [wake : 0..(MaxGen + 2), live : BOOLEAN, open : BOOLEAN]
    /\ wait \in [gen : 0..(MaxGen + 2), open : BOOLEAN, read : BOOLEAN, sig : Nat, obs : Nat, missed : BOOLEAN,
                 base : Snapshots, valid : BOOLEAN, claim : {0} \cup Claims]
    /\ probes \subseteq [wait : Gens, claim : Claims, sig : Nat, seen : Snapshots,
                         got : {"none", "check", "moved", "error"}]
    /\ wait.obs <= wait.sig
    /\ check \in Snapshots /\ moved \in BOOLEAN /\ revoked \in BOOLEAN
    /\ retained \subseteq Attempts /\ ended \subseteq retained
    /\ cursor \in [Attempts -> 0..(MaxGen + 2)]
    /\ limit \in {"within", "spent", "late"} /\ troubles \in 0..MaxTroubles

\* A task owns exactly the work its state calls for: only the generation of a ready task is
\* queued, a task ready or running has the continuation of its generation, and a task waits
\* if and only if a wait of its generation is open.  Report, reads, inputs, controls and
\* limits each make the transition on their own; metering alone leaves behind what the task
\* owned, of the generation before the one it ended at.
OwnsItsWork ==
    /\ \A g \in Gens : adm[g] = "queued" => g = Owned /\ status \in {"ready", "exhausted"}
    /\ status \in {"ready", "running"} => adm[gen] \in Live \cup {"refused"}
    /\ status = "waiting" => wait.open
    /\ wait.open => wait.gen = Owned /\ status \in {"waiting", "exhausted"}

\* No input is left behind: a task that waits or is done has seen every input it accepted,
\* because an input that does not wake it is bound under the lease its last run still held.
InputsReach == status \in {"waiting", "done"} => covered = inputs

\* What a person or a limit stopped stays stopped: a late report, read or input does not
\* change an ended task, nor take a paused one anywhere but where a person may.
StoppedStays ==
    [][/\ status \in Terminal => UNCHANGED <<status, gen>>
       /\ status = "paused" => status' \in {"paused", "ready", "cancelled", "exhausted"}]_vars

\* The check is over, GitHub said so, and the wait is open.
SignedCompletion == Current /\ check.done /\ check.att \in retained

\* A signed completion wakes the waiting task, or the task stops waiting otherwise, whatever
\* read was in flight when it came - except for a wait whose last read failed with no signal
\* after it and no allowance left.
SignedCompletionWakes ==
    SignedCompletion ~> (~SignedCompletion \/ (wait.missed /\ reads = MaxReads))

=============================================================================
