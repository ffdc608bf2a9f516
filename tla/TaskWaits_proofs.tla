-------------------------- MODULE TaskWaits_proofs --------------------------
(***************************************************************************)
(* Proofs about TaskWaits for every number of generations, runs, reads,    *)
(* readers, inputs, attempts and troubles: the task's allowances hold, it  *)
(* owns exactly the work its state calls for, it neither waits nor is done *)
(* over an input it has not seen, and what was stopped stays stopped.      *)
(*                                                                         *)
(* A report, a read and an input all act on what they saw earlier.  The    *)
(* invariant says what each may still rely on: a report that is not stale  *)
(* was prepared in its task's generation, a read's signals are among those *)
(* of the wait it is for, and an input bound while the task waits knows    *)
(* that it does.                                                           *)
(***************************************************************************)
EXTENDS TaskWaits, TLAPS

-----------------------------------------------------------------------------
(* The invariant. *)

\* The generations a state leaves room for.
Roomy ==
    /\ status \in {"ready", "running"} => gen <= MaxGen
    /\ status = "waiting" => gen < MaxGen
    /\ status \in {"blocked", "paused"} => gen <= MaxGen + 1

\* A report that goes on has room for it, an input that wakes its task too.
Ahead ==
    /\ plan.ask = "continue" => slot.gen < MaxGen
    /\ plan.ask = "waiting" => slot.gen + 1 < MaxGen
    /\ plan.ask # "none" => slot.work = "task"
    /\ steer.wake # 0 => steer.wake < MaxGen
    /\ steer.open => inputs < MaxInputs

\* The slot runs a generation its task has been in; one it is in is no longer ready.
Runs == slot.work = "task" => /\ slot.gen \in 1..gen
                              /\ slot.gen = gen => status # "ready"

\* Nothing is written for generations to come, and a waiting task has no work of its own.
Ledger ==
    /\ \A g \in Gens : g > gen => adm[g] = "none"
    /\ status = "waiting" => adm[gen] \notin Live

\* An input bound while the task waits was begun while it did.
Knows == steer.open /\ steer.live /\ status = "waiting" => steer.wake # 0

\* A read in flight is for the latest wait or an earlier one, and counts for no more
\* signals than that wait has while it is open.
Behind ==
    /\ wait.gen <= gen
    /\ \A p \in probes : /\ p.wait <= wait.gen
                         /\ wait.open /\ p.wait = wait.gen => p.sig <= wait.sig

IInv == TypeOK /\ OwnsItsWork /\ InputsReach /\ Roomy /\ Ahead /\ Runs /\ Ledger /\ Knows /\ Behind

-----------------------------------------------------------------------------
(* A transition of the task. *)

AdmStates == {"none", "queued", "leased", "refused", "settled"}
Waits == [gen : 0..(MaxGen + 2), open : BOOLEAN, read : BOOLEAN, sig : Nat, obs : Nat, missed : BOOLEAN,
          base : Snapshots, valid : BOOLEAN, claim : {0} \cup Claims]
Slots == [work : {"none", "task", "other"}, gen : 0..(MaxGen + 2), live : BOOLEAN]
Plans == [ask : Asks \cup {"none", "unverified"}, seen : Snapshots, moved : BOOLEAN, covered : 0..MaxInputs]
Steers == [wake : 0..(MaxGen + 2), live : BOOLEAN, open : BOOLEAN]
Probes == [wait : Gens, claim : Claims, sig : Nat, seen : Snapshots, got : {"none", "check", "moved", "error"}]

\* What a step gives the task, its ledger and its wait.
Sound ==
    /\ status' \in States /\ gen' \in Gens /\ adm' \in [Gens -> AdmStates]
    /\ wait' \in Waits /\ wait'.obs <= wait'.sig
    /\ OwnsItsWork' /\ Ledger'
    /\ wait'.gen <= gen'

LEMMA Bounds == MaxGen \in Nat /\ MaxGen > 2 /\ Readers \in Nat /\ MaxLeases \in Nat /\ MaxReads \in Nat
                /\ MaxInputs \in Nat /\ MaxAttempts \in Nat /\ MaxTroubles \in Nat
BY WaitsAssumption

\* A closed wait, and one a report arms.
LEMMA WaitShapes ==
    ASSUME wait \in Waits, gen \in Gens, NEW seen \in Snapshots
    PROVE  /\ Cancelled(wait) \in Waits /\ Cancelled(wait).gen = wait.gen /\ ~Cancelled(wait).open
           /\ Cancelled(wait).obs = 0 /\ Cancelled(wait).sig = 0
           /\ gen + 1 \in Gens => Armed(seen) \in Waits
           /\ Armed(seen).gen = gen + 1 /\ Armed(seen).open
           /\ Armed(seen).obs = 0 /\ Armed(seen).sig = 0
<1>1. /\ NoWait \in Waits /\ ~NoWait.open /\ NoWait.obs = 0 /\ NoWait.sig = 0
  BY Bounds DEF NoWait, Waits, Snapshots, Claims
<1>2. Cancelled(wait) \in Waits /\ Cancelled(wait).gen = wait.gen /\ ~Cancelled(wait).open
      /\ Cancelled(wait).obs = 0 /\ Cancelled(wait).sig = 0
  BY <1>1 DEF Cancelled, Waits
<1>3. /\ gen + 1 \in Gens => Armed(seen) \in Waits
      /\ Armed(seen).gen = gen + 1 /\ Armed(seen).open /\ Armed(seen).obs = 0 /\ Armed(seen).sig = 0
  <2> DEFINE a == [NoWait EXCEPT !.gen = gen + 1]
             b == [a EXCEPT !.open = TRUE]
  <2>1. a.gen = gen + 1 /\ a.obs = 0 /\ a.sig = 0 /\ (gen + 1 \in Gens => a \in Waits)
    BY <1>1, Bounds DEF Waits, Gens
  <2>2. DOMAIN a = DOMAIN NoWait /\ {"gen", "open", "base", "sig", "obs"} \subseteq DOMAIN NoWait
    BY <1>1 DEF Waits
  <2> HIDE DEF a
  <2>3. b.gen = gen + 1 /\ b.open /\ b.obs = 0 /\ b.sig = 0 /\ (gen + 1 \in Gens => b \in Waits)
    BY <2>1, <2>2 DEF Waits
  <2>4. DOMAIN b = DOMAIN NoWait
    BY <2>2
  <2>5. Armed(seen) = [b EXCEPT !.base = seen]
    BY DEF Armed, a
  <2> HIDE DEF b
  <2> QED BY <2>2, <2>3, <2>4, <2>5 DEF Waits
<1> QED BY <1>2, <1>3

\* A transition over a ledger that has nothing for generations to come.
LEMMA MovesSound ==
    ASSUME gen \in Gens, gen + 1 \in Gens, wait \in Waits, wait.gen <= gen,
           NEW state \in States \ {"running"}, NEW ledger \in [Gens -> AdmStates],
           NEW next, NEW seen \in Snapshots,
           \A g \in Gens : g > gen => ledger[g] = "none",
           next = IF state = "waiting" THEN Armed(seen) ELSE Cancelled(wait),
           Moves(state, ledger, next)
    PROVE  Sound /\ gen' = gen + 1 /\ status' = state
<1>1. status' = state /\ gen' = gen + 1 /\ wait' = next
  BY DEF Moves
<1>2. Retired(ledger) \in [Gens -> AdmStates]
  BY DEF Retired, AdmStates
<1>3. /\ adm' \in [Gens -> AdmStates]
      /\ adm'[gen + 1] = IF state = "ready" THEN "queued" ELSE "none"
      /\ \A g \in Gens : g # gen + 1 => adm'[g] = Retired(ledger)[g]
  <2>1. Retired(ledger)[gen + 1] = "none"
    BY Bounds DEF Retired, Gens
  <2> QED BY <1>2, <2>1 DEF Moves, AdmStates
<1>4. \A g \in Gens : Retired(ledger)[g] # "queued" /\ (g > gen => Retired(ledger)[g] = "none")
  BY DEF Retired
<1>5. Ledger'
  <2>1. \A g \in Gens : g > gen' => adm'[g] = "none"
    BY <1>1, <1>3, <1>4, Bounds DEF Gens
  <2>2. status' = "waiting" => adm'[gen'] \notin Live
    BY <1>1, <1>3 DEF Live
  <2> QED BY <2>1, <2>2 DEF Ledger, Gens, Live
<1>6. /\ wait' \in Waits /\ wait'.obs <= wait'.sig /\ wait'.gen <= gen'
      /\ wait'.open <=> state = "waiting"
      /\ wait'.open => wait'.gen = gen'
  <2>1. CASE state = "waiting"
    BY <1>1, <2>1, WaitShapes, Bounds DEF Gens
  <2>2. CASE state # "waiting"
    <3>1. wait' = Cancelled(wait)
      BY <1>1, <2>2
    <3>2. wait'.obs = 0 /\ wait'.sig = 0 /\ wait'.gen = wait.gen /\ ~wait'.open /\ wait' \in Waits
      BY <3>1, WaitShapes
    <3> QED BY <1>1, <2>2, <3>2, Bounds DEF Gens, Waits
  <2> QED BY <2>1, <2>2
<1>7. OwnsItsWork'
  <2>1. \A g \in Gens : adm'[g] = "queued" => g = gen' /\ status' = "ready"
    BY <1>1, <1>3, <1>4
  <2>2. status' \in {"ready", "running"} => adm'[gen'] \in Live \cup {"refused"}
    <3>1. state = "ready" => adm'[gen'] \in Live
      BY <1>1, <1>3 DEF Live
    <3> QED BY <1>1, <3>1
  <2>3. Owned' = IF status' = "exhausted" THEN gen' - 1 ELSE gen'
    BY DEF Owned
  <2> QED BY <1>1, <1>6, <2>1, <2>2, <2>3 DEF OwnsItsWork, Live, Gens
<1> QED BY <1>1, <1>3, <1>5, <1>6, <1>7 DEF Sound

-----------------------------------------------------------------------------
(* The slot, its run and what the run prepares; then the wait outside a transition. *)

LEMMA IssueKeeps ==
    ASSUME IInv, Issue
    PROVE  IInv'
<1>1. TypeOK'
  <2>1. slot' \in Slots
    BY Bounds DEF IInv, TypeOK, Slots, Issue, Takes, Gens
  <2>2. plan' \in Plans
    BY Bounds DEF IInv, TypeOK, Plans, Issue, Takes, NoPlan, Snapshots
  <2>3. steer' \in Steers
    BY Bounds DEF IInv, TypeOK, Steers, Issue, Takes
  <2>4. adm' \in [Gens -> AdmStates]
    BY Bounds DEF IInv, TypeOK, AdmStates, Issue
  <2>5. status' \in States
    BY Bounds DEF IInv, TypeOK, States, Issue
  <2>6. used' \in 0..MaxLeases
    BY Bounds DEF IInv, TypeOK, Issue, Claimable, CanResume
  <2>7. UNCHANGED <<gen, inputs, covered, reads, wait, probes, retained, ended, cursor, check, moved, limit,
                    revoked, troubles>>
    BY DEF Issue, Takes, waitVars, hookVars, worldVars, Fine
  <2> QED BY <2>1, <2>2, <2>3, <2>4, <2>5, <2>6, <2>7, Bounds DEF IInv, TypeOK, Slots, Plans, Steers, Waits,
     AdmStates, Probes
<1>2. OwnsItsWork' /\ InputsReach' /\ Ledger' /\ Knows'
  BY Bounds DEF IInv, TypeOK, OwnsItsWork, InputsReach, Ledger, Knows, Owned, Live, Issue, Claimable, Takes,
     waitVars
<1>3. Roomy' /\ Ahead' /\ Runs' /\ Behind'
  BY Bounds DEF IInv, TypeOK, OwnsItsWork, Roomy, Ahead, Runs, Behind, Issue, Claimable, Takes, NoPlan, Gens,
     waitVars
<1> QED BY <1>1, <1>2, <1>3 DEF IInv

LEMMA RefuseKeeps ==
    ASSUME IInv, Refuse
    PROVE  IInv'
<1>1. TypeOK'
  <2>1. slot' \in Slots
    BY Bounds DEF IInv, TypeOK, Slots, Refuse, Takes
  <2>2. plan' \in Plans
    BY Bounds DEF IInv, TypeOK, Plans, Refuse, Takes, NoPlan, Snapshots
  <2>3. steer' \in Steers
    BY Bounds DEF IInv, TypeOK, Steers, Refuse, Takes
  <2>4. adm' \in [Gens -> AdmStates]
    BY DEF IInv, TypeOK, AdmStates, Refuse
  <2>5. troubles' \in 0..MaxTroubles
    BY Bounds DEF IInv, TypeOK, Trouble, Refuse
  <2>6. UNCHANGED <<status, gen, used, inputs, covered, reads, wait, probes, retained, ended, cursor, check,
                    moved, limit, revoked>>
    BY DEF Refuse, Takes, waitVars, hookVars, worldVars, Trouble
  <2> QED BY <2>1, <2>2, <2>3, <2>4, <2>5, <2>6, Bounds DEF IInv, TypeOK, Slots, Plans, Steers, Waits,
     AdmStates, Probes
<1>2. OwnsItsWork' /\ InputsReach' /\ Ledger' /\ Knows'
  BY Bounds DEF IInv, TypeOK, OwnsItsWork, InputsReach, Ledger, Knows, Owned, Live, Refuse, Claimable, Takes,
     waitVars
<1>3. Roomy' /\ Ahead' /\ Runs' /\ Behind'
  BY Bounds DEF IInv, TypeOK, OwnsItsWork, Roomy, Ahead, Runs, Behind, Refuse, Claimable, Takes, NoPlan, Gens,
     waitVars
<1> QED BY <1>1, <1>2, <1>3 DEF IInv

LEMMA TakeOtherKeeps ==
    ASSUME IInv, TakeOther
    PROVE  IInv'
<1>1. TypeOK'
  <2>1. slot' \in Slots
    <3>1. slot' = [work |-> "other", gen |-> 0, live |-> TRUE]
      BY DEF TakeOther, Takes
    <3> QED BY <3>1, Bounds DEF Slots
  <2>2. plan' \in Plans
    BY Bounds DEF IInv, TypeOK, Plans, TakeOther, Takes, NoPlan, Snapshots
  <2>3. steer' \in Steers
    BY Bounds DEF IInv, TypeOK, Steers, TakeOther, Takes
  <2>4. UNCHANGED <<status, gen, used, inputs, covered, adm, reads, wait, probes, retained, ended, cursor,
                    check, moved, limit, revoked, troubles>>
    BY DEF TakeOther, Takes, taskVars, waitVars, hookVars, worldVars, Fine
  <2> QED BY <2>1, <2>2, <2>3, <2>4, Bounds DEF IInv, TypeOK, Slots, Plans, Steers, Waits, AdmStates, Probes
<1>2. OwnsItsWork' /\ InputsReach' /\ Ledger' /\ Knows'
  BY Bounds DEF IInv, TypeOK, OwnsItsWork, InputsReach, Ledger, Knows, Owned, Live, TakeOther, Takes, taskVars,
     waitVars
<1>3. Roomy' /\ Ahead' /\ Runs' /\ Behind'
  BY Bounds DEF IInv, TypeOK, OwnsItsWork, Roomy, Ahead, Runs, Behind, TakeOther, Takes, NoPlan, Gens,
     taskVars, waitVars
<1> QED BY <1>1, <1>2, <1>3 DEF IInv

LEMMA EndOtherKeeps ==
    ASSUME IInv, EndOther
    PROVE  IInv'
<1>1. TypeOK'
  <2>1. slot' \in Slots
    BY Bounds DEF IInv, TypeOK, Slots, EndOther, Free
  <2>2. steer' \in Steers
    BY Bounds DEF IInv, TypeOK, Steers, EndOther
  <2>3. UNCHANGED <<status, gen, used, inputs, covered, adm, plan, reads, wait, probes, retained, ended,
                    cursor, check, moved, limit, revoked, troubles>>
    BY DEF EndOther, Free, taskVars, waitVars, hookVars, worldVars, Fine
  <2> QED BY <2>1, <2>2, <2>3, Bounds DEF IInv, TypeOK, Slots, Plans, Steers, Waits, AdmStates, Probes
<1>2. OwnsItsWork' /\ InputsReach' /\ Ledger' /\ Knows'
  BY Bounds DEF IInv, TypeOK, OwnsItsWork, InputsReach, Ledger, Knows, Owned, Live, EndOther, Free, taskVars,
     waitVars
<1>3. Roomy' /\ Ahead' /\ Runs' /\ Behind'
  BY Bounds DEF IInv, TypeOK, OwnsItsWork, Roomy, Ahead, Runs, Behind, EndOther, Free, taskVars, waitVars
<1> QED BY <1>1, <1>2, <1>3 DEF IInv

LEMMA LapseKeeps ==
    ASSUME IInv, Lapse
    PROVE  IInv'
<1>1. TypeOK'
  <2>1. slot' \in Slots
    BY Bounds DEF IInv, TypeOK, Slots, Lapse
  <2>2. steer' \in Steers
    BY Bounds DEF IInv, TypeOK, Steers, Lapse
  <2>3. troubles' \in 0..MaxTroubles
    BY Bounds DEF IInv, TypeOK, Trouble, Lapse, Attached, Fine
  <2>4. UNCHANGED <<status, gen, used, inputs, covered, adm, plan, reads, wait, probes, retained, ended,
                    cursor, check, moved, limit, revoked>>
    BY DEF Lapse, taskVars, waitVars, hookVars, worldVars, Fine, Trouble
  <2> QED BY <2>1, <2>2, <2>3, <2>4, Bounds DEF IInv, TypeOK, Slots, Plans, Steers, Waits, AdmStates, Probes
<1>2. OwnsItsWork' /\ InputsReach' /\ Ledger' /\ Knows'
  BY Bounds DEF IInv, TypeOK, OwnsItsWork, InputsReach, Ledger, Knows, Owned, Live, Lapse, Attached, taskVars,
     waitVars
<1>3. Roomy' /\ Ahead' /\ Runs' /\ Behind'
  BY Bounds DEF IInv, TypeOK, OwnsItsWork, Roomy, Ahead, Runs, Behind, Lapse, Attached, taskVars, waitVars
<1> QED BY <1>1, <1>2, <1>3 DEF IInv

LEMMA CoverKeeps ==
    ASSUME IInv, Cover
    PROVE  IInv'
<1>1. TypeOK'
  <2>1. covered' \in 0..inputs'
    BY Bounds DEF IInv, TypeOK, Cover, Attached
  <2>2. UNCHANGED <<status, gen, used, inputs, adm, slot, plan, steer, reads, wait, probes, retained, ended,
                    cursor, check, moved, limit, revoked, troubles>>
    BY DEF Cover, runVars, waitVars, hookVars, worldVars, Fine
  <2> QED BY <2>1, <2>2, Bounds DEF IInv, TypeOK, Slots, Plans, Steers, Waits, AdmStates, Probes
<1>2. OwnsItsWork' /\ InputsReach' /\ Ledger' /\ Knows'
  BY Bounds DEF IInv, TypeOK, OwnsItsWork, InputsReach, Ledger, Knows, Owned, Live, Cover, Attached, runVars,
     waitVars
<1>3. Roomy' /\ Ahead' /\ Runs' /\ Behind'
  BY Bounds DEF IInv, TypeOK, OwnsItsWork, Roomy, Ahead, Runs, Behind, Cover, Attached, runVars, waitVars
<1> QED BY <1>1, <1>2, <1>3 DEF IInv

LEMMA PrepareReportKeeps ==
    ASSUME IInv, NEW ask \in Asks, PrepareReport(ask)
    PROVE  IInv'
<1>1. TypeOK'
  <2>1. plan' \in Plans
    <3>1. NoPlan \in Plans
      BY Bounds DEF NoPlan, Plans, Snapshots
    <3>2. covered \in 0..MaxInputs /\ check \in Snapshots /\ moved \in BOOLEAN
      BY Bounds DEF IInv, TypeOK
    <3>3. [ask |-> ask, seen |-> check, moved |-> moved, covered |-> covered] \in Plans
      BY <3>2 DEF Plans
    <3>4. Unverified \in Plans /\ [NoPlan EXCEPT !.ask = ask, !.covered = covered] \in Plans
      BY <3>1, <3>2 DEF Plans, Unverified
    <3> QED BY <3>3, <3>4 DEF PrepareReport
  <2>2. UNCHANGED <<status, gen, used, inputs, covered, adm, slot, steer, reads, wait, probes, retained, ended,
                    cursor, check, moved, limit, revoked, troubles>>
    BY DEF PrepareReport, taskVars, waitVars, hookVars, worldVars, Fine
  <2> QED BY <2>1, <2>2, Bounds DEF IInv, TypeOK, Slots, Plans, Steers, Waits, AdmStates, Probes
<1>2. OwnsItsWork' /\ InputsReach' /\ Ledger' /\ Knows'
  BY Bounds DEF IInv, TypeOK, OwnsItsWork, InputsReach, Ledger, Knows, Owned, Live, PrepareReport, Room,
     Attached, Unverified, Asks, taskVars, waitVars
<1>3. Roomy' /\ Ahead' /\ Runs' /\ Behind'
  BY Bounds DEF IInv, TypeOK, OwnsItsWork, Roomy, Ahead, Runs, Behind, PrepareReport, Room, Attached,
     Unverified, NoPlan, Asks, taskVars, waitVars
<1> QED BY <1>1, <1>2, <1>3 DEF IInv

LEMMA PrepareBlindKeeps ==
    ASSUME IInv, PrepareBlind
    PROVE  IInv'
<1>1. TypeOK'
  <2>1. plan' \in Plans
    BY Bounds DEF IInv, TypeOK, Plans, PrepareBlind, Unverified, NoPlan, Snapshots
  <2>2. troubles' \in 0..MaxTroubles
    BY Bounds DEF IInv, TypeOK, Trouble, PrepareBlind
  <2>3. UNCHANGED <<status, gen, used, inputs, covered, adm, slot, steer, reads, wait, probes, retained, ended,
                    cursor, check, moved, limit, revoked>>
    BY DEF PrepareBlind, taskVars, waitVars, hookVars, worldVars, Trouble
  <2> QED BY <2>1, <2>2, <2>3, Bounds DEF IInv, TypeOK, Slots, Plans, Steers, Waits, AdmStates, Probes
<1>2. OwnsItsWork' /\ InputsReach' /\ Ledger' /\ Knows'
  BY Bounds DEF IInv, TypeOK, OwnsItsWork, InputsReach, Ledger, Knows, Owned, Live, PrepareBlind, Unverified,
     taskVars, waitVars
<1>3. Roomy' /\ Ahead' /\ Runs' /\ Behind'
  BY Bounds DEF IInv, TypeOK, OwnsItsWork, Roomy, Ahead, Runs, Behind, PrepareBlind, Unverified, NoPlan,
     taskVars, waitVars
<1> QED BY <1>1, <1>2, <1>3 DEF IInv

LEMMA BeginSteerKeeps ==
    ASSUME IInv, BeginSteer
    PROVE  IInv'
<1>1. TypeOK'
  <2>1. steer' \in Steers
    BY Bounds DEF IInv, TypeOK, Steers, BeginSteer, Gens
  <2>2. UNCHANGED <<status, gen, used, inputs, covered, adm, slot, plan, reads, wait, probes, retained, ended,
                    cursor, check, moved, limit, revoked, troubles>>
    BY DEF BeginSteer, taskVars, waitVars, hookVars, worldVars, Fine
  <2> QED BY <2>1, <2>2, Bounds DEF IInv, TypeOK, Slots, Plans, Steers, Waits, AdmStates, Probes
<1>2. OwnsItsWork' /\ InputsReach' /\ Ledger' /\ Knows'
  BY Bounds DEF IInv, TypeOK, OwnsItsWork, InputsReach, Ledger, Knows, Owned, Live, BeginSteer, Gens, taskVars,
     waitVars
<1>3. Roomy' /\ Ahead' /\ Runs' /\ Behind'
  BY Bounds DEF IInv, TypeOK, OwnsItsWork, Roomy, Ahead, Runs, Behind, BeginSteer, Gens, taskVars, waitVars
<1> QED BY <1>1, <1>2, <1>3 DEF IInv

LEMMA MeterKeeps ==
    ASSUME IInv, Meter
    PROVE  IInv'
<1>1. TypeOK'
  <2>1. status' \in States
    BY Bounds DEF IInv, TypeOK, States, Meter, Terminal
  <2>2. gen' \in Gens
    BY Bounds DEF IInv, TypeOK, Gens, Roomy, Terminal, States, Meter
  <2>3. limit' \in {"within", "spent", "late"}
    BY Bounds DEF IInv, TypeOK, Meter, Terminal
  <2>4. troubles' \in 0..MaxTroubles
    BY Bounds DEF IInv, TypeOK, Trouble, Meter, Terminal, Fine
  <2>5. UNCHANGED <<used, inputs, covered, adm, slot, plan, steer, reads, wait, probes, retained, ended,
                    cursor, check, moved, revoked>>
    BY DEF Meter, runVars, waitVars, hookVars, Fine, Trouble
  <2> QED BY <2>1, <2>2, <2>3, <2>4, <2>5, Bounds DEF IInv, TypeOK, Slots, Plans, Steers, Waits, AdmStates,
     Probes
<1>2. OwnsItsWork' /\ InputsReach' /\ Ledger' /\ Knows'
  <2>1. status' = "exhausted" /\ gen' = gen + 1 /\ UNCHANGED <<adm, wait, covered, inputs, steer>>
    BY DEF Meter, taskVars, runVars, waitVars
  <2>2. status \notin Terminal /\ Owned = gen /\ Owned' = gen
    BY <2>1 DEF Meter, Owned, Terminal, IInv, TypeOK, Gens
  <2>3. OwnsItsWork'
    BY <2>1, <2>2 DEF IInv, OwnsItsWork, Live
  <2> QED BY <2>1, <2>3, Bounds DEF InputsReach, Ledger, Knows, IInv, TypeOK, Gens
<1>3. Roomy' /\ Ahead' /\ Runs' /\ Behind'
  <2>1. status' = "exhausted" /\ gen' = gen + 1 /\ UNCHANGED <<slot, plan, steer, inputs, wait, probes>>
    BY DEF Meter, taskVars, runVars, waitVars
  <2> QED BY <2>1, Bounds DEF IInv, TypeOK, Gens, Roomy, Ahead, Runs, Behind
<1> QED BY <1>1, <1>2, <1>3 DEF IInv

LEMMA ClaimSupersededKeeps ==
    ASSUME IInv, ClaimSuperseded
    PROVE  IInv'
<1>1. TypeOK'
  <2>1. wait' \in Waits /\ wait'.obs <= wait'.sig
    BY WaitShapes, Bounds DEF IInv, TypeOK, Waits, ClaimSuperseded, Current
  <2>2. UNCHANGED <<status, gen, used, inputs, covered, adm, slot, plan, steer, reads, probes, retained, ended,
                    cursor, check, moved, limit, revoked, troubles>>
    BY DEF ClaimSuperseded, taskVars, runVars, hookVars, worldVars, Fine
  <2> QED BY <2>1, <2>2, Bounds DEF IInv, TypeOK, Slots, Plans, Steers, Waits, AdmStates, Probes
<1>2. OwnsItsWork' /\ InputsReach' /\ Ledger' /\ Knows'
  <2>1. wait'.gen = wait.gen /\ ~wait'.open /\ UNCHANGED <<status, gen, adm, covered, inputs, steer>>
    BY WaitShapes DEF ClaimSuperseded, taskVars, runVars, IInv, TypeOK, Waits, Snapshots
  <2>2. status # "waiting"
    BY DEF ClaimSuperseded, Current, IInv, OwnsItsWork, Owned
  <2> QED BY <2>1, <2>2 DEF IInv, OwnsItsWork, InputsReach, Ledger, Knows, Owned
<1>3. Roomy' /\ Ahead' /\ Runs' /\ Behind'
  <2>1. wait'.gen = wait.gen /\ ~wait'.open /\ UNCHANGED <<status, gen, inputs, slot, plan, steer, probes>>
    BY WaitShapes DEF ClaimSuperseded, taskVars, runVars, IInv, TypeOK, Waits, Snapshots
  <2> QED BY <2>1 DEF IInv, Roomy, Ahead, Runs, Behind
<1> QED BY <1>1, <1>2, <1>3 DEF IInv

LEMMA DropProbeKeeps ==
    ASSUME IInv, NEW p \in probes, DropProbe(p)
    PROVE  IInv'
<1>1. TypeOK'
  <2>1. probes' \subseteq Probes
    BY Bounds DEF IInv, TypeOK, Probes, DropProbe
  <2>2. troubles' \in 0..MaxTroubles
    BY Bounds DEF IInv, TypeOK, Trouble, DropProbe
  <2>3. UNCHANGED <<status, gen, used, inputs, covered, adm, slot, plan, steer, reads, wait, retained, ended,
                    cursor, check, moved, limit, revoked>>
    BY DEF DropProbe, taskVars, runVars, hookVars, worldVars, Trouble
  <2> QED BY <2>1, <2>2, <2>3, Bounds DEF IInv, TypeOK, Slots, Plans, Steers, Waits, AdmStates, Probes
<1>2. OwnsItsWork' /\ InputsReach' /\ Ledger' /\ Knows'
  BY Bounds DEF IInv, TypeOK, OwnsItsWork, InputsReach, Ledger, Knows, Owned, Live, DropProbe, taskVars, runVars
<1>3. Roomy' /\ Ahead' /\ Runs' /\ Behind'
  BY Bounds DEF IInv, TypeOK, OwnsItsWork, Roomy, Ahead, Runs, Behind, DropProbe, taskVars, runVars
<1> QED BY <1>1, <1>2, <1>3 DEF IInv

LEMMA LapseClaimKeeps ==
    ASSUME IInv, LapseClaim
    PROVE  IInv'
<1>1. TypeOK'
  <2>1. wait' \in Waits /\ wait'.obs <= wait'.sig
    BY Bounds DEF IInv, TypeOK, Waits, LapseClaim, Signalled, Current
  <2>2. troubles' \in 0..MaxTroubles
    BY Bounds DEF IInv, TypeOK, Trouble, LapseClaim, Signalled, Current, Fine
  <2>3. UNCHANGED <<status, gen, used, inputs, covered, adm, slot, plan, steer, reads, probes, retained, ended,
                    cursor, check, moved, limit, revoked>>
    BY DEF LapseClaim, taskVars, runVars, hookVars, worldVars, Fine, Trouble
  <2> QED BY <2>1, <2>2, <2>3, Bounds DEF IInv, TypeOK, Slots, Plans, Steers, Waits, AdmStates, Probes
<1>2. OwnsItsWork' /\ InputsReach' /\ Ledger' /\ Knows'
  BY Bounds DEF IInv, TypeOK, OwnsItsWork, InputsReach, Ledger, Knows, Owned, Live, LapseClaim, Signalled,
     Current, taskVars, runVars
<1>3. Roomy' /\ Ahead' /\ Runs' /\ Behind'
  BY Bounds DEF IInv, TypeOK, OwnsItsWork, Roomy, Ahead, Runs, Behind, LapseClaim, Signalled, Current,
     taskVars, runVars
<1> QED BY <1>1, <1>2, <1>3 DEF IInv

LEMMA DeliverWebhookKeeps ==
    ASSUME IInv, NEW a \in Attempts, DeliverWebhook(a)
    PROVE  IInv'
<1>1. TypeOK'
  <2>1. retained' \subseteq Attempts /\ ended' \subseteq retained'
    BY Bounds DEF IInv, TypeOK, DeliverWebhook
  <2>2. UNCHANGED <<status, gen, used, inputs, covered, adm, slot, plan, steer, reads, wait, probes, ended,
                    cursor, check, moved, limit, revoked, troubles>>
    BY DEF DeliverWebhook, taskVars, runVars, waitVars, worldVars, Fine
  <2> QED BY <2>1, <2>2, Bounds DEF IInv, TypeOK, Slots, Plans, Steers, Waits, AdmStates, Probes
<1>2. OwnsItsWork' /\ InputsReach' /\ Ledger' /\ Knows'
  BY Bounds DEF IInv, TypeOK, OwnsItsWork, InputsReach, Ledger, Knows, Owned, Live, DeliverWebhook, taskVars,
     runVars, waitVars
<1>3. Roomy' /\ Ahead' /\ Runs' /\ Behind'
  BY Bounds DEF IInv, TypeOK, OwnsItsWork, Roomy, Ahead, Runs, Behind, DeliverWebhook, taskVars, runVars,
     waitVars
<1> QED BY <1>1, <1>2, <1>3 DEF IInv

LEMMA FanoutKeeps ==
    ASSUME IInv, NEW a \in Attempts, Fanout(a)
    PROVE  IInv'
<1>1. /\ wait' \in Waits /\ wait'.obs <= wait'.sig
      /\ wait'.gen = wait.gen /\ wait'.open = wait.open /\ wait.sig <= wait'.sig
  <2>1. wait \in Waits /\ wait.obs <= wait.sig /\ wait.sig \in Nat /\ wait.obs \in Nat
    BY DEF IInv, TypeOK, Waits
  <2>2. CASE wait' = wait
    BY <2>1, <2>2
  <2>3. CASE wait' = [wait EXCEPT !.sig = @ + 1, !.missed = FALSE]
    <3>1. wait.sig + 1 \in Nat /\ wait.obs <= wait.sig + 1 /\ wait.sig <= wait.sig + 1
      BY <2>1
    <3>2. /\ wait' \in Waits /\ wait'.sig = wait.sig + 1 /\ wait'.obs = wait.obs
          /\ wait'.gen = wait.gen /\ wait'.open = wait.open
      BY <2>1, <2>3, <3>1 DEF Waits
    <3> QED BY <3>1, <3>2
  <2> QED BY <2>2, <2>3 DEF Fanout
<1>2. ended' \subseteq retained /\ cursor' \in [Attempts -> 0..(MaxGen + 2)]
  BY Bounds DEF IInv, TypeOK, Fanout
<1>3. UNCHANGED <<status, gen, used, inputs, covered, adm, slot, plan, steer, reads, probes, retained,
                  check, moved, limit, revoked, troubles>>
  BY DEF Fanout, taskVars, runVars, worldVars, Fine
<1>4. TypeOK'
  BY <1>1, <1>2, <1>3 DEF IInv, TypeOK, Waits
<1>5. OwnsItsWork' /\ InputsReach' /\ Ledger' /\ Knows'
  BY <1>1, <1>3 DEF IInv, OwnsItsWork, InputsReach, Ledger, Knows, Owned
<1>6. Behind'
  <2>1. wait.sig \in Nat /\ wait'.sig \in Nat /\ \A p \in probes : p.sig \in Nat
    BY <1>1 DEF IInv, TypeOK, Waits
  <2> QED BY <1>1, <1>3, <2>1 DEF IInv, Behind
<1>7. Roomy' /\ Ahead' /\ Runs'
  BY <1>3 DEF IInv, Roomy, Ahead, Runs
<1> QED BY <1>4, <1>5, <1>6, <1>7 DEF IInv

LEMMA ObserveKeeps ==
    ASSUME IInv, NEW p \in probes, Observe(p)
    PROVE  IInv'
<1>1. PICK got \in {"check", "moved", "error"}, seen \in Snapshots :
        Reads(p, got, seen) /\ (UNCHANGED troubles \/ Trouble)
  BY DEF Observe, Fine, IInv, TypeOK
<1> DEFINE q == [p EXCEPT !.got = got, !.seen = seen]
<1>2. p \in Probes /\ probes \subseteq Probes
  BY DEF IInv, TypeOK, Probes
<1>3. q \in Probes /\ q.wait = p.wait /\ q.sig = p.sig
  BY <1>2 DEF Probes
<1>4. probes' = (probes \ {p}) \cup {q}
  BY <1>1 DEF Reads
<1>5. probes' \subseteq Probes
  BY <1>2, <1>3, <1>4
<1>6. UNCHANGED <<status, gen, used, inputs, covered, adm, slot, plan, steer, reads, wait, retained, ended,
                  cursor, check, moved, limit, revoked>>
  BY DEF Observe, taskVars, runVars, hookVars, worldVars
<1> HIDE DEF q
<1>7. troubles' \in 0..MaxTroubles
  BY <1>1, Bounds DEF IInv, TypeOK, Trouble
<1>8. TypeOK'
  BY <1>5, <1>6, <1>7 DEF IInv, TypeOK, Probes
<1>9. OwnsItsWork' /\ InputsReach' /\ Ledger' /\ Knows' /\ Roomy' /\ Ahead' /\ Runs'
  BY <1>6 DEF IInv, OwnsItsWork, InputsReach, Ledger, Knows, Owned, Roomy, Ahead, Runs
<1>10. Behind'
  BY <1>3, <1>4, <1>6 DEF IInv, Behind
<1> QED BY <1>8, <1>9, <1>10 DEF IInv

-----------------------------------------------------------------------------
(* The transitions a task makes to states other than waiting or done. *)

Stops == {"ready", "blocked", "paused", "cancelled", "exhausted"}

\* A transition whose other effects are on the slot, the reads in flight and the inputs.
LEMMA BecomesKeeps ==
    ASSUME IInv, NEW state \in Stops, NEW ledger \in [Gens -> AdmStates],
           \A g \in Gens : g > gen => ledger[g] = "none",
           Moves(state, ledger, Cancelled(wait)), status \notin Terminal,
           state = "ready" => gen < MaxGen,
           state \in {"blocked", "paused"} => gen <= MaxGen,
           probes' \subseteq probes, slot' \in Slots, plan' \in Plans, steer' \in Steers,
           slot'.work = "none" \/ slot' = slot, Ahead',
           inputs' \in 0..MaxInputs, inputs <= inputs', troubles' \in 0..MaxTroubles,
           UNCHANGED <<used, reads, covered, hookVars, worldVars>>
    PROVE  IInv'
<1>1. gen \in Gens /\ gen + 1 \in Gens /\ wait \in Waits /\ wait.gen <= gen
  BY Bounds DEF IInv, TypeOK, Roomy, Behind, Gens, States, Terminal, Waits
<1>2. [att |-> 0, done |-> FALSE] \in Snapshots
  BY Bounds DEF Snapshots
<1>3. Sound /\ gen' = gen + 1 /\ status' = state
  BY <1>1, <1>2, MovesSound DEF Stops, States, Terminal
<1>4. wait'.gen = wait.gen /\ ~wait'.open
  BY <1>1, <1>2, WaitShapes DEF Moves
<1>5. TypeOK'
  <2>1. covered' \in 0..inputs'
    BY Bounds DEF IInv, TypeOK
  <2> QED BY <1>3, <2>1 DEF IInv, TypeOK, Sound, Slots, Plans, Steers, Waits, AdmStates, hookVars, worldVars
<1>6. InputsReach' /\ Knows'
  BY <1>3 DEF InputsReach, Knows, Stops
<1>7. Roomy'
  BY <1>1, <1>3, Bounds DEF Roomy, Stops, Gens
<1>8. Runs'
  BY <1>1, <1>3 DEF IInv, Runs, Gens
<1>9. Behind'
  BY <1>3, <1>4 DEF IInv, Behind, Sound
<1> QED BY <1>3, <1>5, <1>6, <1>7, <1>8, <1>9 DEF IInv, Sound

\* The same for a step that leaves the slot and the inputs alone.
LEMMA BecomesAlone ==
    ASSUME IInv, NEW state \in Stops, Becomes(state), status \notin Terminal,
           state = "ready" => gen < MaxGen,
           state \in {"blocked", "paused"} => gen <= MaxGen,
           probes' \subseteq probes, Fine \/ Trouble,
           UNCHANGED <<runVars, used, inputs, reads, covered, hookVars, worldVars>>
    PROVE  IInv'
<1>1. adm \in [Gens -> AdmStates] /\ \A g \in Gens : g > gen => adm[g] = "none"
  BY DEF IInv, TypeOK, AdmStates, Ledger
<1>2. Moves(state, adm, Cancelled(wait))
  BY DEF Becomes
<1>3. slot' = slot /\ slot' \in Slots /\ plan' \in Plans /\ steer' \in Steers /\ Ahead'
  BY DEF IInv, TypeOK, Slots, Plans, Steers, Ahead, runVars
<1>4. inputs' \in 0..MaxInputs /\ inputs <= inputs' /\ troubles' \in 0..MaxTroubles
  BY Bounds DEF IInv, TypeOK, Fine, Trouble
<1> QED BY <1>1, <1>2, <1>3, <1>4, BecomesKeeps

LEMMA BlockSetupKeeps ==
    ASSUME IInv, BlockSetup
    PROVE  IInv'
<1>1. adm \in [Gens -> AdmStates] /\ \A g \in Gens : g > gen => adm[g] = "none"
  BY DEF IInv, TypeOK, AdmStates, Ledger
<1>2. Moves("blocked", adm, Cancelled(wait)) /\ status \in {"ready", "running"}
  BY DEF Becomes, BlockSetup, Claimable
<1>3. gen <= MaxGen /\ status \notin Terminal
  BY <1>2 DEF IInv, Roomy, Terminal
<1>4. slot'.work = "none" /\ slot' \in Slots /\ plan' = NoPlan /\ plan' \in Plans
  BY Bounds DEF BlockSetup, Takes, NoPlan, Slots, Plans, Snapshots
<1>5. steer' \in Steers /\ steer'.wake = steer.wake /\ steer'.open = steer.open
  BY DEF BlockSetup, Takes, IInv, TypeOK, Steers
<1>6. plan'.ask = "none" /\ inputs' = inputs
  BY <1>4 DEF NoPlan, BlockSetup
<1>7. Ahead'
  BY <1>5, <1>6 DEF Ahead, IInv
<1>8. inputs' \in 0..MaxInputs /\ inputs <= inputs' /\ troubles' \in 0..MaxTroubles
  BY <1>6, Bounds DEF IInv, TypeOK, BlockSetup, Trouble
<1>9. probes' = probes /\ UNCHANGED <<used, reads, covered, hookVars, worldVars>>
  BY DEF BlockSetup
<1>10. "blocked" \in Stops
  BY DEF Stops
<1> QED BY <1>1, <1>2, <1>3, <1>4, <1>5, <1>7, <1>8, <1>9, <1>10, BecomesKeeps

-----------------------------------------------------------------------------
(* People and limits. *)

LEMMA ControlKeeps ==
    ASSUME IInv, Pause \/ Cancel \/ Resume \/ Adopt \/ Expire
    PROVE  IInv'
<1>1. status \notin Terminal /\ (Fine \/ Trouble) /\ probes' = probes
      /\ UNCHANGED <<runVars, used, inputs, reads, covered, hookVars, worldVars>>
  BY DEF Pause, Cancel, Resume, Adopt, Expire, Person
<1>2. PICK state \in Stops : /\ Becomes(state)
                             /\ state = "ready" => gen < MaxGen
                             /\ state \in {"blocked", "paused"} => gen <= MaxGen
  BY DEF Pause, Cancel, Resume, Adopt, Expire, Stops
<1> QED BY <1>1, <1>2, BecomesAlone

LEMMA AcceptSteerKeeps ==
    ASSUME IInv, AcceptSteer
    PROVE  IInv'
<1>1. steer' = NoSteer /\ slot' = slot /\ plan' = plan /\ UNCHANGED <<used, covered, reads, probes, hookVars,
                                                                      worldVars, troubles>>
  BY DEF AcceptSteer, Fine
<1>2. steer' \in Steers /\ steer'.wake = 0 /\ ~steer'.open /\ ~steer'.live
  BY <1>1, Bounds DEF NoSteer, Steers
<1>3. inputs \in Nat /\ inputs < MaxInputs /\ covered \in 0..inputs
  BY DEF IInv, TypeOK, Ahead, AcceptSteer
<1>4. Ahead'
  BY <1>1, <1>2 DEF IInv, Ahead
<1>5. slot' \in Slots /\ plan' \in Plans /\ troubles' \in 0..MaxTroubles
  BY <1>1 DEF IInv, TypeOK, Slots, Plans
<1>6. CASE Accepts /\ steer.wake # 0
  <2>1. inputs' = inputs + 1 /\ Moves("ready", adm, Cancelled(wait))
    BY <1>6 DEF AcceptSteer, Becomes
  <2>2. status \notin Terminal /\ gen < MaxGen
    BY <1>6 DEF Accepts, IInv, Ahead
  <2>3. adm \in [Gens -> AdmStates] /\ \A g \in Gens : g > gen => adm[g] = "none"
    BY DEF IInv, TypeOK, AdmStates, Ledger
  <2>4. inputs' \in 0..MaxInputs /\ inputs <= inputs'
    BY <1>3, <2>1, Bounds
  <2>5. "ready" \in Stops
    BY DEF Stops
  <2> QED BY <1>1, <1>2, <1>4, <1>5, <2>1, <2>2, <2>3, <2>4, <2>5, BecomesKeeps
<1>7. CASE ~(Accepts /\ steer.wake # 0)
  <2>1. UNCHANGED <<status, gen, adm, wait>> /\ inputs' \in 0..MaxInputs /\ covered \in 0..inputs'
    BY <1>3, <1>7, Bounds DEF AcceptSteer
  <2>2. inputs' # inputs => steer.live /\ steer.open /\ steer.wake = 0 /\ status \notin Terminal
    BY <1>7 DEF AcceptSteer, Accepts, Bound
  <2>3. TypeOK'
    BY <1>1, <1>2, <1>5, <2>1 DEF IInv, TypeOK, Slots, Plans, Steers, hookVars, worldVars
  <2>4. InputsReach'
    <3>1. status \in {"waiting", "done"} => inputs' = inputs
      BY <2>2 DEF IInv, Knows, Terminal
    <3> QED BY <1>1, <2>1, <3>1 DEF IInv, InputsReach
  <2>5. OwnsItsWork' /\ Ledger' /\ Roomy' /\ Runs' /\ Behind'
    BY <1>1, <2>1 DEF IInv, OwnsItsWork, Owned, Ledger, Roomy, Runs, Behind
  <2>6. Knows'
    BY <1>2 DEF Knows
  <2> QED BY <1>4, <2>3, <2>4, <2>5, <2>6 DEF IInv
<1> QED BY <1>6, <1>7

-----------------------------------------------------------------------------
(* Reads on behalf of the wait. *)

\* A step on an open wait that keeps its name, and leaves the task where it is.
LEMMA WaitStepKeeps ==
    ASSUME IInv, wait' \in Waits, wait'.obs <= wait'.sig,
           wait'.gen = wait.gen, wait'.open = wait.open, wait'.sig = wait.sig,
           probes' \subseteq Probes,
           \A p \in probes' : p \in probes \/ (p.wait <= wait.gen /\ p.sig <= wait.sig),
           reads' \in 0..MaxReads,
           UNCHANGED <<taskVars, runVars, hookVars, worldVars, troubles>>
    PROVE  IInv'
<1>1. TypeOK'
  BY DEF IInv, TypeOK, Waits, Probes, taskVars, runVars, hookVars, worldVars
<1>2. OwnsItsWork' /\ InputsReach' /\ Ledger' /\ Knows' /\ Roomy' /\ Ahead' /\ Runs'
  BY DEF IInv, OwnsItsWork, Owned, InputsReach, Ledger, Knows, Roomy, Ahead, Runs, taskVars, runVars
<1>3. Behind'
  BY DEF IInv, Behind, taskVars
<1> QED BY <1>1, <1>2, <1>3 DEF IInv

LEMMA ClaimKeeps ==
    ASSUME IInv, Claim
    PROVE  IInv'
<1>1. status = "waiting" /\ gen < MaxGen /\ Fine /\ gen \in Nat
      /\ UNCHANGED <<runVars, used, inputs, covered, hookVars, worldVars>>
  <2>1. status = "waiting" /\ Fine /\ UNCHANGED <<runVars, used, inputs, covered, hookVars, worldVars>>
    BY DEF Claim, Current
  <2>2. gen \in Nat
    BY Bounds DEF IInv, TypeOK, Gens
  <2>3. gen < MaxGen
    BY <2>1 DEF IInv, Roomy
  <2> QED BY <2>1, <2>2, <2>3
<1>2. ASSUME NEW state \in {"exhausted", "blocked"}, Becomes(state), UNCHANGED <<reads, probes>>
      PROVE  IInv'
  <2>1. status \notin Terminal /\ state \in Stops /\ gen <= MaxGen /\ probes' \subseteq probes
    BY <1>1, <1>2, Bounds DEF Terminal, Stops
  <2> QED BY <1>1, <1>2, <2>1, BecomesAlone
<1>3. ASSUME MayRead, reads' = (IF Fallback THEN reads + 1 ELSE reads), NEW c \in NewClaim,
             wait' = [wait EXCEPT !.read = TRUE, !.valid = TRUE, !.claim = c, !.missed = FALSE],
             probes' = probes \cup {[wait |-> wait.gen, claim |-> c, sig |-> wait.sig,
                                     got |-> "none", seen |-> wait.base]},
             UNCHANGED <<status, gen, adm>>
      PROVE  IInv'
  <2> DEFINE q == [wait |-> wait.gen, claim |-> c, sig |-> wait.sig, got |-> "none", seen |-> wait.base]
  <2>1. reads' \in 0..MaxReads
    BY <1>3, Bounds DEF MayRead, IInv, TypeOK
  <2>2. wait \in Waits /\ wait.obs <= wait.sig /\ c \in Claims /\ wait.gen \in Gens
    BY <1>3 DEF IInv, TypeOK, Waits, NewClaim, Claim, Current
  <2>3. /\ wait' \in Waits /\ wait'.obs = wait.obs /\ wait'.sig = wait.sig
        /\ wait'.gen = wait.gen /\ wait'.open = wait.open
    BY <1>3, <2>2 DEF Waits
  <2>4. q \in Probes /\ q.wait = wait.gen /\ q.sig = wait.sig /\ probes' = probes \cup {q}
    BY <1>3, <2>2 DEF Waits, Probes
  <2> HIDE DEF q
  <2>5. probes' \subseteq Probes
    BY <2>4 DEF IInv, TypeOK, Probes
  <2>6. wait.gen <= wait.gen /\ wait.sig <= wait.sig
    BY <2>2, Bounds DEF Waits, Gens
  <2>7. UNCHANGED <<taskVars, runVars, hookVars, worldVars, troubles>>
    BY <1>1, <1>3 DEF taskVars, Fine
  <2>8. wait'.obs <= wait'.sig
    BY <2>2, <2>3
  <2>9. \A p \in probes' : p \in probes \/ (p.wait <= wait.gen /\ p.sig <= wait.sig)
    BY <2>4, <2>6
  <2> QED BY <2>1, <2>3, <2>5, <2>7, <2>8, <2>9, WaitStepKeeps
<1> QED BY <1>2, <1>3 DEF Claim

LEMMA FinishKeeps ==
    ASSUME IInv, NEW p \in probes, Finish(p)
    PROVE  IInv'
<1>1. probes' = probes \ {p} /\ probes' \subseteq Probes
      /\ UNCHANGED <<used, inputs, covered, runVars, reads, hookVars, worldVars>>
  BY DEF Finish, IInv, TypeOK, Probes
<1>2. wait \in Waits /\ wait.obs <= wait.sig /\ p \in Probes /\ reads \in 0..MaxReads
  BY DEF IInv, TypeOK, Waits, Probes
<1>3. CASE ~Ours(p) /\ Fine /\ UNCHANGED <<status, gen, adm, wait>>
  BY <1>1, <1>2, <1>3, WaitStepKeeps DEF taskVars, Fine
<1>4. ASSUME Ours(p), NEW state \in {"exhausted", "blocked", "ready"}, Becomes(state), Fine \/ Trouble
      PROVE  IInv'
  <2>1. status \notin Terminal /\ state \in Stops /\ gen < MaxGen /\ gen <= MaxGen /\ probes' \subseteq probes
    BY <1>1, <1>4, Bounds DEF Ours, Current, Terminal, Stops, IInv, Roomy, TypeOK, Gens
  <2> QED BY <1>1, <1>4, <2>1, BecomesAlone
<1>5. CASE Ours(p) /\ Update(p) /\ Fine /\ p.got # "moved"
  <2>1. wait.open /\ wait.gen = p.wait /\ p.sig <= wait.sig
    BY <1>5 DEF Ours, Current, IInv, Behind
  <2> DEFINE b == IF p.got = "check" THEN p.seen ELSE wait.base
             m == p.got = "error" /\ wait.sig = p.sig
  <2>2. b \in Snapshots /\ m \in BOOLEAN /\ p.sig \in Nat
    BY <1>2 DEF Waits, Probes
  <2>3. wait' = [wait EXCEPT !.obs = p.sig, !.valid = FALSE, !.base = b, !.missed = m]
    BY <1>5 DEF Update, Marks
  <2> HIDE DEF b, m
  <2>4. /\ wait' \in Waits /\ wait'.obs = p.sig /\ wait'.sig = wait.sig
        /\ wait'.gen = wait.gen /\ wait'.open = wait.open
    BY <1>2, <2>2, <2>3 DEF Waits
  <2>5. UNCHANGED <<taskVars, runVars, hookVars, worldVars, troubles>> /\ reads' \in 0..MaxReads
    BY <1>1, <1>2, <1>5 DEF taskVars, Fine, Update
  <2>6. \A x \in probes' : x \in probes
    BY <1>1
  <2>7. wait'.obs <= wait'.sig
    BY <2>1, <2>4
  <2> QED BY <1>1, <2>4, <2>5, <2>6, <2>7, WaitStepKeeps
<1> QED BY <1>3, <1>4, <1>5 DEF Finish

-----------------------------------------------------------------------------
(* The report. *)

\* A current report's verdict has room for its transition.
LEMMA VerdictRoom ==
    ASSUME IInv, plan.ask # "none", ~Stale, NEW state \in Verdicts
    PROVE  /\ state \in {"ready", "blocked", "waiting", "done", "exhausted"}
           /\ state = "ready" => gen < MaxGen
           /\ state = "waiting" => gen + 1 < MaxGen /\ plan.seen \in Snapshots
           /\ state \in {"waiting", "done"} => inputs = covered
<1>1. slot.gen = gen /\ status = "running"
  BY DEF Stale
<1>2. /\ plan \in Plans /\ plan.seen \in Snapshots
      /\ plan.ask \in {"unverified", "continue", "waiting", "complete", "blocked"}
  BY DEF IInv, TypeOK, Plans, Asks
<1>3. /\ plan.ask = "continue" => gen < MaxGen
      /\ plan.ask = "waiting" => gen + 1 < MaxGen /\ gen < MaxGen
  BY <1>1, Bounds DEF IInv, Ahead, TypeOK, Gens
<1>4. state \in {"blocked", "exhausted"} \/ (state \in Judged /\ plan.ask # "unverified" /\ Matches)
  BY DEF Verdicts
<1>5. state \in Judged /\ plan.ask # "unverified" =>
          \/ state = "blocked"
          \/ state = "ready" /\ plan.ask \in {"continue", "waiting"}
          \/ state = "done"
          \/ state = "waiting" /\ plan.ask = "waiting"
  <2>1. CASE plan.ask = "continue"
    BY <2>1 DEF Judged
  <2>2. CASE plan.ask = "waiting"
    BY <2>2 DEF Judged
  <2>3. CASE plan.ask = "complete"
    BY <2>3 DEF Judged
  <2>4. CASE plan.ask = "blocked"
    BY <2>4 DEF Judged
  <2> QED BY <1>2, <2>1, <2>2, <2>3, <2>4
<1> QED BY <1>2, <1>3, <1>4, <1>5 DEF Matches

LEMMA ReportKeeps ==
    ASSUME IInv, Report
    PROVE  IInv'
<1> DEFINE ledger == [adm EXCEPT ![slot.gen] = "settled"]
<1>1. slot' = Free /\ plan' = NoPlan /\ steer' = [steer EXCEPT !.live = FALSE]
      /\ UNCHANGED <<used, reads, inputs, covered, probes, hookVars, worldVars>>
  BY DEF Report
<1>2. slot' \in Slots /\ slot'.work = "none" /\ plan' \in Plans /\ plan'.ask = "none"
  BY <1>1, Bounds DEF Free, Slots, NoPlan, Plans, Snapshots
<1>3. steer' \in Steers /\ steer'.wake = steer.wake /\ steer'.open = steer.open /\ ~steer'.live
  BY <1>1 DEF IInv, TypeOK, Steers
<1>4. Ahead' /\ Runs' /\ Knows'
  BY <1>1, <1>2, <1>3 DEF IInv, Ahead, Runs, Knows
<1>5. slot.work = "task" /\ slot.gen \in 1..gen /\ gen \in Gens /\ slot.gen \in Gens
  BY Bounds DEF Report, IInv, Ahead, Runs, TypeOK, Gens
<1>6. /\ ledger \in [Gens -> AdmStates]
      /\ \A g \in Gens : ledger[g] = IF g = slot.gen THEN "settled" ELSE adm[g]
      /\ \A g \in Gens : g > gen => ledger[g] = "none"
  BY <1>5 DEF IInv, TypeOK, AdmStates, Ledger, Gens
<1> HIDE DEF ledger
<1>7. CASE Stale /\ adm' = ledger /\ Fine /\ UNCHANGED <<status, gen, wait>>
  <2>1. TypeOK'
    BY <1>1, <1>2, <1>3, <1>6, <1>7 DEF IInv, TypeOK, Slots, Plans, Steers, AdmStates, Fine, hookVars, worldVars
  <2>2. status \in {"ready", "running"} => slot.gen # gen
    BY <1>5, <1>7 DEF Stale, IInv, Runs
  <2>3. OwnsItsWork'
    <3>1. Owned' = Owned
      BY <1>7 DEF Owned
    <3>2. \A g \in Gens : adm'[g] = "queued" => adm[g] = "queued"
      BY <1>6, <1>7
    <3>3. status \in {"ready", "running"} => adm'[gen] = adm[gen]
      BY <1>5, <1>6, <1>7, <2>2
    <3> QED BY <1>7, <3>1, <3>2, <3>3 DEF IInv, OwnsItsWork
  <2>4. Ledger'
    BY <1>5, <1>6, <1>7 DEF IInv, Ledger, Live
  <2>5. InputsReach' /\ Roomy' /\ Behind'
    BY <1>1, <1>7 DEF IInv, InputsReach, Roomy, Behind
  <2> QED BY <1>4, <2>1, <2>3, <2>4, <2>5 DEF IInv
<1>8. ASSUME ~Stale, NEW state \in Stops, Moves(state, ledger, Cancelled(wait)), Fine \/ Trouble,
             state = "ready" => gen < MaxGen
      PROVE  IInv'
  <2>1. status \notin Terminal /\ gen <= MaxGen
    BY <1>8 DEF Stale, Terminal, IInv, Roomy
  <2>2. probes' \subseteq probes /\ inputs' \in 0..MaxInputs /\ inputs <= inputs'
    BY <1>1 DEF IInv, TypeOK
  <2>3. troubles' \in 0..MaxTroubles
    BY <1>8, Bounds DEF IInv, TypeOK, Fine, Trouble
  <2> QED BY <1>1, <1>2, <1>3, <1>4, <1>6, <1>8, <2>1, <2>2, <2>3, BecomesKeeps
<1>9. ASSUME ~Stale, Fine, NEW state \in {"waiting", "done"},
             Moves(state, ledger, IF state = "waiting" THEN Armed(plan.seen) ELSE Cancelled(wait)),
             state = "waiting" => gen + 1 < MaxGen, inputs = covered
      PROVE  IInv'
  <2>1. gen <= MaxGen /\ gen + 1 \in Gens /\ wait \in Waits /\ wait.gen <= gen /\ plan.seen \in Snapshots
    BY <1>5, <1>9, Bounds DEF Stale, IInv, Roomy, TypeOK, Gens, Waits, Behind
  <2>2. Sound /\ gen' = gen + 1 /\ status' = state
    BY <1>5, <1>6, <1>9, <2>1, MovesSound DEF States, Terminal
  <2>3. TypeOK'
    BY <1>1, <1>2, <1>3, <1>9, <2>2 DEF IInv, TypeOK, Sound, Slots, Plans, Steers, Waits, AdmStates, Fine,
       hookVars, worldVars
  <2>4. InputsReach' /\ Roomy'
    BY <1>1, <1>9, <2>1, <2>2, Bounds DEF InputsReach, Roomy, Gens
  <2>5. Behind'
    <3>1. \A x \in probes : x.wait \in Gens /\ x.wait <= wait.gen /\ wait.gen \in Nat
      BY <2>1, Bounds DEF IInv, TypeOK, Behind, Waits
    <3>2. wait'.gen = gen + 1 \/ (wait'.gen = wait.gen /\ ~wait'.open)
      <4>1. Armed(plan.seen).gen = gen + 1 /\ Cancelled(wait).gen = wait.gen /\ ~Cancelled(wait).open
        BY <1>5, <2>1, WaitShapes
      <4> QED BY <1>9, <4>1 DEF Moves
    <3>3. \A x \in probes : x.wait <= wait'.gen /\ (wait'.open => x.wait # wait'.gen)
      BY <1>5, <2>1, <3>1, <3>2 DEF Gens
    <3> QED BY <1>1, <2>2, <3>3 DEF Behind, Sound
  <2> QED BY <1>4, <2>2, <2>3, <2>4, <2>5 DEF IInv, Sound
<1>10. CASE ~Stale /\ \E state \in Verdicts :
              \/ Moves(state, ledger, IF state = "waiting" THEN Armed(plan.seen) ELSE Cancelled(wait)) /\ Fine
              \/ state = "ready" /\ Moves("blocked", ledger, Cancelled(wait)) /\ Trouble
  <2>1. PICK state \in Verdicts :
              \/ Moves(state, ledger, IF state = "waiting" THEN Armed(plan.seen) ELSE Cancelled(wait)) /\ Fine
              \/ state = "ready" /\ Moves("blocked", ledger, Cancelled(wait)) /\ Trouble
    BY <1>10
  <2>2. plan.ask # "none"
    BY DEF Report
  <2>3. /\ state \in {"ready", "blocked", "waiting", "done", "exhausted"}
        /\ state = "ready" => gen < MaxGen
        /\ state = "waiting" => gen + 1 < MaxGen /\ plan.seen \in Snapshots
        /\ state \in {"waiting", "done"} => inputs = covered
    BY <1>10, <2>1, <2>2, VerdictRoom
  <2>4. CASE state \in {"waiting", "done"} /\ Fine
             /\ Moves(state, ledger, IF state = "waiting" THEN Armed(plan.seen) ELSE Cancelled(wait))
    BY <1>9, <1>10, <2>3, <2>4
  <2>5. CASE state \in {"ready", "blocked", "exhausted"} /\ Moves(state, ledger, Cancelled(wait)) /\ Fine
    BY <1>8, <1>10, <2>3, <2>5 DEF Stops
  <2>6. CASE Moves("blocked", ledger, Cancelled(wait)) /\ Trouble
    BY <1>8, <1>10, <2>6 DEF Stops
  <2> QED BY <2>1, <2>3, <2>4, <2>5, <2>6
<1> QED BY <1>7, <1>10 DEF Report, ledger

-----------------------------------------------------------------------------
(* The world. *)

LEMMA WorldKeeps ==
    ASSUME IInv, StartAttempt \/ Complete \/ MoveHead \/ Spend \/ Late \/ Revoke
    PROVE  IInv'
<1>1. World
  BY DEF StartAttempt, Complete, MoveHead, Spend, Late, Revoke
<1>2. TypeOK'
  <2>1. check' \in Snapshots
    <3>1. check \in Snapshots
      BY DEF IInv, TypeOK
    <3>2. CASE StartAttempt
      BY <3>1, <3>2, Bounds DEF StartAttempt, Snapshots
    <3>3. CASE Complete
      BY <3>1, <3>3 DEF Complete, Snapshots
    <3>4. CASE MoveHead \/ Spend \/ Late \/ Revoke
      BY <3>1, <3>4 DEF MoveHead, Spend, Late, Revoke
    <3> QED BY <3>2, <3>3, <3>4
  <2>2. moved' \in BOOLEAN /\ revoked' \in BOOLEAN /\ limit' \in {"within", "spent", "late"}
    BY DEF IInv, TypeOK, StartAttempt, Complete, MoveHead, Spend, Late, Revoke
  <2>3. troubles' \in 0..MaxTroubles
    BY Bounds DEF IInv, TypeOK, StartAttempt, Complete, MoveHead, Spend, Late, Revoke, Fine, Trouble
  <2> QED BY <1>1, <2>1, <2>2, <2>3 DEF IInv, TypeOK, World, taskVars, runVars, waitVars, hookVars
<1>3. OwnsItsWork' /\ InputsReach' /\ Ledger' /\ Knows' /\ Roomy' /\ Ahead' /\ Runs' /\ Behind'
  BY <1>1 DEF IInv, OwnsItsWork, Owned, InputsReach, Ledger, Knows, Roomy, Ahead, Runs, Behind,
     World, taskVars, runVars, waitVars
<1> QED BY <1>2, <1>3 DEF IInv

-----------------------------------------------------------------------------
(* The theorems. *)

LEMMA InitIInv == Init => IInv
<1> SUFFICES ASSUME Init PROVE IInv
  OBVIOUS
<1>1. TypeOK
  <2>1. slot \in Slots /\ plan \in Plans /\ steer \in Steers /\ wait \in Waits
    BY Bounds DEF Init, Free, NoPlan, NoSteer, NoWait, Slots, Plans, Steers, Waits, Snapshots, Claims
  <2>2. wait.obs <= wait.sig
    BY DEF Init, NoWait
  <2>3. adm \in [Gens -> AdmStates] /\ check \in Snapshots
    BY Bounds DEF Init, AdmStates, Snapshots
  <2>4. status \in States /\ gen \in Gens
    BY Bounds DEF Init, States, Gens
  <2>5. cursor \in [Attempts -> 0..(MaxGen + 2)]
    BY Bounds DEF Init
  <2>6. used \in 0..MaxLeases /\ reads \in 0..MaxReads /\ inputs \in 0..MaxInputs /\ covered \in 0..inputs
        /\ troubles \in 0..MaxTroubles
    BY Bounds DEF Init
  <2>7. probes = {} /\ retained = {} /\ ended = {} /\ moved = FALSE /\ revoked = FALSE /\ limit = "within"
    BY DEF Init
  <2> QED BY <2>1, <2>2, <2>3, <2>4, <2>5, <2>6, <2>7 DEF TypeOK, Slots, Plans, Steers, Waits, AdmStates
<1>2. OwnsItsWork /\ InputsReach /\ Ledger
  BY Bounds DEF Init, OwnsItsWork, Owned, InputsReach, Ledger, Live, Gens, NoWait
<1>3. Roomy /\ Ahead /\ Runs /\ Knows /\ Behind
  BY Bounds DEF Init, Roomy, Ahead, Runs, Knows, Behind, Free, NoPlan, NoSteer, NoWait
<1> QED BY <1>1, <1>2, <1>3 DEF IInv

LEMMA NextIInv == IInv /\ [Next]_vars => IInv'
<1> SUFFICES ASSUME IInv, [Next]_vars PROVE IInv'
  OBVIOUS
<1>1. CASE Issue \/ Refuse \/ BlockSetup \/ TakeOther \/ EndOther \/ Lapse
  BY <1>1, IssueKeeps, RefuseKeeps, BlockSetupKeeps, TakeOtherKeeps, EndOtherKeeps, LapseKeeps
<1>2. CASE Cover \/ (\E ask \in Asks : PrepareReport(ask)) \/ PrepareBlind \/ Report
  BY <1>2, CoverKeeps, PrepareReportKeeps, PrepareBlindKeeps, ReportKeeps
<1>3. CASE Pause \/ Cancel \/ Resume \/ Adopt \/ BeginSteer \/ AcceptSteer
  BY <1>3, ControlKeeps, BeginSteerKeeps, AcceptSteerKeeps
<1>4. CASE Maintain
  BY <1>4, ControlKeeps, FanoutKeeps, ClaimKeeps, LapseClaimKeeps, ObserveKeeps, FinishKeeps DEF Maintain
<1>5. CASE ClaimSuperseded \/ (\E p \in probes : DropProbe(p)) \/ Meter \/ (\E a \in Attempts : DeliverWebhook(a))
  BY <1>5, ClaimSupersededKeeps, DropProbeKeeps, MeterKeeps, DeliverWebhookKeeps
<1>6. CASE StartAttempt \/ Complete \/ MoveHead \/ Spend \/ Late \/ Revoke
  BY <1>6, WorldKeeps
<1>7. CASE UNCHANGED vars
  <2>1. TypeOK'
    BY <1>7 DEF IInv, TypeOK, vars, taskVars, runVars, waitVars, hookVars, worldVars
  <2>2. OwnsItsWork' /\ InputsReach' /\ Ledger' /\ Knows' /\ Roomy' /\ Ahead' /\ Runs' /\ Behind'
    BY <1>7 DEF IInv, OwnsItsWork, Owned, InputsReach, Ledger, Knows, Roomy, Ahead, Runs, Behind,
       vars, taskVars, runVars, waitVars
  <2> QED BY <2>1, <2>2 DEF IInv
<1> QED BY <1>1, <1>2, <1>3, <1>4, <1>5, <1>6, <1>7 DEF Next

THEOREM Invariant == Spec => []IInv
BY InitIInv, NextIInv, PTL DEF Spec

\* Types and allowances: no race of claims takes more fallback reads, nor of runs more
\* leases, than the task has, and an observed signal was sent.
THEOREM TypeCorrect == Spec => []TypeOK
<1>1. IInv => TypeOK
  BY DEF IInv
<1> QED BY <1>1, Invariant, PTL

\* The report, the reads, the inputs, the controls, the limits and the meter leave the task
\* with the continuation and the wait its state calls for, and no other.
THEOREM WorkOwned == Spec => []OwnsItsWork
<1>1. IInv => OwnsItsWork
  BY DEF IInv
<1> QED BY <1>1, Invariant, PTL

\* No accepted input is left unseen by a task that waits or is done.
THEOREM InputsSeen == Spec => []InputsReach
<1>1. IInv => InputsReach
  BY DEF IInv
<1> QED BY <1>1, Invariant, PTL

\* A step that changes the state or the generation of a task is none that comes late: an
\* ended task does not move, and a paused one moves where a person or a limit takes it.
LEMMA StopsHold ==
    ASSUME IInv, Next
    PROVE  /\ status \in Terminal => UNCHANGED <<status, gen>>
           /\ status = "paused" => status' \in {"paused", "ready", "cancelled", "exhausted"}
<1>1. CASE Issue \/ Refuse \/ BlockSetup \/ TakeOther \/ EndOther \/ Lapse
  BY <1>1 DEF Issue, Refuse, BlockSetup, TakeOther, EndOther, Lapse, Claimable, Becomes, Moves, Terminal,
     taskVars
<1>2. CASE Cover \/ (\E ask \in Asks : PrepareReport(ask)) \/ PrepareBlind
  BY <1>2 DEF Cover, PrepareReport, PrepareBlind, taskVars
<1>3. CASE Report
  <2>1. Stale => UNCHANGED <<status, gen>>
    BY <1>3 DEF Report
  <2> QED BY <2>1 DEF Stale, Terminal
<1>4. CASE Pause \/ Cancel \/ Resume \/ Adopt \/ Expire \/ Meter
  BY <1>4 DEF Pause, Cancel, Resume, Adopt, Expire, Meter, Person, Becomes, Moves
<1>5. CASE BeginSteer \/ AcceptSteer
  BY <1>5 DEF BeginSteer, AcceptSteer, Accepts, Becomes, Moves, taskVars
<1>6. CASE Claim \/ ClaimSuperseded \/ LapseClaim \/ (\E a \in Attempts : Fanout(a) \/ DeliverWebhook(a))
  BY <1>6 DEF Claim, Current, ClaimSuperseded, LapseClaim, Fanout, DeliverWebhook, Terminal, taskVars
<1>7. CASE \E p \in probes : Observe(p) \/ Finish(p) \/ DropProbe(p)
  BY <1>7 DEF Observe, Finish, DropProbe, Ours, Current, Update, Terminal, taskVars
<1>8. CASE StartAttempt \/ Complete \/ MoveHead \/ Spend \/ Late \/ Revoke
  BY <1>8 DEF StartAttempt, Complete, MoveHead, Spend, Late, Revoke, World, taskVars
<1> QED BY <1>1, <1>2, <1>3, <1>4, <1>5, <1>6, <1>7, <1>8 DEF Next, Maintain

\* What a person or a limit stopped stays stopped, whatever report, read or input is late.
THEOREM StaysStopped == Spec => StoppedStays
<1>1. IInv /\ [Next]_vars => [/\ status \in Terminal => UNCHANGED <<status, gen>>
                              /\ status = "paused" => status' \in {"paused", "ready", "cancelled", "exhausted"}]_vars
  BY StopsHold
<1> QED BY <1>1, Invariant, PTL DEF Spec, StoppedStays

=============================================================================
