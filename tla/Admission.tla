----------------------------- MODULE Admission -----------------------------
(***************************************************************************)
(* Admissions against the two backlog ceilings.  Callers of several        *)
(* replicas admit keyed work: a fleet's ceiling is checked exactly, under  *)
(* the lock of the fleet's row; the deployment's is checked against an     *)
(* estimate each replica keeps in relaxed atomics, the last sample of the  *)
(* backlog and the admissions counted since.                               *)
(*                                                                         *)
(* Abstracted: a sample is the set of rows it read, of which the code      *)
(* keeps the number; time is the age of a figure, up to the long interval. *)
(* A row leaves the backlog when it is settled or its task moves on.       *)
(* countedBy names the replicas that counted a row after its commit.       *)
(***************************************************************************)
EXTENDS Integers, FiniteSets

CONSTANTS
    Keys, FleetOf,       \* producer keys, and the fleet each is admitted to
    NoKey,
    Replicas,
    Callers, Home,       \* requests in flight, and the replica each runs in
    Wants,               \* caller -> the keys it asks for
    Stagers,             \* the callers that stage the row on a transaction of their own
    FleetBudget, DeploymentBudget, SampleEvery,
    MaxTroubles          \* bound: outages, rollbacks, lost answers and crashes

ASSUME AdmissionAssumption ==
    /\ IsFiniteSet(Keys) /\ NoKey \notin Keys
    /\ Home \in [Callers -> Replicas]
    /\ Wants \in [Callers -> SUBSET Keys]
    /\ FleetBudget \in Nat \ {0} /\ MaxTroubles \in Nat
    /\ DeploymentBudget \in Nat \ {0} /\ SampleEvery \in 1..DeploymentBudget

VARIABLES
    row,        \* key -> its row of fleet.admissions
    sampled,    \* replica -> the rows its last sample read
    since,      \* replica -> admissions counted since
    age,        \* replica -> the age of the sample, in intervals
    sampling,   \* replica -> whether the right to sample is taken
    call,       \* caller -> its admission in progress
    countedBy,  \* history: key -> the replicas that counted its committed row
    troubles    \* how many troubles happened

figureVars == <<sampled, since, age, sampling>>
vars == <<row, figureVars, call, countedBy, troubles>>

Refusing == 1   \* the age at which a refusing figure is due
Healthy == 2    \* the age at which any figure is due
Never == 3      \* no sample was taken
Figure == {"sampled", "since"}

Idle == [pc |-> "idle", key |-> NoKey, todo |-> {}, estimate |-> 0,
         counted |-> 0, rows |-> {}, age |-> 0]

Init ==
    /\ row = [k \in Keys |-> "none"]
    /\ sampled = [r \in Replicas |-> {}] /\ since = [r \in Replicas |-> 0]
    /\ age = [r \in Replicas |-> Never] /\ sampling = [r \in Replicas |-> FALSE]
    /\ call = [c \in Callers |-> Idle]
    /\ countedBy = [k \in Keys |-> {}] /\ troubles = 0

Trouble == troubles < MaxTroubles /\ troubles' = troubles + 1
Fine == UNCHANGED troubles

Backlog == {k \in Keys : row[k] = "waiting"}
Waiting(f) == {k \in Backlog : FleetOf[k] = f}

\* The rows of the backlog a replica accounts for: it read them, or counted them once committed.
Covered(r) == {k \in Backlog : k \in sampled[r] \/ r \in countedBy[k]}

At(c, pc) == call[c].pc = pc
Goes(c, pc) == call' = [call EXCEPT ![c].pc = pc]
Ends(c) == call' = [call EXCEPT ![c] = Idle]

\* On to the transaction with the estimate; to a fresh insert without it.
Proceeds(c) == call' = [call EXCEPT ![c] = [@ EXCEPT !.pc = "ask", !.counted = 0, !.rows = {}, !.age = 0]]
Inserts(c) == call' = [call EXCEPT ![c] = [Idle EXCEPT !.pc = IF c \in Stagers THEN "staged" ELSE "direct",
                                                     !.key = call[c].key]]

-----------------------------------------------------------------------------
(* The deployment's estimate. *)

Begin(c) ==
    /\ call[c].pc \in {"idle", "refused"}
    /\ \E k \in Wants[c] : call' = [call EXCEPT ![c] = [Idle EXCEPT !.pc = "load", !.key = k, !.todo = Figure]]
    /\ Fine /\ UNCHANGED <<row, figureVars, countedBy>>

Part(r, part) == IF part = "sampled" THEN Cardinality(sampled[r]) ELSE since[r]

\* Of an estimate only whether it reaches the budget matters.
Capped(n) == IF n < DeploymentBudget THEN n ELSE DeploymentBudget

\* The figure's two parts are loaded one after the other; relaxed loads in either order.
Load(c) ==
    /\ call[c].pc \in {"load", "reload"}
    /\ \E part \in call[c].todo :
          call' = [call EXCEPT ![c].todo = @ \ {part}, ![c].estimate = Capped(@ + Part(Home[c], part))]
    /\ Fine /\ UNCHANGED <<row, figureVars, countedBy>>

Over(c) == call[c].estimate >= DeploymentBudget

Due(c) ==
    \/ age[Home[c]] = Never
    \/ since[Home[c]] >= SampleEvery
    \/ age[Home[c]] >= IF Over(c) THEN Refusing ELSE Healthy

JudgeAge(c) ==
    /\ At(c, "load") /\ call[c].todo = {}
    /\ IF Due(c) THEN Goes(c, "claim") ELSE Proceeds(c)
    /\ Fine /\ UNCHANGED <<row, figureVars, countedBy>>

\* Whoever loses the claim goes on with its own estimate; the winner notes what is counted
\* before it queries.
Claim(c) ==
    /\ At(c, "claim")
    /\ IF sampling[Home[c]]
       THEN Proceeds(c) /\ UNCHANGED sampling
       ELSE /\ sampling' = [sampling EXCEPT ![Home[c]] = TRUE]
            /\ call' = [call EXCEPT ![c].pc = "query", ![c].counted = since[Home[c]], ![c].age = 0]
    /\ Fine /\ UNCHANGED <<row, sampled, since, age, countedBy>>

Query(c) ==
    /\ At(c, "query")
    /\ call' = [call EXCEPT ![c].pc = "publish", ![c].rows = Backlog, ![c].todo = Figure \cup {"read_at"}]
    /\ Fine /\ UNCHANGED <<row, figureVars, countedBy>>

\* Mutant: whoever sampled keeps the right to.
KeptRight(r) == sampling

\* The claim's drop gives the right back, however the sample ended.
Released(r) == [sampling EXCEPT ![r] = FALSE]

QueryFails(c) ==
    /\ At(c, "query") /\ Proceeds(c) /\ sampling' = Released(Home[c])
    /\ Trouble /\ UNCHANGED <<row, sampled, since, age, countedBy>>

\* Mutant: the sample takes off everything counted by the time it is published.
NothingLeft(c) == 0

\* Admissions counted after the claim stay counted.
Remaining(c) ==
    LET r == Home[c] IN IF since[r] > call[c].counted THEN since[r] - call[c].counted ELSE 0

\* Three stores, which other callers may see in any order; then the estimate is read again.
Publish(c) ==
    /\ At(c, "publish")
    /\ \E part \in call[c].todo :
        LET r == Home[c]
            left == call[c].todo \ {part} IN
        /\ sampled' = IF part = "sampled" THEN [sampled EXCEPT ![r] = call[c].rows] ELSE sampled
        /\ since' = IF part = "since" THEN [since EXCEPT ![r] = Remaining(c)] ELSE since
        /\ age' = IF part = "read_at" THEN [age EXCEPT ![r] = call[c].age] ELSE age
        /\ call' = [call EXCEPT ![c] = IF left # {} THEN [@ EXCEPT !.todo = left]
                                       ELSE [@ EXCEPT !.pc = "reload", !.todo = Figure, !.estimate = 0,
                                                      !.counted = 0, !.rows = {}, !.age = 0]]
    /\ Fine /\ UNCHANGED <<row, sampling, countedBy>>

Release(c) ==
    /\ At(c, "reload") /\ call[c].todo = {}
    /\ Proceeds(c) /\ sampling' = Released(Home[c])
    /\ Fine /\ UNCHANGED <<row, sampled, since, age, countedBy>>

-----------------------------------------------------------------------------
(* The transaction. *)

\* A key that has a row is answered with it and needs no lock.
Ask(c) ==
    /\ At(c, "ask")
    /\ IF row[call[c].key] # "none" THEN Ends(c)
       ELSE Goes(c, "lock")
    /\ Fine /\ UNCHANGED <<row, figureVars, countedBy>>

Open(c) == call[c].pc \in {"direct", "staged", "counted"}

\* Mutant: fresh inserts of a fleet are not serialized.
NeverLocked(f) == FALSE

\* Another transaction holds the fleet's row.
Locked(f) == \E d \in Callers : Open(d) /\ FleetOf[call[d].key] = f

\* Mutant: the answer from before the lock is still believed.
StillUnknown(k) == FALSE

\* The key got its row while its fleet was locked by another.
Repeated(k) == row[k] # "none"

Full(k) == Cardinality(Waiting(FleetOf[k])) >= FleetBudget

\* Under the lock: the fleet's budget, then the insert with the deployment's.
Decide(c) ==
    LET k == call[c].key IN
    /\ At(c, "lock") /\ ~Locked(FleetOf[k])
    /\ \/ Repeated(k) /\ Ends(c)
       \/ /\ ~Repeated(k)
          /\ IF Full(k) \/ Over(c)
             THEN call' = [call EXCEPT ![c] = [Idle EXCEPT !.pc = "refused"]]
             ELSE Inserts(c)
    /\ Fine /\ UNCHANGED <<row, figureVars, countedBy>>

\* The row is counted after its commit; one staged on a caller's transaction, before it.
Count(c) ==
    LET k == call[c].key
        r == Home[c] IN
    /\ \/ At(c, "staged") /\ Goes(c, "counted")
       \/ At(c, "committed") /\ Ends(c)
    /\ since' = [since EXCEPT ![r] = @ + 1]
    /\ countedBy' = IF At(c, "committed") THEN [countedBy EXCEPT ![k] = @ \cup {r}] ELSE countedBy
    /\ Fine /\ UNCHANGED <<row, sampled, age, sampling>>

Commit(c) ==
    /\ \/ At(c, "direct") /\ Goes(c, "committed")
       \/ At(c, "counted") /\ Ends(c)
    /\ row' = [row EXCEPT ![call[c].key] = "waiting"]
    /\ Fine /\ UNCHANGED <<figureVars, countedBy>>

\* The commit lands, but its caller never hears of it and counts nothing.
CommitUnheard(c) ==
    /\ At(c, "direct") /\ Ends(c)
    /\ row' = [row EXCEPT ![call[c].key] = "waiting"]
    /\ Trouble /\ UNCHANGED <<figureVars, countedBy>>

\* The caller is cancelled, or its transaction fails: nothing was recorded.
Cancel(c) ==
    /\ call[c].pc \in {"query", "ask", "lock", "direct", "staged", "counted"} /\ Ends(c)
    /\ sampling' = IF At(c, "query") THEN Released(Home[c]) ELSE sampling
    /\ Trouble /\ UNCHANGED <<row, sampled, since, age, countedBy>>

-----------------------------------------------------------------------------
(* The rest of the system. *)

Settle(k) ==
    /\ row[k] = "waiting" /\ row' = [row EXCEPT ![k] = "settled"]
    /\ countedBy' = [countedBy EXCEPT ![k] = {}]
    /\ Fine /\ UNCHANGED <<figureVars, call>>

Older(a) == IF a < Healthy THEN a + 1 ELSE a

Tick ==
    /\ age' = [r \in Replicas |-> Older(age[r])]
    /\ call' = [c \in Callers |-> IF call[c].pc \in {"query", "publish"} THEN [call[c] EXCEPT !.age = Older(@)]
                                  ELSE call[c]]
    /\ Fine /\ UNCHANGED <<row, sampled, since, sampling, countedBy>>

\* A replica dies with its figure and its callers, and starts again.
Crash(r) ==
    /\ sampled' = [sampled EXCEPT ![r] = {}] /\ since' = [since EXCEPT ![r] = 0]
    /\ age' = [age EXCEPT ![r] = Never] /\ sampling' = [sampling EXCEPT ![r] = FALSE]
    /\ call' = [c \in Callers |-> IF Home[c] = r THEN Idle ELSE call[c]]
    /\ countedBy' = [k \in Keys |-> countedBy[k] \ {r}]
    /\ Trouble /\ UNCHANGED row

-----------------------------------------------------------------------------

Step(c) ==
    \/ Load(c) \/ JudgeAge(c) \/ Claim(c) \/ Query(c) \/ Publish(c) \/ Release(c)
    \/ Ask(c) \/ Decide(c) \/ Count(c) \/ Commit(c)

Next ==
    \/ \E c \in Callers : Begin(c) \/ Step(c) \/ QueryFails(c) \/ CommitUnheard(c) \/ Cancel(c)
    \/ \E k \in Keys : Settle(k)
    \/ Tick
    \/ \E r \in Replicas : Crash(r)

Spec == Init /\ [][Next]_vars

\* Requests go on, time passes, and the database answers.
LiveSpec ==
    /\ Spec /\ WF_vars(Tick)
    /\ \A c \in Callers : WF_vars(Step(c))
    /\ \A r \in Replicas : WF_vars(\E c \in Callers : Home[c] = r /\ Begin(c))

-----------------------------------------------------------------------------

PCs == {"idle", "load", "claim", "query", "publish", "reload", "ask", "lock", "direct", "staged", "counted", "committed",
        "refused"}
Calls == [pc : PCs, key : Keys \cup {NoKey}, todo : SUBSET (Figure \cup {"read_at"}),
          estimate : Nat, counted : Nat, rows : SUBSET Keys, age : 0..Never]

TypeOK ==
    /\ row \in [Keys -> {"none", "waiting", "settled"}]
    /\ sampled \in [Replicas -> SUBSET Keys] /\ since \in [Replicas -> Nat]
    /\ age \in [Replicas -> 0..Never] /\ sampling \in [Replicas -> BOOLEAN]
    /\ call \in [Callers -> Calls]
    /\ countedBy \in [Keys -> SUBSET Replicas] /\ troubles \in 0..MaxTroubles

\* A fleet never holds more unsettled work than its budget, whatever replicas and callers
\* race for its last place: the check is made under the lock the insert is committed under.
FleetWithinBudget == \A k \in Keys : Cardinality(Waiting(FleetOf[k])) <= FleetBudget

\* A repeated key is accepted although a budget is full, even when its first admission took
\* the last place after the repeat had found no row.
RepeatsAccepted ==
    [][\A c \in Callers : ~At(c, "refused") /\ At(c, "refused")' => row[call[c].key] = "none"]_vars

Publishing(r) == \E c \in Callers : Home[c] = r /\ At(c, "publish")

\* A replica's figure never falls short of the rows it read, or counted after their commit,
\* whatever was committed, counted or settled around the sample: only what siblings admitted,
\* what was committed unheard, and what was staged across a sample, may be missing.
FigureCovers ==
    \A r \in Replicas : age[r] # Never /\ ~Publishing(r)
        => Cardinality(sampled[r]) + since[r] >= Cardinality(Covered(r))

\* A replica that still refuses when all work is settled stops refusing, as long as requests
\* come: whichever sample failed or was cancelled, another is taken.
Drained == Backlog = {} /\ \A c \in Callers : ~Open(c)
RefusalClears == \A r \in Replicas :
    []<>~(Drained /\ Cardinality(sampled[r]) + since[r] >= DeploymentBudget)

=============================================================================
