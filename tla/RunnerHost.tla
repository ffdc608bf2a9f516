------------------------------ MODULE RunnerHost ------------------------------
(***************************************************************************)
(* One runner host: its workers run leases of several fleets, one at a     *)
(* time per fleet, and between two leases of a fleet a keeper task may     *)
(* hold the sandbox, frozen, for the next one.  Workers, report drain,     *)
(* heartbeat and shutdown reach the keeper through one mailbox, while the  *)
(* daemon decides on its own records which lease is a fleet's latest and   *)
(* whether the next one may resume what is held.                           *)
(*                                                                         *)
(* The daemon is FleetLease as this host meets it; how a report is spooled *)
(* and posted is ReportSpool's.  A sandbox is named after the lease it was *)
(* built for.                                                              *)
(***************************************************************************)
EXTENDS Integers, Sequences, FiniteSets

CONSTANTS
    Leases,      \* lease ids in the order the daemon issues them: 1..MaxLease
    Fleets,
    Orders,      \* the ways the leases that are issued may be spread over the fleets
    Other,       \* a lease another host runs
    None,        \* no lease, no sandbox
    Workers,     \* the workers this host starts with
    MaxLapses    \* bound: leases overtaken unreported, or claimed elsewhere

ASSUME HostAssumption ==
    /\ Leases \subseteq Nat \ {0} /\ Orders \subseteq UNION {[L -> Fleets] : L \in SUBSET Leases}
    /\ Other \notin Leases /\ None \notin Leases /\ Other # None
    /\ Workers \in Nat \ {0} /\ MaxLapses \in Nat

VARIABLES
    of,          \* lease -> its fleet
    latest,      \* daemon: fleet -> its latest lease
    recorded,    \* daemon: leases whose report it recorded
    keeps,       \* daemon: leases whose hold it recorded with the report
    lapses,      \* daemon: how many of those there were
    resume,      \* lease -> the lease whose hold it was told to resume
    pc,          \* lease -> where its worker stands
    hand,        \* lease -> the sandbox it has
    parked,      \* leases whose sandbox the keeper answered it holds
    spooled,     \* leases whose report waits for the drain
    turn,        \* fleet -> the leases that claimed its turn, the owner first
    halted,      \* what was cancelled: "no", "leasing" or "serving"
    mail,        \* the keeper's mailbox
    held,        \* the keeper's holds, oldest first
    workers,     \* the keeper's worker count
    keeper,      \* the keeper: "open", "closed", "finishing" or "gone"
    ran,         \* sandbox -> the last lease that ran in it
    destroying,  \* sandboxes whose teardown was spawned
    gone         \* sandboxes torn down

daemonVars == <<latest, recorded, keeps, lapses>>
leaseVars == <<of, resume, pc, hand, parked, spooled, turn, ran>>
keeperVars == <<held, workers, keeper, destroying>>
vars == <<daemonVars, leaseVars, halted, mail, keeperVars, gone>>

Init ==
    /\ of \in Orders
    /\ latest = [f \in Fleets |-> None]
    /\ recorded = {} /\ keeps = {} /\ lapses = 0
    /\ resume = [l \in Leases |-> None]
    /\ pc = [l \in Leases |-> "none"]
    /\ hand = [l \in Leases |-> None]
    /\ parked = {} /\ spooled = {}
    /\ turn = [f \in Fleets |-> <<>>]
    /\ halted = "no" /\ mail = <<>>
    /\ held = <<>> /\ workers = Workers /\ keeper = "open"
    /\ ran = [b \in Leases |-> None]
    /\ destroying = {} /\ gone = {}

Goes(l, where) == pc' = [pc EXCEPT ![l] = where]
Active == {l \in Leases : pc[l] \notin {"none", "done"}}

\* The sequence less its i-th member, and its last n members.
Without(s, i) == [k \in 1..(Len(s) - 1) |-> IF k < i THEN s[k] ELSE s[k + 1]]
Newest(s, n) == IF Len(s) <= n THEN s ELSE SubSeq(s, Len(s) - n + 1, Len(s))

\* What lease l tells the keeper about sandbox box, or None.
Send(kind, l, box) == mail' = Append(mail, [kind |-> kind, lease |-> l, box |-> box])

-----------------------------------------------------------------------------
(* The daemon, as this host meets it. *)

\* A fleet is claimed again once its latest lease is reported, or lapsed.
Claimable(f) ==
    \/ latest[f] \in {None, Other} \cup recorded /\ UNCHANGED lapses
    \/ /\ latest[f] \notin {None, Other} \cup recorded
       /\ lapses < MaxLapses /\ lapses' = lapses + 1

\* A worker takes the fleet's next lease and claims the fleet's turn.  It may
\* resume the latest lease's hold.
Issue(l) ==
    /\ halted = "no" /\ Cardinality(Active) < Workers
    /\ l \in DOMAIN of /\ pc[l] = "none" /\ \A k \in Leases : k < l => pc[k] # "none"
    /\ Claimable(of[l])
    /\ resume' = [resume EXCEPT ![l] = IF latest[of[l]] \in keeps THEN latest[of[l]] ELSE None]
    /\ latest' = [latest EXCEPT ![of[l]] = l]
    /\ Goes(l, "turn") /\ turn' = [turn EXCEPT ![of[l]] = Append(@, l)]
    /\ UNCHANGED <<of, recorded, keeps, hand, parked, spooled, ran, halted, mail, keeperVars, gone>>

\* Another host gets it.
IssueElsewhere(f) ==
    /\ latest[f] \notin {None, Other}
    /\ lapses < MaxLapses /\ lapses' = lapses + 1
    /\ latest' = [latest EXCEPT ![f] = Other]
    /\ UNCHANGED <<recorded, keeps, leaseVars, halted, mail, keeperVars, gone>>

-----------------------------------------------------------------------------
(* A lease on its worker. *)

HasTurn(l) == pc[l] = "turn" /\ Head(turn[of[l]]) = l

\* Interrupted before it started, a lease gives up its claim, or its turn.
GiveUp(l) ==
    /\ pc[l] = "turn" /\ Goes(l, "report")
    /\ \E i \in DOMAIN turn[of[l]] : /\ turn[of[l]][i] = l
                                     /\ turn' = [turn EXCEPT ![of[l]] = Without(@, i)]
    /\ UNCHANGED <<daemonVars, of, resume, hand, parked, spooled, ran, halted, mail, keeperVars, gone>>

\* Its own sandbox; one that could not be built is destroyed like one killed.
Build(l) == hand' = [hand EXCEPT ![l] = l] /\ ran' = [ran EXCEPT ![l] = l]

\* The lease was not told to resume, or runs a durable task: what is held ends.
BuildFresh(l) ==
    /\ HasTurn(l)
    /\ Send("release", l, None)
    /\ Build(l) /\ Goes(l, "run")
    /\ UNCHANGED <<daemonVars, of, resume, parked, spooled, turn, halted, keeperVars, gone>>

\* It is refused a sandbox, or stopped before it has one: what is held ends too.
Refuse(l) ==
    /\ HasTurn(l)
    /\ Send("release", l, None)
    /\ Goes(l, "report") /\ turn' = [turn EXCEPT ![of[l]] = Tail(@)]
    /\ UNCHANGED <<daemonVars, of, resume, hand, parked, spooled, ran, halted, keeperVars, gone>>

\* It needs no sandbox, and leaves what is held alone.
RunBare(l) ==
    /\ HasTurn(l) /\ Goes(l, "run")
    /\ UNCHANGED <<daemonVars, of, resume, hand, parked, spooled, turn, ran, halted, mail, keeperVars, gone>>

\* Mutant: what the lease was told is not looked at.
AskUntold(l) ==
    /\ HasTurn(l)
    /\ Send("take", l, None) /\ Goes(l, "take")
    /\ UNCHANGED <<daemonVars, of, resume, hand, parked, spooled, turn, ran, halted, keeperVars, gone>>

\* It asks the keeper for the sandbox it may resume.
AskHeld(l) ==
    /\ HasTurn(l) /\ resume[l] # None
    /\ Send("take", l, None) /\ Goes(l, "take")
    /\ UNCHANGED <<daemonVars, of, resume, hand, parked, spooled, turn, ran, halted, keeperVars, gone>>

\* Mutant: a sandbox that would not thaw is forgotten.
ThawOrForget(l) ==
    /\ pc[l] = "thaw" /\ Goes(l, "run")
    /\ \/ /\ hand[l] # None /\ ran' = [ran EXCEPT ![hand[l]] = l]
          /\ UNCHANGED hand
       \/ Build(l)
    /\ UNCHANGED <<daemonVars, of, resume, parked, spooled, turn, halted, mail, keeperVars, gone>>

\* What it was given thaws and answers, or it is discarded for a fresh one.
Thaw(l) ==
    /\ pc[l] = "thaw" /\ Goes(l, "run")
    /\ \/ /\ hand[l] # None /\ ran' = [ran EXCEPT ![hand[l]] = l]
          /\ UNCHANGED <<hand, mail>>
       \/ /\ IF hand[l] = None THEN UNCHANGED mail ELSE Send("discard", l, hand[l])
          /\ Build(l)
    /\ UNCHANGED <<daemonVars, of, resume, parked, spooled, turn, halted, keeperVars, gone>>

\* Mutant: a lease that goes on to freeze keeps the turn.
EndRunKeepingTurn(l) ==
    /\ pc[l] = "run"
    /\ \/ Goes(l, "report") /\ turn' = [turn EXCEPT ![of[l]] = Tail(@)]
       \/ hand[l] # None /\ halted = "no" /\ Goes(l, "freeze") /\ UNCHANGED turn
    /\ UNCHANGED <<daemonVars, of, resume, hand, parked, spooled, ran, halted, mail, keeperVars, gone>>

\* The run ends, and with it the turn.  Only a processed run that nothing cut
\* short, on a host that still takes leases, goes on to freeze its sandbox.
EndRun(l) ==
    /\ pc[l] = "run"
    /\ turn' = [turn EXCEPT ![of[l]] = Tail(@)]
    /\ Goes(l, "report") \/ (hand[l] # None /\ halted = "no" /\ Goes(l, "freeze"))
    /\ UNCHANGED <<daemonVars, of, resume, hand, parked, spooled, ran, halted, mail, keeperVars, gone>>

\* A freeze settles within a second or fails: a lease is past it before a later
\* lease of its fleet has run and freezes in its turn.
FreezesFirst(l) == \A k \in DOMAIN of : of[k] = of[l] /\ k < l => pc[k] # "freeze"

\* The sandbox freezes and goes to the keeper, or is killed.
Freeze(l) ==
    /\ pc[l] = "freeze" /\ FreezesFirst(l)
    /\ \/ /\ Send("park", l, hand[l])
          /\ hand' = [hand EXCEPT ![l] = None]
          /\ Goes(l, "park")
       \/ Goes(l, "report") /\ UNCHANGED <<hand, mail>>
    /\ UNCHANGED <<daemonVars, of, resume, parked, spooled, turn, ran, halted, keeperVars, gone>>

\* The daemon records a first report of the fleet's latest lease, and its hold;
\* it answers a repeat alike, and refuses an overtaken lease, or what it cannot read.
Recorded(l) ==
    /\ l \in recorded \/ latest[of[l]] = l
    /\ recorded' = recorded \cup {l}
    /\ keeps' = IF l \in parked \ recorded THEN keeps \cup {l} ELSE keeps
    /\ UNCHANGED <<latest, lapses>>

Refused(l) == l \notin recorded /\ UNCHANGED daemonVars

Supersede(l) == IF l \in parked THEN Send("supersede", l, None) ELSE UNCHANGED mail

\* The report is posted: it is recorded, or stays spooled whether or not the
\* daemon had it, or is refused, and then its hold ends.  One that could not be
\* spooled stops leasing, and unanswered its hold ends too.  A killed sandbox is
\* destroyed and the worker is free.
Report(l) ==
    /\ pc[l] = "report" /\ Goes(l, "done")
    /\ \/ Recorded(l) /\ UNCHANGED <<spooled, mail, halted>>
       \/ /\ Recorded(l) \/ UNCHANGED daemonVars
          /\ spooled' = spooled \cup {l} /\ UNCHANGED <<mail, halted>>
       \/ Refused(l) /\ Supersede(l) /\ UNCHANGED <<spooled, halted>>
       \/ /\ Recorded(l) \/ UNCHANGED daemonVars
          /\ halted' = IF halted = "no" THEN "leasing" ELSE halted
          /\ Supersede(l) /\ UNCHANGED spooled
    /\ gone' = gone \cup ({hand[l]} \ {None}) /\ hand' = [hand EXCEPT ![l] = None]
    /\ UNCHANGED <<of, resume, parked, turn, ran, keeperVars>>

-----------------------------------------------------------------------------
(* The other tasks of the host. *)

\* Mutant: a refused report ends whatever hold its fleet has.
DrainByFleet(l) ==
    /\ l \in spooled /\ halted # "serving"
    /\ spooled' = spooled \ {l}
    /\ (Recorded(l) /\ UNCHANGED mail) \/ (Refused(l) /\ Send("release", l, None))
    /\ UNCHANGED <<of, resume, pc, hand, parked, turn, ran, halted, keeperVars, gone>>

\* The drain posts a spooled report again; a refused one ends its hold.
Drain(l) ==
    /\ l \in spooled /\ halted # "serving"
    /\ spooled' = spooled \ {l}
    /\ (Recorded(l) /\ UNCHANGED mail) \/ (Refused(l) /\ Send("supersede", l, None))
    /\ UNCHANGED <<of, resume, pc, hand, parked, turn, ran, halted, keeperVars, gone>>

\* A signal, the daemon's stop or a refused token.
Halt == /\ halted # "serving" /\ halted' = "serving"
        /\ UNCHANGED <<daemonVars, leaseVars, mail, keeperVars, gone>>

Told(kind) == \E i \in DOMAIN mail : mail[i].kind = kind

\* Once leasing stopped the heartbeat closes the keeper.
Close == /\ halted # "no" /\ keeper = "open" /\ ~Told("close")
         /\ Send("close", None, None)
         /\ UNCHANGED <<daemonVars, leaseVars, halted, keeperVars, gone>>

\* With heartbeat, drain and every worker ended, the keeper is told to finish.
Shutdown == /\ halted = "serving" /\ Active = {} /\ (keeper = "closed" \/ Told("close"))
            /\ ~Told("shutdown")
            /\ Send("shutdown", None, None)
            /\ UNCHANGED <<daemonVars, leaseVars, halted, keeperVars, gone>>

-----------------------------------------------------------------------------
(* The keeper. *)

Boxes(entries) == {entries[i].box : i \in DOMAIN entries}
Owners(entries) == {entries[i].lease : i \in DOMAIN entries}

\* Where the hold of fleet f is, and the holds without the one at that place.
Position(f) == {i \in DOMAIN held : /\ of[held[i].lease] = f
                                    /\ \A k \in 1..(i - 1) : of[held[k].lease] # f}
Less(at) == IF at = {} THEN held ELSE Without(held, CHOOSE i \in at : TRUE)

Receive(kind) == /\ keeper # "gone" /\ mail # <<>> /\ Head(mail).kind = kind
                 /\ mail' = Tail(mail)

\* left stays held; the rest, but for what was handed out, and extra are torn
\* down on tasks of their own.
Keep(left, out, extra) ==
    /\ held' = left
    /\ destroying' = (destroying \cup Boxes(held) \cup extra) \ (Boxes(left) \cup out)

\* The fleet's hold goes to the lease when it was built for the same size and
\* policy, and ends otherwise.
Take ==
    /\ Receive("take")
    /\ LET l == Head(mail).lease
           at == Position(of[l])
       IN  /\ Goes(l, "thaw")
           /\ \/ \E i \in at : /\ hand' = [hand EXCEPT ![l] = held[i].box]
                               /\ Keep(Without(held, i), {held[i].box}, {})
              \/ Keep(Less(at), {}, {}) /\ UNCHANGED hand
    /\ UNCHANGED <<daemonVars, of, resume, parked, spooled, turn, ran, halted, workers, keeper,
                   gone>>

\* Mutant: the oldest holds stay although the workers are fewer.
ParkBeyond ==
    /\ Receive("park")
    /\ LET m == Head(mail)
           rest == IF keeper = "open" THEN Less(Position(of[m.lease])) ELSE held
       IN  /\ Goes(m.lease, "report")
           /\ IF keeper = "open"
              THEN /\ Keep(Append(rest, [lease |-> m.lease, box |-> m.box]), {}, {})
                   /\ parked' = parked \cup {m.lease} /\ UNCHANGED hand
              ELSE /\ Keep(rest, {}, {})
                   /\ hand' = [hand EXCEPT ![m.lease] = m.box] /\ UNCHANGED parked
    /\ UNCHANGED <<daemonVars, of, resume, spooled, turn, ran, halted, workers, keeper, gone>>

\* A parked sandbox replaces the fleet's earlier hold and then the oldest ones
\* beyond the worker count, which is never zero; a closed keeper hands it back.
Park ==
    /\ Receive("park")
    /\ LET m == Head(mail)
           rest == Newest(Less(Position(of[m.lease])), workers - 1)
       IN  /\ Goes(m.lease, "report")
           /\ IF keeper = "open"
              THEN /\ Keep(Append(rest, [lease |-> m.lease, box |-> m.box]), {}, {})
                   /\ parked' = parked \cup {m.lease} /\ UNCHANGED hand
              ELSE /\ Keep(held, {}, {})
                   /\ hand' = [hand EXCEPT ![m.lease] = m.box] /\ UNCHANGED parked
    /\ UNCHANGED <<daemonVars, of, resume, spooled, turn, ran, halted, workers, keeper, gone>>

\* The holds but those left end.
End(left) ==
    /\ Keep(left, {}, {})
    /\ UNCHANGED <<daemonVars, leaseVars, halted, gone>>

\* A fleet's hold, a lease's own, and every one.
Release ==
    /\ \/ Receive("release") /\ End(Less(Position(of[Head(mail).lease]))) /\ UNCHANGED keeper
       \/ /\ Receive("supersede") /\ UNCHANGED keeper
          /\ End(Less({i \in DOMAIN held : held[i].lease = Head(mail).lease}))
       \/ Receive("close") /\ End(<<>>) /\ keeper' = "closed"
       \/ Receive("shutdown") /\ End(<<>>) /\ keeper' = "finishing"
    /\ UNCHANGED workers

Discard ==
    /\ Receive("discard")
    /\ Keep(held, {}, {Head(mail).box})
    /\ UNCHANGED <<daemonVars, leaseVars, halted, workers, keeper, gone>>

\* A hold ends for a reason of its own: its idle window ran out, its fleet is not
\* active, or the last free worker took a lease of another fleet.
LetGo(l) ==
    /\ \E i \in DOMAIN held : held[i].lease = l /\ End(Without(held, i))
    /\ UNCHANGED <<mail, workers, keeper>>

\* The daemon assigns fewer workers (bound: never more again).
Resize ==
    /\ halted = "no"
    /\ \E n \in 1..(workers - 1) : /\ workers' = n
                                   /\ Keep(Newest(held, n), {}, {})
    /\ UNCHANGED <<daemonVars, leaseVars, halted, mail, keeper, gone>>

\* Mutant: the keeper answers a shutdown without waiting for its teardowns.
FinishEarly ==
    /\ keeper = "finishing" /\ keeper' = "gone"
    /\ UNCHANGED <<daemonVars, leaseVars, halted, mail, held, workers, destroying, gone>>

\* The keeper answers a shutdown once every teardown it spawned has ended; when
\* each ends before that, nothing asks.
Finish ==
    /\ keeper = "finishing" /\ keeper' = "gone"
    /\ destroying' = {} /\ gone' = gone \cup destroying
    /\ UNCHANGED <<daemonVars, leaseVars, halted, mail, held, workers>>

-----------------------------------------------------------------------------
RunLease(l) == \/ BuildFresh(l) \/ Refuse(l) \/ RunBare(l) \/ AskHeld(l) \/ Thaw(l)
               \/ EndRun(l) \/ Freeze(l) \/ Report(l)

Serve == Take \/ Park \/ Release \/ Discard
Stop == Close \/ Shutdown \/ Finish

Next == \/ \E f \in Fleets : IssueElsewhere(f)
        \/ \E l \in Leases : Issue(l) \/ GiveUp(l) \/ RunLease(l) \/ Drain(l) \/ LetGo(l)
        \/ Halt \/ Stop \/ Serve \/ Resize

Spec == Init /\ [][Next]_vars

\* The runtime polls every task.
Fairness == /\ \A l \in Leases : WF_vars(RunLease(l))
            /\ WF_vars(Serve) /\ WF_vars(Stop)

LiveSpec == Spec /\ Fairness

-----------------------------------------------------------------------------
(* What must hold. *)

Kinds == {"take", "park", "release", "supersede", "discard", "close", "shutdown"}
Entry == [lease : Leases, box : Leases]

\* Every variable keeps its type; the host holds no more sandboxes than it has workers, and
\* one a fleet.
TypeOK ==
    /\ of \in Orders
    /\ latest \in [Fleets -> Leases \cup {Other, None}]
    /\ recorded \subseteq Leases /\ keeps \subseteq recorded /\ lapses \in 0..MaxLapses
    /\ resume \in [Leases -> Leases \cup {None}]
    /\ pc \in [Leases -> {"none", "turn", "take", "thaw", "run", "freeze", "park", "report", "done"}]
    /\ hand \in [Leases -> Leases \cup {None}]
    /\ parked \subseteq Leases /\ spooled \subseteq Leases
    /\ turn \in [Fleets -> Seq(Leases)]
    /\ halted \in {"no", "leasing", "serving"}
    /\ mail \in Seq([kind : Kinds, lease : Leases \cup {None}, box : Leases \cup {None}])
    /\ held \in Seq(Entry) /\ Len(held) <= workers
    /\ \A i, k \in DOMAIN held : of[held[i].lease] = of[held[k].lease] => i = k
    /\ workers \in 1..Workers
    /\ keeper \in {"open", "closed", "finishing", "gone"}
    /\ ran \in [Leases -> Leases \cup {None}]
    /\ destroying \subseteq Leases /\ gone \subseteq Leases

\* The sandbox a lease is about to resume was last used by the very lease the
\* daemon told it to resume, never by an older or an overtaken one.
ResumesRecorded ==
    \A l \in Leases : pc[l] = "thaw" /\ hand[l] # None => ran[hand[l]] = resume[l]

\* The daemon would tell the next lease of the fleet to resume l's hold.
Wanted(l) == l \in keeps /\ latest[of[l]] = l

\* While the host takes leases, a hold the daemon counts on is not ended by
\* another lease of its fleet: a late refusal, release or park that reaches the
\* keeper concerns an older hold.
EndsOnlyStale ==
    [][\A l \in Owners(held) \ Owners(held') :
          /\ halted = "no" /\ mail # <<>> /\ mail' = Tail(mail)
          /\ Head(mail).lease # None /\ of[Head(mail).lease] = of[l]
          => ~Wanted(l)]_vars

\* Where a sandbox is, how many times.
Places(b) == Cardinality({l \in Leases : hand[l] = b})
             + Cardinality({i \in DOMAIN mail : mail[i].box = b})
             + Cardinality({i \in DOMAIN held : held[i].box = b})
             + Cardinality({b} \cap destroying) + Cardinality({b} \cap gone)

\* Every sandbox that was built is in one place, whoever gave up on it, and none
\* is left when the process ends.
NothingLeaks == \A b \in Leases : ran[b] # None => /\ Places(b) = 1
                                                   /\ keeper = "gone" => b \in gone

\* A host told to stop ends every lease it has, through its turn and the keeper's
\* answers, and then the keeper, with every teardown.
StopsClean == halted = "serving" ~> keeper = "gone" /\ Active = {}

=============================================================================
