------------------------------- MODULE Outbound -------------------------------
(***************************************************************************)
(* The delivery of answers: a report owes an answer in its own transaction *)
(* (a row of fleet.obligations), the report path appends it to the         *)
(* outbound stream, each daemon's worker reads the stream into a lane and  *)
(* posts to the destination, and each daemon's producer re-appends what    *)
(* the stream never carried or nobody received.                            *)
(*                                                                         *)
(* Postgres, Dragonfly and the destination share no transaction.  Every    *)
(* await between two of them is a point where the daemon may die, another  *)
(* daemon may step in, or the call may land without saying so.  All the    *)
(* answers are for one destination, so a daemon has one lane.              *)
(***************************************************************************)
EXTENDS Integers, Sequences

CONSTANTS
    Answers,       \* the answers runs produce, one per event
    Daemons,       \* the agentsfleetd processes, each with its consumer name
    Nobody,        \* no answer
    Unroutable,    \* the answers no poster takes: their connector id names no
                   \* connector, or one that no poster serves
    Disturbances,  \* the kinds of fault that may happen
    MaxCycles,     \* MAX_DELIVERY_CYCLES
    MaxTries,      \* DELIVERY_ATTEMPTS: the attempts of one cycle
    LaneDepth,     \* LANE_DEPTH, with the job in the dispatcher's hand
    StreamCap,     \* bound: unread entries the datastore has room for
    MaxFaults      \* bound: faults

ASSUME OutboundAssumption ==
    /\ Nobody \notin Answers
    /\ Unroutable \subseteq Answers
    /\ MaxCycles \in Nat \ {0} /\ MaxTries \in Nat \ {0}
    /\ LaneDepth \in Nat \ {0} /\ StreamCap \in Nat /\ MaxFaults \in Nat

VARIABLES
    faults,     \* faults so far
    owed,       \* fleet.obligations: the rows that exist
    receipted,  \* the rows with a receipt
    delivered,  \* the rows with delivered_at set
    abandoned,  \* abandon_reason, "none" for NULL
    cycles,     \* attempt_count, which nothing reads past MaxCycles
    report,     \* where the report path stands with the answer it owed
    unread,     \* the stream's entries the group has not handed out
    group,      \* whether the consumer group exists
    status,     \* daemon -> "up", "stopping" (its token is cancelled) or "down"
    resuming,   \* the daemons still walking the pending list they found at start
    backlog,    \* daemon -> entries pending under its name that this process has
                \* not been handed
    lane,       \* daemon -> the entries it was handed, the head in delivery
    orphans,    \* how many of them, from the head, the queue has forgotten
    left,       \* daemon -> entries it finished and could not acknowledge
    at,         \* where the delivery of the lane's head stands
    opening,    \* the attempt to make next: "first" or "repeat"
    tries,      \* attempts made in this cycle
    counted,    \* the cycle count the ledger answered, 0 for None
    phase,      \* the producer's next scan
    todo,       \* the rows its last scan returned and it has not reached
    noting,     \* the row it appended and has not recorded
    posted,     \* messages in the destination's thread that landed before their
                \* deadline: none, one, or more (2)
    adrift,     \* requests past their deadline that may still land
    late        \* how many of them have

ledgerVars == <<owed, receipted, delivered, abandoned, cycles>>
streamVars == <<unread, group, backlog, left>>
cycleVars == <<at, opening, tries, counted>>
workerVars == <<status, resuming, lane, orphans, cycleVars>>
producerVars == <<phase, todo, noting>>
threadVars == <<posted, adrift, late>>
vars == <<faults, ledgerVars, report, streamVars, workerVars, producerVars, threadVars>>

Init ==
    /\ faults = 0
    /\ owed = {} /\ receipted = {} /\ delivered = {}
    /\ abandoned = [a \in Answers |-> "none"]
    /\ cycles = [a \in Answers |-> 0]
    /\ report = [a \in Answers |-> "none"]
    /\ unread = <<>> /\ group = TRUE
    /\ status = [d \in Daemons |-> "up"]
    /\ resuming = {}
    /\ backlog = [d \in Daemons |-> <<>>]
    /\ lane = [d \in Daemons |-> <<>>]
    /\ orphans = [d \in Daemons |-> 0]
    /\ left = [d \in Daemons |-> <<>>]
    /\ at = [d \in Daemons |-> "idle"]
    /\ opening = [d \in Daemons |-> "first"]
    /\ tries = [d \in Daemons |-> 0]
    /\ counted = [d \in Daemons |-> 0]
    /\ phase = [d \in Daemons |-> "unreceipted"]
    /\ todo = [d \in Daemons |-> {}]
    /\ noting = [d \in Daemons |-> Nobody]
    /\ posted = [a \in Answers |-> 0]
    /\ adrift = [a \in Answers |-> 0] /\ late = [a \in Answers |-> 0]

\* A disturbance of the given kind: a call that fails, or a process that dies.
Fault(kind) == /\ kind \in Disturbances
               /\ faults < MaxFaults
               /\ faults' = faults + 1

\* The call succeeds, or it fails and what it would have written is not there.
OrFails(kind, Write, Unwritten) == \/ Write /\ UNCHANGED faults
                                   \/ Unwritten /\ Fault(kind)

-----------------------------------------------------------------------------
(* The report path and the statements on the ledger. *)

\* The report's transaction owes the answer.
Owe(a) ==
    /\ report[a] = "none"
    /\ owed' = owed \cup {a}
    /\ report' = [report EXCEPT ![a] = "committed"]
    /\ UNCHANGED <<faults, receipted, delivered, abandoned, cycles, streamVars, workerVars, producerVars, threadVars>>

\* A datastore with no room refuses an append.
Full == Len(unread) >= StreamCap

Enqueue(a) == /\ ~Full
              /\ unread' = Append(unread, a)
              /\ UNCHANGED <<group, backlog, left>>

\* queue_delivery's append, after the commit.
QueueDelivery(a) ==
    /\ report[a] = "committed"
    /\ Enqueue(a)
    /\ report' = [report EXCEPT ![a] = "appended"]
    /\ UNCHANGED <<faults, ledgerVars, workerVars, producerVars, threadVars>>

\* queue_delivery's receipt: it writes only over NULL.
Receipt(a) ==
    /\ report[a] = "appended"
    /\ report' = [report EXCEPT ![a] = "done"]
    /\ receipted' = receipted \cup {a}
    /\ UNCHANGED <<faults, owed, delivered, abandoned, cycles, streamVars, workerVars, producerVars, threadVars>>

\* The append or the receipt fails, or the daemon dies between the three.
LoseReport(a) ==
    /\ report[a] \in {"committed", "appended"}
    /\ Fault("report") \/ (report[a] = "committed" /\ Full /\ UNCHANGED faults)
    /\ report' = [report EXCEPT ![a] = "done"]
    /\ UNCHANGED <<ledgerVars, streamVars, workerVars, producerVars, threadVars>>

\* Mutant: an abandonment lands on whatever row it names.
AbandonUnguarded(a, reason) ==
    /\ abandoned' = [abandoned EXCEPT ![a] = reason]
    /\ UNCHANGED <<owed, receipted, delivered, cycles>>

\* ABANDON: neither delivered nor abandoned before.
Abandon(a, reason) ==
    /\ abandoned' = IF a \notin delivered /\ abandoned[a] = "none"
                    THEN [abandoned EXCEPT ![a] = reason] ELSE abandoned
    /\ UNCHANGED <<owed, receipted, delivered, cycles>>

-----------------------------------------------------------------------------
(* The worker: it reads an entry into its lane. *)

Job(d) == Head(lane[d])

\* The pending list this process found, once; then entries nobody has seen.
Read(d) ==
    /\ status[d] = "up" /\ group
    /\ Len(lane[d]) < LaneDepth
    /\ \/ /\ d \in resuming /\ backlog[d] # <<>>
          /\ lane' = [lane EXCEPT ![d] = Append(@, Head(backlog[d]))]
          /\ backlog' = [backlog EXCEPT ![d] = Tail(@)]
          /\ UNCHANGED <<resuming, unread>>
       \/ /\ d \in resuming /\ backlog[d] = <<>>
          /\ resuming' = resuming \ {d}
          /\ UNCHANGED <<lane, backlog, unread>>
       \/ /\ d \notin resuming /\ unread # <<>>
          /\ lane' = [lane EXCEPT ![d] = Append(@, Head(unread))]
          /\ unread' = Tail(unread)
          /\ UNCHANGED <<resuming, backlog>>
    /\ UNCHANGED <<faults, ledgerVars, report, group, left, status, orphans, cycleVars, producerVars, threadVars>>

-----------------------------------------------------------------------------
(* One delivery cycle of the lane's head. *)

\* Mutant: a cycle the ledger would not count opens as a first one.
OpeningEager(count) == IF count \in {0, 1} THEN "first" ELSE "repeat"

\* Attempt::opening: only a count of exactly one is a first cycle.
Opening(count) == IF count = 1 THEN "first" ELSE "repeat"

Begin(d, count) ==
    /\ at' = [at EXCEPT ![d] = "attempt"]
    /\ opening' = [opening EXCEPT ![d] = Opening(count)]
    /\ tries' = [tries EXCEPT ![d] = 0]
    /\ counted' = [counted EXCEPT ![d] = count]

\* Mutant: the cycle is not counted before it runs.
CountSuccesses(a) == cycles[a]

\* COUNT_ATTEMPT's new count.
CountAttempt(a) == IF cycles[a] < MaxCycles THEN cycles[a] + 1 ELSE MaxCycles

\* The cycle is counted before it runs; a delivered row counts nothing, and a
\* ledger that does not answer stops nothing.
CountCycle(d) ==
    LET a == Job(d) IN
    /\ status[d] = "up" /\ at[d] = "idle" /\ lane[d] # <<>>
    /\ OrFails("count",
         IF a \in delivered
         THEN Begin(d, 0) /\ UNCHANGED cycles
         ELSE Begin(d, CountAttempt(a)) /\ cycles' = [cycles EXCEPT ![a] = CountAttempt(a)],
         Begin(d, 0) /\ UNCHANGED cycles)
    /\ UNCHANGED <<owed, receipted, delivered, abandoned, report, streamVars, status, resuming,
                   lane, orphans, producerVars, threadVars>>

InThread(a) == posted[a] + late[a] > 0

\* A repeat asks the thread first; an answer no poster takes never gets there.
Looking(d) == at[d] = "attempt" /\ opening[d] = "repeat" /\ Job(d) \notin Unroutable

\* A poster that finds the answer's marker in the thread has nothing to post.
Look(d) ==
    /\ Looking(d)
    /\ at' = [at EXCEPT ![d] = IF InThread(Job(d)) THEN "delivered" ELSE "posting"]
    /\ UNCHANGED <<faults, ledgerVars, report, streamVars, status, resuming, lane, orphans,
                   opening, tries, counted, producerVars, threadVars>>

\* The thread cannot be read: the answer is posted all the same.
LookFailed(d) ==
    /\ Fault("look")
    /\ Looking(d)
    /\ at' = [at EXCEPT ![d] = "posting"]
    /\ UNCHANGED <<ledgerVars, report, streamVars, status, resuming, lane, orphans, opening,
                   tries, counted, producerVars, threadVars>>

Posting(d) == /\ at[d] = "posting" \/ (at[d] = "attempt" /\ opening[d] = "first")
              /\ Job(d) \notin Unroutable

\* The message is in the thread.
Lands(a) == posted' = [posted EXCEPT ![a] = IF @ < 2 THEN @ + 1 ELSE 2]

\* A retryable attempt: another follows while the budget lasts and no shutdown
\* was asked for, and that one looks before it posts.
Again(d) ==
    /\ tries' = [tries EXCEPT ![d] = @ + 1]
    /\ at' = [at EXCEPT ![d] = IF tries'[d] < MaxTries /\ status[d] = "up"
                              THEN "attempt" ELSE "retryable"]
    /\ opening' = [opening EXCEPT ![d] = "repeat"]
    /\ UNCHANGED counted

Verdict(d, verdict) == at' = [at EXCEPT ![d] = verdict] /\ UNCHANGED <<opening, tries, counted>>

\* The destination takes the message, and its answer says so, is lost (a
\* retryable verdict), or arrives without its body (a permanent one).
Post(d) ==
    /\ Posting(d)
    /\ Lands(Job(d))
    /\ \/ Verdict(d, "delivered") /\ UNCHANGED faults
       \/ Again(d) /\ Fault("answer")
       \/ Verdict(d, "refused") /\ Fault("body")
    /\ UNCHANGED <<ledgerVars, report, streamVars, status, resuming, lane, orphans, producerVars,
                   adrift, late>>

\* The deadline fires with the request under way, which reads as nothing said;
\* the destination may take it at any later time, or never.
TimeOut(d) ==
    /\ Posting(d)
    /\ Fault("late")
    /\ adrift' = [adrift EXCEPT ![Job(d)] = @ + 1]
    /\ Again(d)
    /\ UNCHANGED <<ledgerVars, report, streamVars, status, resuming, lane, orphans, producerVars,
                   posted, late>>

LandsLate(a) ==
    /\ adrift[a] > 0
    /\ adrift' = [adrift EXCEPT ![a] = @ - 1]
    /\ late' = [late EXCEPT ![a] = @ + 1]
    /\ UNCHANGED <<faults, ledgerVars, report, streamVars, workerVars, producerVars, posted>>

\* Nothing lands: the destination is unreachable, or no token could be loaded,
\* or it refuses for good, as a job no poster takes is.
Rejected(d) ==
    /\ at[d] \in {"attempt", "posting"}
    /\ (Again(d) /\ Job(d) \notin Unroutable) \/ Verdict(d, "refused")
    /\ UNCHANGED <<faults, ledgerVars, report, streamVars, status, resuming, lane, orphans,
                   producerVars, threadVars>>

-----------------------------------------------------------------------------
(* What the verdict writes, and the acknowledgement. *)

\* Mutant: an exhausted cycle is stamped delivered, as an acknowledgement is.
FinishedEarly(d) == at[d] \in {"delivered", "retryable"}

Finished(d) == at[d] = "delivered"

Settled(d) == Verdict(d, "settled") /\ UNCHANGED <<report, streamVars, status, resuming, lane,
                                                   orphans, producerVars, threadVars>>

StampDelivered(d) ==
    /\ Finished(d)
    /\ OrFails("stamp", delivered' = delivered \cup {Job(d)}, UNCHANGED delivered)
    /\ Settled(d)
    /\ UNCHANGED <<owed, receipted, abandoned, cycles>>

GiveUp(d) ==
    /\ at[d] = "refused"
    /\ OrFails("abandon", Abandon(Job(d), "refused"), UNCHANGED ledgerVars)
    /\ Settled(d)

\* The ledger said the cycles are spent; without its count nothing is given up.
Spent(d) == counted[d] >= MaxCycles

Exhausted(d) ==
    /\ at[d] = "retryable" /\ status[d] = "up"
    /\ IF Spent(d)
       THEN OrFails("abandon", Abandon(Job(d), "cycles_exhausted"), UNCHANGED ledgerVars)
       ELSE UNCHANGED <<faults, ledgerVars>>
    /\ Settled(d)

\* A shutdown cut the retries short: the entry stays pending, unacknowledged.
HandBack(d) ==
    /\ at[d] = "retryable" /\ status[d] = "stopping"
    /\ Verdict(d, "idle")
    /\ UNCHANGED <<faults, ledgerVars, report, streamVars, status, resuming, lane, orphans,
                   producerVars, threadVars>>

\* Every other ending acknowledges; an acknowledgement that fails leaves the
\* entry pending, and this process never reads it again.
Ack(d) ==
    /\ at[d] = "settled"
    /\ Verdict(d, "idle")
    /\ lane' = [lane EXCEPT ![d] = Tail(@)]
    /\ orphans' = [orphans EXCEPT ![d] = IF @ > 0 THEN @ - 1 ELSE 0]
    /\ OrFails("ack",
         UNCHANGED left,
         left' = IF orphans[d] > 0 THEN left ELSE [left EXCEPT ![d] = Append(@, Job(d))])
    /\ UNCHANGED <<ledgerVars, report, unread, group, backlog, status, resuming, producerVars, threadVars>>

-----------------------------------------------------------------------------
(* The producer. *)

\* SELECT_UNDELIVERED.
Undelivered == {a \in receipted \ delivered : abandoned[a] = "none"}

\* SELECT_UNRECEIPTED: it does not ask whether the answer was delivered.
Unreceipted == {a \in owed \ receipted : abandoned[a] = "none"}

\* One pass runs one scan and then the other; a new pass needs a live token.
Scan(d) ==
    /\ todo[d] = {} /\ noting[d] = Nobody
    /\ status[d] = "up" \/ (status[d] = "stopping" /\ phase[d] = "undelivered")
    /\ \/ /\ phase[d] = "unreceipted"
          /\ todo' = [todo EXCEPT ![d] = Unreceipted]
          /\ phase' = [phase EXCEPT ![d] = "undelivered"]
       \/ /\ phase[d] = "undelivered"
          /\ todo' = [todo EXCEPT ![d] = Undelivered]
          /\ phase' = [phase EXCEPT ![d] = "unreceipted"]
    /\ UNCHANGED <<faults, ledgerVars, report, streamVars, workerVars, noting, threadVars>>

\* The next row is appended, or given up on when nothing can carry it.
Requeue(d) == \E a \in todo[d] :
    /\ noting[d] = Nobody
    /\ \/ /\ a \in Unroutable
          /\ OrFails("abandon", Abandon(a, "unaddressable"), UNCHANGED ledgerVars)
          /\ UNCHANGED <<streamVars, noting>>
       \/ /\ a \notin Unroutable
          /\ Enqueue(a)
          /\ noting' = [noting EXCEPT ![d] = a]
          /\ UNCHANGED <<faults, ledgerVars>>
    /\ todo' = [todo EXCEPT ![d] = @ \ {a}]
    /\ UNCHANGED <<report, workerVars, phase, threadVars>>

\* A queue that refuses ends the scan's walk.
RequeueRefused(d) ==
    /\ Fault("append") \/ (Full /\ UNCHANGED faults)
    /\ todo[d] # {} /\ noting[d] = Nobody
    /\ todo' = [todo EXCEPT ![d] = {}]
    /\ UNCHANGED <<ledgerVars, report, streamVars, workerVars, phase, noting, threadVars>>

\* REAPPEND_RECEIPT, without the receipt's guard.
RecordReappended(d) ==
    /\ noting[d] # Nobody
    /\ noting' = [noting EXCEPT ![d] = Nobody]
    /\ OrFails("receipt", receipted' = receipted \cup {noting[d]}, UNCHANGED receipted)
    /\ UNCHANGED <<owed, delivered, abandoned, cycles, report, streamVars, workerVars, phase, todo, threadVars>>

-----------------------------------------------------------------------------
(* Shutdown, crash, restart, and the loss of the queue. *)

\* The process ends: whatever it was handed and did not acknowledge is pending
\* under its name, older entries first.
Ends(d) ==
    /\ status' = [status EXCEPT ![d] = "down"]
    /\ backlog' = [backlog EXCEPT ![d] =
         left[d] \o SubSeq(lane[d], orphans[d] + 1, Len(lane[d])) \o @]
    /\ lane' = [lane EXCEPT ![d] = <<>>]
    /\ left' = [left EXCEPT ![d] = <<>>]
    /\ orphans' = [orphans EXCEPT ![d] = 0]
    /\ at' = [at EXCEPT ![d] = "idle"]
    /\ opening' = [opening EXCEPT ![d] = "first"]
    /\ tries' = [tries EXCEPT ![d] = 0]
    /\ counted' = [counted EXCEPT ![d] = 0]
    /\ phase' = [phase EXCEPT ![d] = "unreceipted"]
    /\ todo' = [todo EXCEPT ![d] = {}]
    /\ noting' = [noting EXCEPT ![d] = Nobody]
    /\ UNCHANGED <<ledgerVars, report, resuming, unread, group, threadVars>>

Stop(d) ==
    /\ Fault("stop")
    /\ status[d] = "up"
    /\ status' = [status EXCEPT ![d] = "stopping"]
    /\ UNCHANGED <<ledgerVars, report, streamVars, resuming, lane, orphans, cycleVars, producerVars, threadVars>>

\* A shutdown waits for the attempt in hand and for the producer's pass.
Exit(d) ==
    /\ status[d] = "stopping"
    /\ at[d] = "idle"
    /\ todo[d] = {} /\ noting[d] = Nobody /\ phase[d] = "unreceipted"
    /\ Ends(d)
    /\ UNCHANGED faults

Crash(d) ==
    /\ Fault("crash")
    /\ status[d] # "down"
    /\ Ends(d)

\* A start makes sure of the group once, then walks the pending list.
Start(d) ==
    /\ status[d] = "down"
    /\ status' = [status EXCEPT ![d] = "up"]
    /\ resuming' = resuming \cup {d}
    /\ OrFails("group", group' = TRUE, UNCHANGED group)
    /\ UNCHANGED <<ledgerVars, report, unread, backlog, left, lane, orphans, cycleVars, producerVars, threadVars>>

\* Dragonfly comes back empty: no entry, no group, no pending list.
LoseQueue ==
    /\ Fault("lose")
    /\ unread' = <<>> /\ group' = FALSE
    /\ backlog' = [d \in Daemons |-> <<>>]
    /\ left' = [d \in Daemons |-> <<>>]
    /\ orphans' = [d \in Daemons |-> Len(lane[d])]
    /\ UNCHANGED <<ledgerVars, report, status, resuming, lane, cycleVars, producerVars, threadVars>>

-----------------------------------------------------------------------------
ReportStep(a) == Owe(a) \/ QueueDelivery(a) \/ Receipt(a) \/ LoseReport(a)

Deliver(d) == \/ CountCycle(d) \/ Look(d) \/ LookFailed(d) \/ Post(d) \/ TimeOut(d) \/ Rejected(d)
              \/ StampDelivered(d) \/ GiveUp(d) \/ Exhausted(d) \/ HandBack(d) \/ Ack(d)

Produce(d) == Requeue(d) \/ RequeueRefused(d) \/ RecordReappended(d)

Next == \/ \E a \in Answers : ReportStep(a) \/ LandsLate(a)
        \/ \E d \in Daemons : \/ Read(d) \/ Deliver(d) \/ Scan(d) \/ Produce(d)
                              \/ Stop(d) \/ Exit(d) \/ Crash(d) \/ Start(d)
        \/ LoseQueue

Spec == Init /\ [][Next]_vars

\* The tasks of a live daemon run, and a daemon that went down is started again;
\* a running one need never stop.  Nothing is assumed of the destination, nor of
\* the report path once its transaction committed.
Fairness ==
    \A d \in Daemons : /\ WF_vars(Read(d)) /\ WF_vars(Deliver(d))
                       /\ WF_vars(Scan(d)) /\ WF_vars(Produce(d))
                       /\ WF_vars(Exit(d)) /\ WF_vars(Start(d))

LiveSpec == Spec /\ Fairness

-----------------------------------------------------------------------------
(* What must hold. *)

\* Every variable keeps its type.
TypeOK ==
    /\ faults \in 0..MaxFaults
    /\ owed \subseteq Answers /\ receipted \subseteq owed /\ delivered \subseteq owed
    /\ abandoned \in [Answers -> {"none", "refused", "cycles_exhausted", "unaddressable"}]
    /\ cycles \in [Answers -> 0..MaxCycles]
    /\ report \in [Answers -> {"none", "committed", "appended", "done"}]
    /\ unread \in Seq(owed) /\ group \in BOOLEAN
    /\ status \in [Daemons -> {"up", "stopping", "down"}]
    /\ resuming \subseteq Daemons
    /\ backlog \in [Daemons -> Seq(owed)]
    /\ lane \in [Daemons -> Seq(owed)]
    /\ orphans \in [Daemons -> Nat]
    /\ left \in [Daemons -> Seq(owed)]
    /\ at \in [Daemons -> {"idle", "attempt", "posting", "delivered", "refused", "retryable", "settled"}]
    /\ opening \in [Daemons -> {"first", "repeat"}]
    /\ tries \in [Daemons -> 0..MaxTries]
    /\ counted \in [Daemons -> 0..MaxCycles]
    /\ phase \in [Daemons -> {"unreceipted", "undelivered"}]
    /\ todo \in [Daemons -> SUBSET owed]
    /\ noting \in [Daemons -> owed \cup {Nobody}]
    /\ posted \in [Answers -> 0..2]
    /\ adrift \in [Answers -> Nat] /\ late \in [Answers -> Nat]

\* A delivered answer is in its thread: acknowledging an entry, running out of
\* attempts and finding a duplicate never pass for a delivery.
DeliveredWasPosted == \A a \in delivered : InThread(a)

\* An answer lands at most once in time, whatever crashes, lost replies, failed
\* stamps and duplicate entries do, while one daemon delivers, the ledger counts
\* and the thread can be read: every repeat looks before it posts.  Only a request
\* that landed after its deadline can be a second message.
PostedOnce == \A a \in Answers : posted[a] <= 1

\* Once delivered, an answer is never recorded as given up on, however many
\* stale entries other daemons still run.
DeliveredIsFinal ==
    [][\A a \in delivered : a \in delivered' /\ abandoned'[a] = abandoned[a]]_vars

\* Every answer owed is delivered or given up on, even when the destination refuses
\* for ever, and even when the queue loses what it held: the producer appends it
\* again, and whoever finds a group reads it.  A lost group is made again by the
\* next start of a process and by nothing else; once it is, the answer ends too.
EveryAnswerEnds ==
    \A a \in Answers : a \in owed ~> a \in delivered \/ abandoned[a] # "none" \/ ~group

\* producer.rs: losing Dragonfly costs "latency rather than answers".  Nobody has to
\* restart a process for it.
OutlivesItsQueue ==
    \A a \in Answers : a \in owed ~> a \in delivered \/ abandoned[a] # "none"

=============================================================================
