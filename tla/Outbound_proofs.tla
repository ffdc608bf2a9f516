--------------------------- MODULE Outbound_proofs ---------------------------
(***************************************************************************)
(* Proofs about Outbound for every number of daemons, answers and faults,  *)
(* every budget of attempts and cycles, and every kind of disturbance: a   *)
(* delivery stamp always means a message in the thread, and giving up      *)
(* never overwrites it.                                                    *)
(*                                                                         *)
(* Types come first, with what makes them inductive: a lane with a cycle   *)
(* in hand has a head, a cycle in hand has attempts left, and whatever the *)
(* report path holds is owed.                                              *)
(***************************************************************************)
EXTENDS Outbound, TLAPS

USE DEF threadVars

-----------------------------------------------------------------------------
(* Sequences of owed answers. *)

\* A longer set of rows keeps every sequence of rows.
LEMMA SeqGrows ==
    ASSUME NEW S, NEW T, S \subseteq T, NEW s \in Seq(S) PROVE s \in Seq(T)
OBVIOUS

\* Appending keeps a sequence's head and makes it non-empty.
LEMMA AppendKeepsHead ==
    ASSUME NEW S, NEW s \in Seq(S), NEW x \in S
    PROVE  /\ Append(s, x) \in Seq(S) /\ Append(s, x) # <<>>
           /\ s # <<>> => Head(Append(s, x)) = Head(s)
OBVIOUS

\* The head and the rest of a non-empty sequence.
LEMMA HeadAndTail ==
    ASSUME NEW S, NEW s \in Seq(S), s # <<>>
    PROVE  Head(s) \in S /\ Tail(s) \in Seq(S)
OBVIOUS

\* What a dead process leaves pending: three sequences, one after the other.
LEMMA PendingTyped ==
    ASSUME NEW S, NEW s \in Seq(S), NEW t \in Seq(S), NEW u \in Seq(S), NEW n \in Nat
    PROVE  s \o SubSeq(t, n + 1, Len(t)) \o u \in Seq(S)
<1>1. SubSeq(t, n + 1, Len(t)) \in Seq(S)
    OBVIOUS
<1>2. s \o SubSeq(t, n + 1, Len(t)) \in Seq(S) BY <1>1
<1> QED BY <1>2

-----------------------------------------------------------------------------
(* Types. *)

\* A cycle in hand is of the lane's head.
Handed == \A d \in Daemons : at[d] # "idle" => lane[d] # <<>>

\* A cycle that may still attempt has attempts left.
Budget == \A d \in Daemons : at[d] \in {"attempt", "posting"} => tries[d] < MaxTries

\* The report path only holds what its transaction owed.
Reported == \A a \in Answers : report[a] # "none" => a \in owed

Typed == TypeOK /\ Handed /\ Budget /\ Reported

\* The types of what is in the thread or on its way there.
ThreadTyped == /\ posted \in [Answers -> 0..2]
               /\ adrift \in [Answers -> Nat] /\ late \in [Answers -> Nat]

\* A fresh ledger and an idle worker are well typed.
LEMMA TypedInit == Init => Typed
BY OutboundAssumption
   DEF OutboundAssumption, Init, Typed, TypeOK, Handed, Budget, Reported

\* The report path keeps the types; owing an answer only adds a row.
LEMMA TypedReport ==
    ASSUME Typed, NEW a \in Answers, ReportStep(a) PROVE Typed'
<1> USE DEF Typed, TypeOK, Handed, Budget, Reported
<1> USE DEF ledgerVars, streamVars, cycleVars, workerVars, producerVars
<1>1. CASE Owe(a)
    <2>1. owed \subseteq owed' /\ owed' \subseteq Answers BY <1>1 DEF Owe
    <2>2. unread' \in Seq(owed') BY <1>1, <2>1, SeqGrows DEF Owe
    <2>3. \A d \in Daemons : /\ backlog[d] \in Seq(owed') /\ lane[d] \in Seq(owed')
                             /\ left[d] \in Seq(owed')
        BY <2>1, SeqGrows
    <2>4. /\ backlog' \in [Daemons -> Seq(owed')] /\ lane' \in [Daemons -> Seq(owed')]
          /\ left' \in [Daemons -> Seq(owed')]
        BY <1>1, <2>3 DEF Owe
    <2>5. todo' \in [Daemons -> SUBSET owed'] /\ noting' \in [Daemons -> owed' \cup {Nobody}]
        BY <1>1, <2>1 DEF Owe
    <2>6. receipted' \subseteq owed' /\ delivered' \subseteq owed' BY <1>1, <2>1 DEF Owe
    <2>7. Reported' BY <1>1 DEF Owe
    <2>8. report' \in [Answers -> {"none", "committed", "appended", "done"}] BY <1>1 DEF Owe
    <2> QED BY <1>1, <2>1, <2>2, <2>4, <2>5, <2>6, <2>7, <2>8 DEF Owe
<1>2. CASE QueueDelivery(a)
    <2>1. a \in owed BY <1>2 DEF QueueDelivery
    <2>2. unread' \in Seq(owed) BY <1>2, <2>1, AppendKeepsHead DEF QueueDelivery, Enqueue
    <2> QED BY <1>2, <2>1, <2>2 DEF QueueDelivery, Enqueue
<1>3. CASE Receipt(a) BY <1>3 DEF Receipt
<1>4. CASE LoseReport(a) BY <1>4, OutboundAssumption DEF OutboundAssumption, LoseReport, Fault
<1> QED BY <1>1, <1>2, <1>3, <1>4 DEF ReportStep

\* Reading an entry keeps the types and the lane's head.
LEMMA TypedRead ==
    ASSUME Typed, NEW d \in Daemons, Read(d) PROVE Typed'
<1> USE DEF Typed, TypeOK, Handed, Budget, Reported
<1> USE DEF ledgerVars, cycleVars, producerVars
<1>1. CASE UNCHANGED <<lane, backlog, unread>> BY <1>1 DEF Read
<1>2. ASSUME NEW x \in owed, lane' = [lane EXCEPT ![d] = Append(@, x)],
             backlog' \in [Daemons -> Seq(owed)], unread' \in Seq(owed)
      PROVE  Typed'
    <2>1. lane' \in [Daemons -> Seq(owed)] BY <1>2, AppendKeepsHead
    <2>2. lane'[d] # <<>> BY <1>2, AppendKeepsHead
    <2>3. Handed' BY <1>2, <2>2 DEF Read
    <2> QED BY <1>2, <2>1, <2>3 DEF Read
<1>3. CASE d \in resuming /\ backlog[d] # <<>>
    <2>1. Head(backlog[d]) \in owed /\ Tail(backlog[d]) \in Seq(owed) BY <1>3, HeadAndTail
    <2>2. /\ lane' = [lane EXCEPT ![d] = Append(@, Head(backlog[d]))]
          /\ backlog' = [backlog EXCEPT ![d] = Tail(@)] /\ unread' = unread
        BY <1>3 DEF Read
    <2>3. backlog' \in [Daemons -> Seq(owed)] BY <2>1, <2>2
    <2> QED BY <1>2, <2>1, <2>2, <2>3
<1>4. CASE d \notin resuming
    <2>1. /\ unread # <<>> /\ unread' = Tail(unread) /\ backlog' = backlog
          /\ lane' = [lane EXCEPT ![d] = Append(@, Head(unread))]
        BY <1>4 DEF Read
    <2>2. Head(unread) \in owed /\ Tail(unread) \in Seq(owed) BY <2>1, HeadAndTail
    <2> QED BY <1>2, <2>1, <2>2
<1> QED BY <1>1, <1>3, <1>4 DEF Read

\* A fault leaves the count of faults within its bound.
LEMMA FaultTyped == ASSUME Typed, NEW kind, Fault(kind) PROVE faults' \in 0..MaxFaults
BY OutboundAssumption DEF OutboundAssumption, Fault, Typed, TypeOK

\* A step of one cycle keeps the types when the cycle's own state stays typed.
LEMMA CycleFrame ==
    ASSUME Typed, NEW d \in Daemons, NEW point, NEW tried,
           lane[d] # <<>>, faults' \in 0..MaxFaults,
           at' = [at EXCEPT ![d] = point], tries' = [tries EXCEPT ![d] = tried],
           point \in {"idle", "attempt", "posting", "delivered", "refused", "retryable", "settled"},
           tried \in 0..MaxTries, point \in {"attempt", "posting"} => tried < MaxTries,
           opening' \in [Daemons -> {"first", "repeat"}], counted' \in [Daemons -> 0..MaxCycles],
           delivered' \subseteq owed,
           abandoned' \in [Answers -> {"none", "refused", "cycles_exhausted", "unaddressable"}],
           cycles' \in [Answers -> 0..MaxCycles], ThreadTyped',
           UNCHANGED <<owed, receipted, report, streamVars, status, resuming, lane, orphans,
                       producerVars>>
    PROVE  Typed'
<1> USE DEF Typed, TypeOK, ThreadTyped, streamVars, producerVars
<1>1. Handed' BY DEF Handed
<1>2. Budget' BY DEF Budget
<1>3. Reported' BY DEF Reported
<1>4. at' \in [Daemons -> {"idle", "attempt", "posting", "delivered", "refused", "retryable", "settled"}]
    OBVIOUS
<1>5. tries' \in [Daemons -> 0..MaxTries] OBVIOUS
<1> QED BY <1>1, <1>2, <1>3, <1>4, <1>5

\* The steps of a delivery keep the types; only Ack shortens the lane.
LEMMA TypedDeliver ==
    ASSUME Typed, NEW d \in Daemons, Deliver(d) PROVE Typed'
<1> USE DEF ledgerVars, streamVars, cycleVars, workerVars, producerVars, Verdict
<1>1. lane[d] # <<>>
    BY DEF Typed, Handed, TypeOK, Deliver, CountCycle, Look, LookFailed, Looking, Post, Posting,
           TimeOut, Rejected, StampDelivered, Finished, GiveUp, Exhausted, HandBack, Ack
<1>2. Job(d) \in owed /\ Job(d) \in Answers
    BY <1>1, HeadAndTail DEF Job, Typed, TypeOK
<1>3. faults' \in 0..MaxFaults
    <2>1. faults \in 0..MaxFaults BY DEF Typed, TypeOK
    <2>2. faults' = faults \/ (faults < MaxFaults /\ faults' = faults + 1)
        <3> USE DEF Fault, OrFails
        <3>1. CASE CountCycle(d) BY <3>1 DEF CountCycle
        <3>2. CASE Look(d) BY <3>2 DEF Look
        <3>3. CASE LookFailed(d) BY <3>3 DEF LookFailed
        <3>4. CASE Post(d) BY <3>4 DEF Post
        <3>5. CASE Rejected(d) \/ TimeOut(d) BY <3>5 DEF Rejected, TimeOut
        <3>6. CASE StampDelivered(d) BY <3>6 DEF StampDelivered
        <3>7. CASE GiveUp(d) BY <3>7 DEF GiveUp
        <3>8. CASE Exhausted(d) BY <3>8 DEF Exhausted
        <3>9. CASE HandBack(d) BY <3>9 DEF HandBack
        <3>10. CASE Ack(d) BY <3>10 DEF Ack
        <3> QED BY <3>1, <3>2, <3>3, <3>4, <3>5, <3>6, <3>7, <3>8, <3>9, <3>10 DEF Deliver
    <2> QED BY <2>1, <2>2, OutboundAssumption DEF OutboundAssumption
<1>4. /\ tries[d] \in 0..MaxTries
      /\ at[d] \in {"attempt", "posting"} => tries[d] < MaxTries
      /\ tries = [tries EXCEPT ![d] = tries[d]]
    BY DEF Typed, TypeOK, Budget
<1>5. CASE CountCycle(d)
    <2>1. \E count \in 0..MaxCycles : Begin(d, count) /\ cycles' \in [Answers -> 0..MaxCycles]
        <3>1. CountAttempt(Job(d)) \in 0..MaxCycles
            BY <1>2, OutboundAssumption DEF OutboundAssumption, CountAttempt, Typed, TypeOK
        <3>2. 0 \in 0..MaxCycles BY OutboundAssumption DEF OutboundAssumption
        <3> QED BY <1>5, <3>1, <3>2 DEF CountCycle, OrFails, Typed, TypeOK
    <2>2. PICK count \in 0..MaxCycles :
              Begin(d, count) /\ cycles' \in [Answers -> 0..MaxCycles]
        BY <2>1
    <2>3. 0 \in 0..MaxTries /\ 0 < MaxTries BY OutboundAssumption DEF OutboundAssumption
    <2>4. opening' \in [Daemons -> {"first", "repeat"}] /\ counted' \in [Daemons -> 0..MaxCycles]
        BY <2>2 DEF Begin, Opening, Typed, TypeOK
    <2>5. delivered' \subseteq owed /\ ThreadTyped'
          /\ abandoned' \in [Answers -> {"none", "refused", "cycles_exhausted", "unaddressable"}]
        BY <1>5 DEF CountCycle, Typed, TypeOK, ThreadTyped
    <2>6. at' = [at EXCEPT ![d] = "attempt"] /\ tries' = [tries EXCEPT ![d] = 0]
        BY <2>2 DEF Begin
    <2> QED BY <1>1, <1>3, <1>5, <2>2, <2>3, <2>4, <2>5, <2>6, CycleFrame DEF CountCycle
<1>6. CASE \E point \in {"posting", "delivered", "refused", "settled", "idle"} :
             /\ at' = [at EXCEPT ![d] = point]
             /\ point = "posting" => at[d] \in {"attempt", "posting"}
             /\ UNCHANGED <<opening, tries, counted, owed, receipted, report, streamVars, status,
                            resuming, lane, orphans, producerVars, cycles>>
             /\ ThreadTyped' /\ delivered' \subseteq owed
             /\ abandoned' \in [Answers -> {"none", "refused", "cycles_exhausted", "unaddressable"}]
    <2>1. opening' \in [Daemons -> {"first", "repeat"}] /\ counted' \in [Daemons -> 0..MaxCycles]
          /\ cycles' \in [Answers -> 0..MaxCycles]
        BY <1>6 DEF Typed, TypeOK
    <2>2. tries' = [tries EXCEPT ![d] = tries[d]] BY <1>4, <1>6
    <2>3. PICK point \in {"posting", "delivered", "refused", "settled", "idle"} :
              /\ at' = [at EXCEPT ![d] = point]
              /\ point = "posting" => at[d] \in {"attempt", "posting"}
        BY <1>6
    <2>4. point \in {"attempt", "posting"} => tries[d] < MaxTries BY <1>4, <2>3
    <2>5. tries[d] \in 0..MaxTries BY <1>4
    <2> QED BY <1>1, <1>3, <1>6, <2>1, <2>2, <2>3, <2>4, <2>5, CycleFrame
<1>7. CASE /\ at[d] \in {"attempt", "posting"} /\ Again(d)
           /\ ThreadTyped'
           /\ UNCHANGED <<ledgerVars, report, streamVars, status, resuming, lane, orphans, producerVars>>
    <2>1. PICK point \in {"attempt", "retryable"} :
              /\ at' = [at EXCEPT ![d] = point]
              /\ tries' = [tries EXCEPT ![d] = tries[d] + 1]
              /\ point = "attempt" => tries[d] + 1 < MaxTries
        BY <1>7 DEF Again, Typed, TypeOK
    <2>2. tries[d] + 1 \in 0..MaxTries
        <3>1. tries[d] \in 0..MaxTries /\ tries[d] < MaxTries BY <1>4, <1>7
        <3> QED BY <3>1, OutboundAssumption DEF OutboundAssumption
    <2>3. opening' \in [Daemons -> {"first", "repeat"}] /\ counted' \in [Daemons -> 0..MaxCycles]
          /\ cycles' \in [Answers -> 0..MaxCycles] /\ delivered' \subseteq owed
          /\ abandoned' \in [Answers -> {"none", "refused", "cycles_exhausted", "unaddressable"}]
        BY <1>7 DEF Again, Typed, TypeOK
    <2> QED BY <1>1, <1>3, <1>7, <2>1, <2>2, <2>3, CycleFrame
<1>8. CASE Look(d) \/ LookFailed(d)
    BY <1>6, <1>8 DEF Look, LookFailed, Looking, Typed, TypeOK, ThreadTyped
<1>9. CASE Post(d)
    <2>1. ThreadTyped'
        <3>1. posted \in [Answers -> 0..2] BY DEF Typed, TypeOK
        <3>2. posted' = [posted EXCEPT ![Job(d)] = IF @ < 2 THEN @ + 1 ELSE 2]
            BY <1>9 DEF Post, Lands
        <3>3. posted' \in [Answers -> 0..2] BY <1>2, <3>1, <3>2
        <3> QED BY <1>9, <3>3 DEF Post, ThreadTyped, Typed, TypeOK
    <2>2. CASE Again(d) BY <1>7, <1>9, <2>1, <2>2 DEF Post, Posting
    <2>3. CASE Verdict(d, "delivered") \/ Verdict(d, "refused")
        BY <1>6, <1>9, <2>1, <2>3 DEF Post, Typed, TypeOK
    <2> QED BY <1>9, <2>2, <2>3 DEF Post
<1>10. CASE Rejected(d)
    <2>1. CASE Again(d) BY <1>7, <1>10, <2>1 DEF Rejected, Typed, TypeOK, ThreadTyped
    <2>2. CASE Verdict(d, "refused") BY <1>6, <1>10, <2>2 DEF Rejected, Typed, TypeOK, ThreadTyped
    <2> QED BY <1>10, <2>1, <2>2 DEF Rejected
<1>11. CASE StampDelivered(d)
    <2>1. delivered' \subseteq owed BY <1>2, <1>11 DEF StampDelivered, OrFails, Typed, TypeOK
    <2> QED BY <1>6, <1>11, <2>1 DEF StampDelivered, Settled, Typed, TypeOK, ThreadTyped
<1>12. CASE GiveUp(d) \/ Exhausted(d)
    <2>1. abandoned' \in [Answers -> {"none", "refused", "cycles_exhausted", "unaddressable"}]
          /\ UNCHANGED <<owed, receipted, delivered, cycles>>
        BY <1>12 DEF GiveUp, Exhausted, OrFails, Abandon, Typed, TypeOK
    <2> QED BY <1>6, <1>12, <2>1 DEF GiveUp, Exhausted, Settled, Typed, TypeOK, ThreadTyped
<1>13. CASE HandBack(d) BY <1>6, <1>13 DEF HandBack, Typed, TypeOK, ThreadTyped
<1>14. CASE Ack(d)
    <2> USE DEF Typed, TypeOK
    <2>1. Tail(lane[d]) \in Seq(owed) BY <1>1, HeadAndTail
    <2>2. lane' \in [Daemons -> Seq(owed)] BY <1>14, <2>1 DEF Ack
    <2>3. Append(left[d], Job(d)) \in Seq(owed) BY <1>2, AppendKeepsHead
    <2>4. left' \in [Daemons -> Seq(owed)] BY <1>14, <2>3 DEF Ack, OrFails
    <2>5. Handed' BY <1>14 DEF Ack, Handed
    <2>6. Budget' BY <1>14 DEF Ack, Budget
    <2>7. orphans' \in [Daemons -> Nat] BY <1>14 DEF Ack
    <2>8. at' \in [Daemons -> {"idle", "attempt", "posting", "delivered", "refused", "retryable", "settled"}]
        BY <1>14 DEF Ack
    <2> QED BY <1>3, <1>14, <2>2, <2>4, <2>5, <2>6, <2>7, <2>8 DEF Ack, Reported
<1>15. CASE TimeOut(d)
    <2>1. ThreadTyped'
        <3>1. adrift \in [Answers -> Nat] BY DEF Typed, TypeOK
        <3>2. adrift' = [adrift EXCEPT ![Job(d)] = @ + 1] BY <1>15 DEF TimeOut
        <3>3. adrift' \in [Answers -> Nat] BY <1>2, <3>1, <3>2
        <3> QED BY <1>15, <3>3 DEF TimeOut, ThreadTyped, Typed, TypeOK
    <2> QED BY <1>7, <1>15, <2>1 DEF TimeOut, Posting
<1> QED BY <1>5, <1>8, <1>9, <1>10, <1>11, <1>12, <1>13, <1>14, <1>15 DEF Deliver

\* The producer keeps the types: what it scans and notes is owed.
LEMMA TypedProduce ==
    ASSUME Typed, NEW d \in Daemons, Scan(d) \/ Produce(d) PROVE Typed'
<1> USE DEF Typed, TypeOK, Handed, Budget, Reported
<1> USE DEF ledgerVars, streamVars, cycleVars, workerVars
<1>1. CASE Scan(d)
    <2>1. Unreceipted \subseteq owed /\ Undelivered \subseteq owed
        BY DEF Unreceipted, Undelivered
    <2>2. todo' \in [Daemons -> SUBSET owed]
          /\ phase' \in [Daemons -> {"unreceipted", "undelivered"}]
        BY <1>1, <2>1 DEF Scan
    <2> QED BY <1>1, <2>2 DEF Scan
<1>2. CASE Requeue(d)
    <2>1. PICK a \in todo[d] :
              /\ todo' = [todo EXCEPT ![d] = @ \ {a}]
              /\ \/ /\ OrFails("abandon", Abandon(a, "unaddressable"), UNCHANGED ledgerVars)
                    /\ UNCHANGED <<streamVars, noting>>
                 \/ /\ Enqueue(a)
                    /\ noting' = [noting EXCEPT ![d] = a]
                    /\ UNCHANGED <<faults, ledgerVars>>
        BY <1>2 DEF Requeue
    <2>5. UNCHANGED <<report, workerVars, phase, threadVars>> BY <1>2 DEF Requeue
    <2>2. a \in owed /\ a \in Answers /\ todo' \in [Daemons -> SUBSET owed] BY <2>1
    <2>3. CASE OrFails("abandon", Abandon(a, "unaddressable"), UNCHANGED ledgerVars)
               /\ UNCHANGED <<streamVars, noting>>
        <3>1. faults' \in 0..MaxFaults BY <2>3, FaultTyped DEF OrFails
        <3>2. abandoned' \in [Answers -> {"none", "refused", "cycles_exhausted", "unaddressable"}]
              /\ UNCHANGED <<owed, receipted, delivered, cycles>>
            BY <2>2, <2>3 DEF OrFails, Abandon
        <3> QED BY <2>5, <2>2, <2>3, <3>1, <3>2
    <2>4. CASE Enqueue(a) /\ noting' = [noting EXCEPT ![d] = a] /\ UNCHANGED <<faults, ledgerVars>>
        <3>1. unread' \in Seq(owed) BY <2>2, <2>4, AppendKeepsHead DEF Enqueue
        <3> QED BY <2>5, <2>2, <2>4, <3>1 DEF Enqueue
    <2> QED BY <2>1, <2>3, <2>4
<1>3. CASE RequeueRefused(d)
    <2>1. faults' \in 0..MaxFaults BY <1>3, FaultTyped DEF RequeueRefused
    <2> QED BY <1>3, <2>1 DEF RequeueRefused
<1>4. CASE RecordReappended(d)
    <2>1. faults' \in 0..MaxFaults BY <1>4, FaultTyped DEF RecordReappended, OrFails
    <2>2. receipted' \subseteq owed BY <1>4 DEF RecordReappended, OrFails
    <2> QED BY <1>4, <2>1, <2>2 DEF RecordReappended
<1> QED BY <1>1, <1>2, <1>3, <1>4 DEF Produce

\* A process that ends leaves typed pending entries and an idle, empty lane.
LEMMA TypedEnds ==
    ASSUME Typed, NEW d \in Daemons, Ends(d), faults' \in 0..MaxFaults PROVE Typed'
<1> USE DEF Typed, TypeOK, ledgerVars
<1>1. left[d] \o SubSeq(lane[d], orphans[d] + 1, Len(lane[d])) \o backlog[d] \in Seq(owed)
    BY PendingTyped
<1>2. backlog' \in [Daemons -> Seq(owed)] BY <1>1 DEF Ends
<1>3. <<>> \in Seq(owed) OBVIOUS
<1>4. lane' \in [Daemons -> Seq(owed)] /\ left' \in [Daemons -> Seq(owed)] BY <1>3 DEF Ends
<1>5. Handed' /\ Budget' BY DEF Ends, Handed, Budget
<1>6. tries' \in [Daemons -> 0..MaxTries] /\ counted' \in [Daemons -> 0..MaxCycles]
      /\ orphans' \in [Daemons -> Nat]
    <2>1. 0 \in 0..MaxTries /\ 0 \in 0..MaxCycles /\ 0 \in Nat
        BY OutboundAssumption DEF OutboundAssumption
    <2> QED BY <2>1 DEF Ends
<1>7. /\ status' \in [Daemons -> {"up", "stopping", "down"}]
      /\ at' \in [Daemons -> {"idle", "attempt", "posting", "delivered", "refused", "retryable", "settled"}]
      /\ opening' \in [Daemons -> {"first", "repeat"}]
    BY DEF Ends
<1>8. /\ phase' \in [Daemons -> {"unreceipted", "undelivered"}]
      /\ todo' \in [Daemons -> SUBSET owed] /\ noting' \in [Daemons -> owed \cup {Nobody}]
    BY DEF Ends
<1> QED BY <1>2, <1>4, <1>5, <1>6, <1>7, <1>8 DEF Ends, Reported

\* Shutdown, death, boot and the loss of the queue keep the types.
LEMMA TypedLife ==
    ASSUME Typed, \/ LoseQueue
                  \/ \E d \in Daemons : Stop(d) \/ Exit(d) \/ Crash(d) \/ Start(d)
    PROVE  Typed'
<1> USE DEF ledgerVars, streamVars, cycleVars, workerVars, producerVars
<1>1. CASE LoseQueue
    <2> USE DEF Typed, TypeOK
    <2>1. faults' \in 0..MaxFaults BY <1>1, FaultTyped DEF LoseQueue
    <2>2. <<>> \in Seq(owed) /\ \A d \in Daemons : Len(lane[d]) \in Nat OBVIOUS
    <2>3. /\ unread' \in Seq(owed) /\ backlog' \in [Daemons -> Seq(owed)]
          /\ left' \in [Daemons -> Seq(owed)] /\ orphans' \in [Daemons -> Nat] /\ group' \in BOOLEAN
        BY <1>1, <2>2 DEF LoseQueue
    <2> QED BY <1>1, <2>1, <2>3 DEF LoseQueue, Handed, Budget, Reported
<1>2. ASSUME NEW d \in Daemons, Stop(d) PROVE Typed'
    <2>1. faults' \in 0..MaxFaults BY <1>2, FaultTyped DEF Stop
    <2> QED BY <1>2, <2>1 DEF Stop, Typed, TypeOK, Handed, Budget, Reported
<1>3. ASSUME NEW d \in Daemons, Exit(d) PROVE Typed'
    <2>1. faults' \in 0..MaxFaults BY <1>3 DEF Exit, Typed, TypeOK
    <2> QED BY <1>3, <2>1, TypedEnds DEF Exit
<1>4. ASSUME NEW d \in Daemons, Crash(d) PROVE Typed'
    <2>1. faults' \in 0..MaxFaults BY <1>4, FaultTyped DEF Crash
    <2> QED BY <1>4, <2>1, TypedEnds DEF Crash
<1>5. ASSUME NEW d \in Daemons, Start(d) PROVE Typed'
    <2>1. faults' \in 0..MaxFaults
        BY <1>5, FaultTyped DEF Start, OrFails, Typed, TypeOK
    <2>2. group' \in BOOLEAN BY <1>5 DEF Start, OrFails, Typed, TypeOK
    <2> QED BY <1>5, <2>1, <2>2 DEF Start, Typed, TypeOK, Handed, Budget, Reported
<1> QED BY <1>1, <1>2, <1>3, <1>4, <1>5

\* Every step keeps the types.
LEMMA TypedNext == Typed /\ [Next]_vars => Typed'
<1>1. ASSUME Typed, UNCHANGED vars PROVE Typed'
    BY <1>1 DEF vars, ledgerVars, streamVars, cycleVars, workerVars, producerVars, Typed, TypeOK,
                Handed, Budget, Reported
<1>2. ASSUME Typed, NEW a \in Answers, LandsLate(a) PROVE Typed'
    <2>1. adrift' \in [Answers -> Nat] /\ late' \in [Answers -> Nat]
        BY <1>2 DEF LandsLate, Typed, TypeOK
    <2> QED BY <1>2, <2>1 DEF LandsLate, ledgerVars, streamVars, cycleVars, workerVars, producerVars,
                              Typed, TypeOK, Handed, Budget, Reported
<1> QED BY <1>1, <1>2, TypedReport, TypedRead, TypedDeliver, TypedProduce, TypedLife DEF Next

\* Ledger, stream, lanes and producers stay well typed: every entry anywhere is
\* of a row the report's transaction owed.
THEOREM EntriesAreOwed == Spec => []TypeOK
<1>1. Spec => []Typed BY TypedInit, TypedNext, PTL DEF Spec
<1>2. Typed => TypeOK BY DEF Typed
<1> QED BY <1>1, <1>2, PTL

-----------------------------------------------------------------------------
(* The stamps. *)

\* A cycle about to stamp its answer delivered has it in the thread.
Found == \A d \in Daemons : at[d] = "delivered" => InThread(Job(d))

Stamped == DeliveredWasPosted /\ Found

\* Reading leaves every lane that has a head with that head.
LEMMA ReadKeepsHeads ==
    ASSUME Typed, NEW d \in Daemons, Read(d)
    PROVE  \A x \in Daemons : lane[x] # <<>> => lane'[x] # <<>> /\ Head(lane'[x]) = Head(lane[x])
<1>1. CASE lane' = lane BY <1>1
<1>2. ASSUME NEW x \in owed, lane' = [lane EXCEPT ![d] = Append(@, x)]
      PROVE  \A y \in Daemons :
                 lane[y] # <<>> => lane'[y] # <<>> /\ Head(lane'[y]) = Head(lane[y])
    <2>1. lane \in [Daemons -> Seq(owed)] BY DEF Typed, TypeOK
    <2>2. /\ Append(lane[d], x) # <<>>
          /\ lane[d] # <<>> => Head(Append(lane[d], x)) = Head(lane[d])
        BY <1>2, <2>1, AppendKeepsHead
    <2> QED BY <1>2, <2>1, <2>2
<1>3. backlog[d] # <<>> => Head(backlog[d]) \in owed
    BY HeadAndTail DEF Typed, TypeOK
<1>4. unread # <<>> => Head(unread) \in owed
    BY HeadAndTail DEF Typed, TypeOK
<1> QED BY <1>1, <1>2, <1>3, <1>4 DEF Read

\* Messages stay: what does not begin to stamp or stamp keeps the invariant.
LEMMA StampedFrame ==
    ASSUME Typed, Stamped, delivered' = delivered,
           \A a \in Answers : InThread(a) => InThread(a)',
           \A d \in Daemons : at'[d] = "delivered" =>
               at[d] = "delivered" /\ lane'[d] # <<>> /\ Head(lane'[d]) = Head(lane[d])
    PROVE  Stamped'
<1>1. \A d \in Daemons : at[d] = "delivered" => Head(lane[d]) \in Answers
    BY HeadAndTail DEF Typed, TypeOK, Handed
<1>2. Found' BY <1>1 DEF Stamped, Found, Job
<1>3. DeliveredWasPosted' BY DEF Stamped, DeliveredWasPosted, Typed, TypeOK
<1> QED BY <1>2, <1>3 DEF Stamped

\* A delivery stamps only what it found or posted.
LEMMA StampedDeliver ==
    ASSUME Typed, Stamped, NEW d \in Daemons, Deliver(d) PROVE Stamped'
<1> USE DEF ledgerVars, streamVars, cycleVars, producerVars, Verdict
<1>1. lane[d] # <<>>
    BY DEF Typed, Handed, TypeOK, Deliver, CountCycle, Look, LookFailed, Looking, Post, Posting,
           TimeOut, Rejected, StampDelivered, Finished, GiveUp, Exhausted, HandBack, Ack
<1>2. Job(d) \in owed /\ Job(d) \in Answers
    BY <1>1, HeadAndTail DEF Job, Typed, TypeOK
<1>3. ASSUME NEW point, at' = [at EXCEPT ![d] = point], point # "delivered",
             UNCHANGED <<delivered, posted, late>>, \A x \in Daemons \ {d} : lane'[x] = lane[x]
      PROVE  Stamped'
    BY <1>3, StampedFrame DEF InThread, Typed, TypeOK, Handed
<1>4. CASE CountCycle(d)
    <2>1. at' = [at EXCEPT ![d] = "attempt"] BY <1>4 DEF CountCycle, OrFails, Begin
    <2> QED BY <1>3, <1>4, <2>1 DEF CountCycle
<1>5. CASE Look(d)
    <2>1. /\ \A x \in Daemons \ {d} : at'[x] = at[x]
          /\ at'[d] = "delivered" => InThread(Job(d))
          /\ UNCHANGED <<lane, delivered, posted, late>>
        BY <1>5 DEF Look, Typed, TypeOK
    <2> QED BY <2>1 DEF Stamped, Found, Job, DeliveredWasPosted, InThread
<1>6. CASE LookFailed(d) BY <1>3, <1>6 DEF LookFailed
<1>7. CASE Post(d)
    <2>1. posted \in [Answers -> 0..2] /\ late \in [Answers -> Nat] BY DEF Typed, TypeOK
    <2>2. /\ posted' = [posted EXCEPT ![Job(d)] = IF @ < 2 THEN @ + 1 ELSE 2]
          /\ late' = late
        BY <1>7 DEF Post, Lands
    <2>3. InThread(Job(d))' /\ \A a \in Answers : InThread(a) => InThread(a)'
        <3>1. \A a \in Answers : posted'[a] \in 0..2 /\ posted'[a] >= posted[a] BY <1>2, <2>1, <2>2
        <3>2. posted'[Job(d)] > 0 BY <1>2, <2>1, <2>2
        <3>3. lane' = lane BY <1>7 DEF Post
        <3> QED BY <1>2, <2>1, <2>2, <3>1, <3>2, <3>3 DEF InThread, Job
    <2>4. /\ \A x \in Daemons \ {d} : at'[x] = at[x]
          /\ UNCHANGED <<lane, delivered>>
        BY <1>7 DEF Post, Again, Typed, TypeOK
    <2>5. \A x \in Daemons : at[x] = "delivered" => Job(x) \in Answers
        BY HeadAndTail DEF Typed, TypeOK, Handed, Job
    <2>6. Found' BY <2>3, <2>4, <2>5 DEF Stamped, Found, Job
    <2>7. DeliveredWasPosted' BY <2>3, <2>4 DEF Stamped, DeliveredWasPosted, Typed, TypeOK
    <2> QED BY <2>6, <2>7 DEF Stamped
<1>8. CASE Rejected(d)
    <2>1. \E point : at' = [at EXCEPT ![d] = point] /\ point # "delivered"
        BY <1>8 DEF Rejected, Again
    <2> QED BY <1>3, <1>8, <2>1 DEF Rejected
<1>9. CASE StampDelivered(d)
    <2>1. InThread(Job(d)) BY <1>9 DEF StampDelivered, Finished, Stamped, Found
    <2>2. delivered' \subseteq delivered \cup {Job(d)} /\ at' = [at EXCEPT ![d] = "settled"]
          /\ UNCHANGED <<lane, posted, late>>
        BY <1>9 DEF StampDelivered, OrFails, Settled
    <2>3. DeliveredWasPosted' BY <2>1, <2>2 DEF Stamped, DeliveredWasPosted, InThread
    <2>4. Found' BY <2>2 DEF Stamped, Found, Job, InThread, Typed, TypeOK
    <2> QED BY <2>3, <2>4 DEF Stamped
<1>10. CASE GiveUp(d) BY <1>3, <1>10 DEF GiveUp, OrFails, Abandon, Settled
<1>11. CASE Exhausted(d) BY <1>3, <1>11 DEF Exhausted, OrFails, Abandon, Settled
<1>12. CASE HandBack(d) BY <1>3, <1>12 DEF HandBack
<1>13. CASE Ack(d) BY <1>3, <1>13 DEF Ack, Typed, TypeOK
<1>14. CASE TimeOut(d)
    <2>1. at' = [at EXCEPT ![d] = "attempt"] \/ at' = [at EXCEPT ![d] = "retryable"]
        BY <1>14 DEF TimeOut, Again
    <2>2. UNCHANGED <<delivered, posted, late, lane>> BY <1>14 DEF TimeOut
    <2>3. CASE at' = [at EXCEPT ![d] = "attempt"] BY <1>3, <2>2, <2>3
    <2>4. CASE at' = [at EXCEPT ![d] = "retryable"] BY <1>3, <2>2, <2>4
    <2> QED BY <2>1, <2>3, <2>4
<1> QED
    BY <1>4, <1>5, <1>6, <1>7, <1>8, <1>9, <1>10, <1>11, <1>12, <1>13, <1>14 DEF Deliver

\* Nothing else stamps or begins to.
LEMMA StampedNext == Typed /\ Stamped /\ [Next]_vars => Stamped'
<1> SUFFICES ASSUME Typed, Stamped, [Next]_vars PROVE Stamped'
    OBVIOUS
<1> USE DEF ledgerVars, streamVars, cycleVars, workerVars, producerVars
<1>1. ASSUME UNCHANGED <<delivered, posted, late, at, lane>> PROVE Stamped'
    BY <1>1, StampedFrame DEF InThread, Typed, Handed
<1>2. CASE UNCHANGED vars BY <1>1, <1>2 DEF vars
<1>3. ASSUME NEW a \in Answers, ReportStep(a) PROVE Stamped'
    BY <1>1, <1>3 DEF ReportStep, Owe, QueueDelivery, Receipt, LoseReport
<1>4. ASSUME NEW d \in Daemons, Read(d) PROVE Stamped'
    <2>1. UNCHANGED <<delivered, posted, late, at>> BY <1>4 DEF Read
    <2> QED BY <1>4, <2>1, ReadKeepsHeads, StampedFrame DEF InThread, Typed, Handed
<1>5. ASSUME NEW d \in Daemons, Scan(d) \/ Produce(d) PROVE Stamped'
    BY <1>1, <1>5
       DEF Scan, Produce, Requeue, RequeueRefused, RecordReappended, OrFails, Abandon
<1>6. ASSUME NEW d \in Daemons, Ends(d) PROVE Stamped'
    <2>1. /\ \A x \in Daemons : at'[x] = "delivered" => at[x] = "delivered" /\ lane'[x] = lane[x]
          /\ UNCHANGED <<delivered, posted, late>>
        BY <1>6 DEF Ends, Typed, TypeOK
    <2> QED BY <2>1, StampedFrame DEF InThread, Typed, Handed
<1>7. ASSUME NEW d \in Daemons, Stop(d) \/ Exit(d) \/ Crash(d) \/ Start(d) PROVE Stamped'
    BY <1>1, <1>6, <1>7 DEF Stop, Exit, Crash, Start
<1>8. CASE LoseQueue BY <1>1, <1>8 DEF LoseQueue
<1>9. ASSUME NEW a \in Answers, LandsLate(a) PROVE Stamped'
    <2>1. UNCHANGED <<posted, delivered, at, lane>> BY <1>9 DEF LandsLate
    <2>2. \A x \in Answers : InThread(x) => InThread(x)'
        <3>1. posted \in [Answers -> 0..2] /\ late \in [Answers -> Nat]
            BY DEF Typed, TypeOK
        <3>2. late' = [late EXCEPT ![a] = @ + 1] BY <1>9 DEF LandsLate
        <3> QED BY <2>1, <3>1, <3>2 DEF InThread
    <2> QED BY <2>1, <2>2, StampedFrame DEF Typed, Handed
<1> QED BY <1>2, <1>3, <1>4, <1>5, <1>7, <1>8, <1>9, StampedDeliver DEF Next

\* A delivery stamp always means a message in the thread, whichever daemon wrote
\* it and whatever failed in between.
THEOREM StampsAreTrue == Spec => []DeliveredWasPosted
<1>1. Init => Stamped BY DEF Init, Stamped, DeliveredWasPosted, Found
<1>2. Stamped => DeliveredWasPosted BY DEF Stamped
<1> QED BY <1>1, <1>2, TypedInit, TypedNext, StampedNext, PTL DEF Spec

\* ABANDON leaves a delivered row alone.
LEMMA AbandonSpares ==
    ASSUME Typed, NEW a \in Answers, NEW reason, Abandon(a, reason)
    PROVE  \A x \in delivered : x \in delivered' /\ abandoned'[x] = abandoned[x]
BY DEF Abandon, Typed, TypeOK

\* A delivered answer stays delivered and is never recorded as given up on,
\* although stale entries of it are still run and re-offered.
THEOREM StampsAreFinal == Spec => DeliveredIsFinal
<1> DEFINE Final == \A a \in delivered : a \in delivered' /\ abandoned'[a] = abandoned[a]
<1>1. Typed /\ [Next]_vars => [Final]_vars
    <2> SUFFICES ASSUME Typed, Next PROVE Final
        OBVIOUS
    <2> USE DEF ledgerVars, streamVars, cycleVars, workerVars, producerVars
    <2>1. ASSUME UNCHANGED <<delivered, abandoned>> PROVE Final BY <2>1
    <2>2. ASSUME NEW a \in Answers, ReportStep(a) PROVE Final
        BY <2>1, <2>2 DEF ReportStep, Owe, QueueDelivery, Receipt, LoseReport
    <2>3. ASSUME NEW d \in Daemons, Read(d) \/ Scan(d) PROVE Final
        BY <2>1, <2>3 DEF Read, Scan
    <2>4. ASSUME NEW d \in Daemons, Deliver(d) PROVE Final
        <3>1. CASE CountCycle(d) \/ Look(d) \/ LookFailed(d) \/ Post(d) \/ TimeOut(d)
                   \/ Rejected(d) \/ HandBack(d) \/ Ack(d)
            BY <2>1, <3>1 DEF CountCycle, Look, LookFailed, Post, TimeOut, Rejected, HandBack, Ack
        <3>2. CASE StampDelivered(d) BY <3>2 DEF StampDelivered, OrFails
        <3>3. CASE GiveUp(d) \/ Exhausted(d)
            <4>1. Job(d) \in Answers
                BY <3>3, HeadAndTail DEF GiveUp, Exhausted, Job, Typed, TypeOK, Handed
            <4>2. UNCHANGED ledgerVars \/ \E reason : Abandon(Job(d), reason)
                BY <3>3 DEF GiveUp, Exhausted, OrFails
            <4> QED BY <2>1, <4>1, <4>2, AbandonSpares
        <3> QED BY <2>4, <3>1, <3>2, <3>3 DEF Deliver
    <2>5. ASSUME NEW d \in Daemons, Produce(d) PROVE Final
        <3>1. CASE Requeue(d)
            <4>1. \A a \in todo[d] : a \in Answers BY DEF Typed, TypeOK
            <4>2. UNCHANGED ledgerVars \/ \E a \in todo[d] : Abandon(a, "unaddressable")
                BY <3>1 DEF Requeue, OrFails
            <4> QED BY <2>1, <4>1, <4>2, AbandonSpares
        <3>2. CASE RequeueRefused(d) \/ RecordReappended(d)
            BY <2>1, <3>2 DEF RequeueRefused, RecordReappended
        <3> QED BY <2>5, <3>1, <3>2 DEF Produce
    <2>6. ASSUME NEW d \in Daemons, Stop(d) \/ Exit(d) \/ Crash(d) \/ Start(d) PROVE Final
        BY <2>1, <2>6 DEF Stop, Exit, Crash, Start, Ends
    <2>7. CASE LoseQueue BY <2>1, <2>7 DEF LoseQueue
    <2>8. ASSUME NEW a \in Answers, LandsLate(a) PROVE Final BY <2>1, <2>8 DEF LandsLate
    <2> QED BY <2>2, <2>3, <2>4, <2>5, <2>6, <2>7, <2>8 DEF Next
<1> QED BY <1>1, TypedInit, TypedNext, PTL DEF Spec, DeliveredIsFinal

-----------------------------------------------------------------------------
(* One message in the thread. *)

\* What the argument asks of the deployment: one daemon, a ledger that counts, a
\* thread that can be read, and a second cycle.
OneSure == /\ \A c, d \in Daemons : c = d
           /\ {"count", "look"} \cap Disturbances = {}
           /\ MaxCycles > 1

\* Where a delivery may stand.
Points == {"idle", "attempt", "posting", "delivered", "refused", "retryable", "settled"}

\* An answer in its thread or on its way there was counted, and so is the one in hand.
Counted == \A a \in Answers : InThread(a) \/ adrift[a] > 0 => cycles[a] > 0
InHand == \A d \in Daemons : at[d] # "idle" => cycles[Job(d)] > 0

\* The delivery would post without looking any more.
Blind(d) == at[d] = "posting" \/ (at[d] = "attempt" /\ opening[d] = "first")

\* What is posted without looking has not been posted in time.
Clear == \A d \in Daemons : Blind(d) => posted[Job(d)] = 0

Once == PostedOnce /\ Counted /\ InHand /\ Clear

\* A step that posts nothing, uncounts nothing, and leaves the cycles in hand to
\* their answers and no blinder than they were keeps the invariant.
LEMMA OnceFrame ==
    ASSUME Typed, Once, UNCHANGED threadVars,
           \A a \in Answers : cycles[a] > 0 => cycles'[a] > 0,
           \A d \in Daemons : at'[d] # "idle" =>
               /\ at[d] # "idle" /\ Head(lane'[d]) = Head(lane[d])
               /\ Blind(d)' => Blind(d)
    PROVE  Once'
<1>1. \A d \in Daemons : at[d] # "idle" => Head(lane[d]) \in Answers
    BY HeadAndTail DEF Typed, TypeOK, Handed
<1>2. PostedOnce' /\ Counted' BY DEF Once, PostedOnce, Counted, InThread
<1>3. InHand' BY <1>1 DEF Once, InHand, Job
<1>4. Clear'
    <2>1. \A d \in Daemons : Blind(d)' => at'[d] # "idle" BY DEF Blind
    <2> QED BY <2>1 DEF Once, Clear, Job
<1> QED BY <1>2, <1>3, <1>4 DEF Once

\* Counting makes a first cycle only of an answer that was never counted.
LEMMA OnceCount ==
    ASSUME OneSure, Typed, Stamped, Once, NEW d \in Daemons, CountCycle(d) PROVE Once'
<1> DEFINE a == Job(d)
<1>1. a \in Answers /\ at[d] = "idle"
    BY HeadAndTail DEF CountCycle, Job, Typed, TypeOK
<1>2. /\ UNCHANGED <<threadVars, lane>>
      /\ \A x \in Daemons : x = d
    BY DEF CountCycle, OneSure
<1>3. cycles \in [Answers -> 0..MaxCycles] /\ MaxCycles \in Nat /\ MaxCycles > 1
      /\ posted \in [Answers -> 0..2] /\ late \in [Answers -> Nat] /\ at \in [Daemons -> Points]
      /\ opening \in [Daemons -> {"first", "repeat"}]
    BY OutboundAssumption DEF OutboundAssumption, OneSure, Typed, TypeOK, Points
<1>4. ~Fault("count") BY DEF OneSure, Fault
<1>5. \/ a \in delivered /\ Begin(d, 0) /\ UNCHANGED cycles
      \/ Begin(d, CountAttempt(a)) /\ cycles' = [cycles EXCEPT ![a] = CountAttempt(a)]
    BY <1>4 DEF CountCycle, OrFails
<1>6. CASE a \in delivered /\ Begin(d, 0) /\ UNCHANGED cycles
    <2>1. InThread(a) BY <1>6 DEF Stamped, DeliveredWasPosted
    <2>2. cycles[a] > 0 BY <1>1, <2>1 DEF Once, Counted
    <2>3. ~Blind(d)' BY <1>3, <1>6 DEF Begin, Opening, Blind
    <2> QED BY <1>2, <1>6, <2>2, <2>3 DEF Once, PostedOnce, Counted, InHand, Clear, Job, InThread
<1>7. CASE Begin(d, CountAttempt(a)) /\ cycles' = [cycles EXCEPT ![a] = CountAttempt(a)]
    <2>1. CountAttempt(a) > 0 /\ (CountAttempt(a) = 1 => cycles[a] = 0)
        BY <1>1, <1>3 DEF CountAttempt
    <2>2. \A b \in Answers : cycles[b] > 0 => cycles'[b] > 0
        BY <1>1, <1>3, <1>7, <2>1
    <2>3. cycles'[a] > 0 BY <1>1, <1>3, <1>7, <2>1
    <2>4. Blind(d)' => cycles[a] = 0
        BY <1>3, <1>7, <2>1 DEF Begin, Opening, Blind
    <2>5. Blind(d)' => posted[a] = 0 BY <1>1, <1>3, <2>4 DEF Once, Counted, InThread
    <2> QED BY <1>2, <2>2, <2>3, <2>5 DEF Once, PostedOnce, Counted, InHand, Clear, Job, InThread
<1> QED BY <1>5, <1>6, <1>7

\* A repeat that looks and finds nothing may post, and a post is never blind to
\* one before it that landed in time: every attempt after it looks.
LEMMA OncePost ==
    ASSUME OneSure, Typed, Once, NEW d \in Daemons, Look(d) \/ Post(d) \/ TimeOut(d) PROVE Once'
<1> DEFINE a == Job(d)
<1>1. a \in Answers /\ at[d] # "idle"
    BY HeadAndTail DEF Look, Looking, Post, TimeOut, Posting, Job, Typed, TypeOK, Handed
<1>2. UNCHANGED <<lane, cycles>> /\ \A x \in Daemons : x = d
    BY DEF Look, Post, TimeOut, ledgerVars, OneSure
<1>3. /\ posted \in [Answers -> 0..2] /\ adrift \in [Answers -> Nat]
      /\ late \in [Answers -> Nat] /\ at \in [Daemons -> Points]
      /\ opening \in [Daemons -> {"first", "repeat"}]
    BY DEF Typed, TypeOK, Points
<1>4. InHand' /\ cycles[a] > 0 BY <1>1, <1>2 DEF Once, InHand, Job
<1>5. CASE Look(d)
    <2>1. UNCHANGED threadVars /\ (Blind(d)' => posted[a] = 0)
        BY <1>1, <1>3, <1>5 DEF Look, Blind, InThread
    <2> QED BY <1>2, <1>4, <2>1 DEF Once, PostedOnce, Counted, Clear, Job, InThread
<1>6. CASE Post(d)
    <2>1. posted[a] = 0 BY <1>6 DEF Post, Posting, Blind, Once, Clear
    <2>2. posted' = [posted EXCEPT ![a] = 1] /\ UNCHANGED <<adrift, late>>
        BY <1>1, <1>3, <1>6, <2>1 DEF Post, Lands
    <2>3. PostedOnce' /\ Counted'
        BY <1>1, <1>2, <1>3, <1>4, <2>2 DEF Once, PostedOnce, Counted, InThread
    <2>4. ~Blind(d)' BY <1>3, <1>6 DEF Post, Again, Verdict, Blind
    <2> QED BY <1>2, <1>4, <2>3, <2>4 DEF Once, Clear
<1>7. CASE TimeOut(d)
    <2>1. adrift' = [adrift EXCEPT ![a] = @ + 1] /\ UNCHANGED <<posted, late>>
        BY <1>7 DEF TimeOut
    <2>2. PostedOnce' /\ Counted'
        BY <1>1, <1>2, <1>3, <1>4, <2>1 DEF Once, PostedOnce, Counted, InThread
    <2>3. ~Blind(d)' BY <1>3, <1>7 DEF TimeOut, Again, Blind
    <2> QED BY <1>2, <1>4, <2>2, <2>3 DEF Once, Clear
<1> QED BY <1>5, <1>6, <1>7

\* The rest of a delivery posts nothing and opens nothing.
LEMMA OnceDeliver ==
    ASSUME OneSure, Typed, Stamped, Once, NEW d \in Daemons, Deliver(d) PROVE Once'
<1> USE DEF ledgerVars, streamVars, cycleVars, producerVars, Verdict
<1>1. ASSUME NEW point, at' = [at EXCEPT ![d] = point], UNCHANGED <<threadVars, cycles>>,
             \A x \in Daemons \ {d} : lane'[x] = lane[x],
             \A x \in Daemons \ {d} : opening'[x] = opening[x],
             point = "idle" \/ (at[d] # "idle" /\ lane'[d] = lane[d]),
             point \in {"idle", "settled", "refused", "retryable"}
                 \/ (point = "attempt" /\ opening'[d] = "repeat")
      PROVE  Once'
    BY <1>1, OnceFrame DEF Typed, TypeOK, Blind
<1>2. opening \in [Daemons -> {"first", "repeat"}] BY DEF Typed, TypeOK
<1>3. CASE LookFailed(d) BY <1>3 DEF LookFailed, Fault, OneSure
<1>4. CASE Rejected(d)
    <2>1. CASE Again(d) BY <1>1, <1>2, <1>4, <2>1 DEF Rejected, Again
    <2>2. CASE at' = [at EXCEPT ![d] = "refused"] /\ UNCHANGED opening
        BY <1>1, <1>4, <2>2 DEF Rejected
    <2> QED BY <1>4, <2>1, <2>2 DEF Rejected
<1>5. CASE StampDelivered(d) BY <1>1, <1>5 DEF StampDelivered, Finished, Settled
<1>6. CASE GiveUp(d) BY <1>1, <1>6 DEF GiveUp, OrFails, Abandon, Settled
<1>7. CASE Exhausted(d) BY <1>1, <1>7 DEF Exhausted, OrFails, Abandon, Settled
<1>8. CASE HandBack(d) BY <1>1, <1>8 DEF HandBack
<1>9. CASE Ack(d) BY <1>1, <1>9 DEF Ack, Typed, TypeOK
<1> QED BY <1>3, <1>4, <1>5, <1>6, <1>7, <1>8, <1>9, OnceCount, OncePost DEF Deliver

\* Nothing else posts, counts or opens a cycle.
LEMMA OnceNext ==
    ASSUME OneSure PROVE Typed /\ Stamped /\ Once /\ [Next]_vars => Once'
<1> SUFFICES ASSUME Typed, Stamped, Once, [Next]_vars PROVE Once'
    OBVIOUS
<1> USE DEF ledgerVars, streamVars, cycleVars, workerVars, producerVars
<1>1. ASSUME UNCHANGED <<threadVars, cycles, at, opening, lane>> PROVE Once'
    BY <1>1, OnceFrame DEF Blind
<1>2. CASE UNCHANGED vars BY <1>1, <1>2 DEF vars
<1>3. ASSUME NEW a \in Answers, ReportStep(a) PROVE Once'
    BY <1>1, <1>3 DEF ReportStep, Owe, QueueDelivery, Receipt, LoseReport
<1>4. ASSUME NEW d \in Daemons, Read(d) PROVE Once'
    <2>1. UNCHANGED <<threadVars, cycles, at, opening>> BY <1>4 DEF Read
    <2> QED BY <1>4, <2>1, ReadKeepsHeads, OnceFrame DEF Typed, Handed, Blind
<1>5. ASSUME NEW d \in Daemons, Scan(d) \/ Produce(d) PROVE Once'
    BY <1>1, <1>5
       DEF Scan, Produce, Requeue, RequeueRefused, RecordReappended, OrFails, Abandon
<1>6. ASSUME NEW d \in Daemons, Ends(d) PROVE Once'
    <2>1. \A x \in Daemons : at'[x] = "idle" BY <1>6 DEF Ends, OneSure, Typed, TypeOK
    <2>2. UNCHANGED <<threadVars, cycles>> BY <1>6 DEF Ends
    <2> QED BY <2>1, <2>2, OnceFrame
<1>7. ASSUME NEW d \in Daemons, Stop(d) \/ Exit(d) \/ Crash(d) \/ Start(d) PROVE Once'
    BY <1>1, <1>6, <1>7 DEF Stop, Exit, Crash, Start
<1>8. CASE LoseQueue BY <1>1, <1>8 DEF LoseQueue
<1>9. ASSUME NEW a \in Answers, LandsLate(a) PROVE Once'
    <2>1. UNCHANGED <<posted, cycles, at, opening, lane>> /\ adrift[a] > 0
          /\ adrift' = [adrift EXCEPT ![a] = @ - 1] /\ late' = [late EXCEPT ![a] = @ + 1]
        BY <1>9 DEF LandsLate
    <2>2. posted \in [Answers -> 0..2] /\ adrift \in [Answers -> Nat] /\ late \in [Answers -> Nat]
        BY DEF Typed, TypeOK
    <2>3. Counted' BY <2>1, <2>2 DEF Once, Counted, InThread
    <2> QED BY <2>1, <2>3 DEF Once, PostedOnce, InHand, Clear, Blind, Job
<1> QED BY <1>2, <1>3, <1>4, <1>5, <1>7, <1>8, <1>9, OnceDeliver DEF Next

\* While one daemon delivers, the ledger counts, the thread can be read and an
\* answer has more than one cycle, it lands at most once in time, whatever crashes,
\* lost replies, late requests, failed stamps and duplicate entries there are.
THEOREM PostsOnce == ASSUME OneSure PROVE Spec => []PostedOnce
<1>1. Init => Stamped BY DEF Init, Stamped, DeliveredWasPosted, Found
<1>2. Init => Once BY DEF Init, Once, PostedOnce, Counted, InHand, Clear, Blind, InThread
<1>3. Once => PostedOnce BY DEF Once
<1>4. Typed /\ Stamped /\ Once /\ [Next]_vars => Once' BY OnceNext
<1> QED BY <1>1, <1>2, <1>3, <1>4, TypedInit, TypedNext, StampedNext, PTL DEF Spec

=============================================================================
