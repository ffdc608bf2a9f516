-------------------------- MODULE ReportSpool_proofs --------------------------
(***************************************************************************)
(* Proofs about ReportSpool for every number of leases, every mixture of   *)
(* reports and any number of faults: a report the spool took stays on disk *)
(* until the daemon settled its lease, and a hold is ended only for a run  *)
(* the daemon did not record.                                              *)
(*                                                                         *)
(* The daemon's word is final: a recorded or overtaken lease stays so.  An *)
(* actor that acts on an answer therefore acts on what is still true, and  *)
(* the invariant says, for each actor, what its place in the delivery      *)
(* tells about the lease.                                                  *)
(***************************************************************************)
EXTENDS ReportSpool, TLAPS

-----------------------------------------------------------------------------
(* The invariant. *)

\* What actor i knows of its lease: the answer it acts on is still true, a report
\* posted again was refused for its shape, one posted from memory is counted so.
Knows(i) ==
    LET l == job[i].lease IN
    /\ job[i].at = "apply" =>
          /\ job[i].answer = "settled" => daemon[l] = "recorded"
          /\ job[i].answer = "superseded" => daemon[l] = "overtaken"
          /\ job[i].answer = "shape" => l \in shaped
          /\ job[i].answer = "refused" => case[l].daemon = "refuses"
    /\ job[i].again => l \in shaped
    /\ job[i].at = "forget" => job[i].again
    /\ job[i].at = "direct" => l \in direct
    /\ i = Drain /\ job[i].at = "hold" => job[i].again

\* A report the daemon cannot read is never recorded.
Unread == \A l \in Leases : case[l].daemon = "refuses" => daemon[l] # "recorded"

\* Why a hold was ended.
EndedFor == \A l \in ended \ (direct \cup shaped) :
                daemon[l] = "overtaken" \/ case[l].daemon = "refuses"

IInv == TypeOK /\ (\A i \in Actors : Knows(i)) /\ Unread /\ EndedFor /\ WaitsOnDisk

-----------------------------------------------------------------------------
(* What a step may do to what the actors rely on. *)

\* The case is fixed, the daemon's word is final, and reports once refused for their
\* shape or posted from memory stay so counted.
Grows ==
    /\ case' = case
    /\ \A l \in Leases : daemon[l] # "open" => daemon'[l] = daemon[l]
    /\ shaped \subseteq shaped' /\ direct \subseteq direct'

\* Why an outcome may end the hold on lease l in this step.
Reason(l, outcome) ==
    /\ outcome = "superseded" => daemon'[l] = "overtaken"
    /\ outcome = "refused" => case'[l].daemon = "refuses"
    /\ outcome = "shape" => l \in shaped'
    /\ outcome \in {"lost", "revoked"} => l \in direct'

Outcomes == Answers \cup {"failed", "lost", "revoked"}

\* A step that gives one actor its next record and lets the ledger grow leaves what
\* the others know.
LEMMA OthersKnow ==
    ASSUME TypeOK, \A k \in Actors : Knows(k), Grows,
           NEW i \in Actors, NEW r \in Job, job' = [job EXCEPT ![i] = r], Knows(i)'
    PROVE  job' \in [Actors -> Job] /\ \A k \in Actors : Knows(k)'
<1>1. job \in [Actors -> Job]
  BY DEF TypeOK
<1>2. job' \in [Actors -> Job]
  BY <1>1
<1>3. ASSUME NEW k \in Actors, k # i  PROVE Knows(k)'
  <2>1. job'[k] = job[k] /\ job[k].lease \in Leases
    BY <1>1, <1>3 DEF Job
  <2>2. Knows(k)
    OBVIOUS
  <2> QED BY <2>1, <2>2 DEF Knows, Grows
<1> QED BY <1>2, <1>3

\* A step that leaves every delivery where it stands leaves what the actors know.
LEMMA AllKnow ==
    ASSUME TypeOK, \A k \in Actors : Knows(k), Grows, job' = job
    PROVE  \A k \in Actors : Knows(k)'
<1> SUFFICES ASSUME NEW k \in Actors PROVE Knows(k)'
  OBVIOUS
<1>1. job'[k] = job[k] /\ job[k].lease \in Leases /\ Knows(k)
  BY DEF TypeOK, Job
<1> QED BY <1>1 DEF Knows, Grows

\* A hold ended earlier keeps its reason, and one ended now has one.
LEMMA EndedKeeps ==
    ASSUME TypeOK, EndedFor, Grows, NEW l \in Leases, NEW outcome, Reason(l, outcome),
           ended' = ended \/ (outcome \in Loses /\ ended' = ended \cup {l})
    PROVE  EndedFor' /\ ended' \subseteq Leases
<1>1. ended' \subseteq ended \cup {l} /\ ended \subseteq Leases
  BY DEF TypeOK
<1>2. ASSUME NEW k \in ended', k \notin direct' \cup shaped'
      PROVE  daemon'[k] = "overtaken" \/ case'[k].daemon = "refuses"
  <2>1. CASE k \in ended
    <3>1. daemon[k] = "overtaken" \/ case[k].daemon = "refuses"
      BY <1>2, <2>1 DEF EndedFor, Grows
    <3> QED BY <1>1, <2>1, <3>1 DEF Grows
  <2>2. CASE k \notin ended
    <3>1. k = l /\ outcome \in Loses
      BY <1>1, <1>2, <2>2
    <3> QED BY <1>2, <3>1 DEF Reason, Loses
  <2> QED BY <2>1, <2>2
<1> QED BY <1>1, <1>2 DEF EndedFor

-----------------------------------------------------------------------------
(* The end of a delivery, and the decision after an answer. *)

LEMMA ConcludeKeeps ==
    ASSUME TypeOK, \A k \in Actors : Knows(k), EndedFor, Grows,
           NEW i \in Actors, NEW outcome, Conclude(i, outcome), Reason(job[i].lease, outcome)
    PROVE  /\ job' \in [Actors -> Job] /\ \A k \in Actors : Knows(k)'
           /\ EndedFor' /\ ended' \subseteq Leases
           /\ halted' \in {"no", "leasing", "serving"}
           /\ queue' \subseteq [lease : Leases, bytes : Shapes]
<1> DEFINE l == job[i].lease
           a == IF i = Drain THEN "idle" ELSE "done"
           r == [Idle(l) EXCEPT !.at = a]
<1>0. job \in [Actors -> Job] /\ l \in Leases
  BY DEF TypeOK, Job
<1>1. r \in Job /\ r.again = FALSE /\ r.at = a
  BY <1>0 DEF Idle, Job, Shapes
<1>3. job' = [job EXCEPT ![i] = r]
  BY <1>0 DEF Conclude
<1>4. job'[i] = r
  BY <1>0, <1>3
<1>5. Knows(i)'
  BY <1>1, <1>4 DEF Knows
<1>6. job' \in [Actors -> Job] /\ \A k \in Actors : Knows(k)'
  BY <1>1, <1>3, <1>5, OthersKnow
<1>7. ended' = ended \/ (outcome \in Loses /\ ended' = ended \cup {l})
  BY DEF Conclude
<1>8. Reason(l, outcome)
  OBVIOUS
<1>9. EndedFor' /\ ended' \subseteq Leases
  BY <1>0, <1>7, <1>8, EndedKeeps, Zenon
<1>10. /\ halted' \in {"no", "leasing", "serving"}
       /\ queue' \subseteq [lease : Leases, bytes : Shapes]
  BY DEF Conclude, TypeOK
<1> QED BY <1>6, <1>9, <1>10

\* A decision gives its actor a place it knows enough for.
LEMMA DecideKeeps ==
    ASSUME TypeOK, \A k \in Actors : Knows(k), EndedFor, Grows,
           NEW i \in Actors, NEW outcome \in Outcomes, Decide(i, outcome),
           Reason(job[i].lease, outcome)
    PROVE  /\ job' \in [Actors -> Job] /\ \A k \in Actors : Knows(k)'
           /\ EndedFor' /\ ended' \subseteq Leases
           /\ halted' \in {"no", "leasing", "serving"}
           /\ queue' \subseteq [lease : Leases, bytes : Shapes]
<1> DEFINE l == job[i].lease
<1>0. job \in [Actors -> Job] /\ job[i] \in Job /\ l \in Leases /\ Knows(i)
  BY DEF TypeOK, Job
<1>1. CASE outcome = "shape" /\ job[i].bytes = "full"
  <2> DEFINE r == [job[i] EXCEPT !.bytes = "plain", !.again = TRUE, !.at = "hold"]
  <2>1. job' = [job EXCEPT ![i] = r] /\ UNCHANGED <<ended, halted, queue>>
    BY <1>0, <1>1 DEF Decide
  <2>2. r \in Job /\ r.at = "hold" /\ r.again /\ r.lease = l
    BY <1>0 DEF Job, Shapes
  <2>3. job'[i] = r /\ l \in shaped'
    BY <1>0, <1>1, <2>1 DEF Reason
  <2>4. Knows(i)'
    BY <2>2, <2>3 DEF Knows
  <2>5. job' \in [Actors -> Job] /\ \A k \in Actors : Knows(k)'
    BY <2>1, <2>2, <2>4, OthersKnow
  <2>6. EndedFor' /\ ended' \subseteq Leases
    BY <1>0, <2>1, EndedKeeps, Zenon
  <2> QED BY <2>1, <2>5, <2>6 DEF TypeOK
<1>2. CASE ~(outcome = "shape" /\ job[i].bytes = "full") /\ job[i].again
  <2> DEFINE r == [job[i] EXCEPT !.at = "forget", !.answer = outcome]
  <2>1. job' = [job EXCEPT ![i] = r] /\ UNCHANGED <<ended, halted, queue>>
    BY <1>0, <1>2 DEF Decide
  <2>2. r \in Job /\ r.at = "forget" /\ r.again = job[i].again /\ r.lease = l
    BY <1>0 DEF Job, Outcomes
  <2>3. job'[i] = r /\ l \in shaped'
    BY <1>0, <1>2, <2>1 DEF Knows, Grows
  <2>4. Knows(i)'
    BY <1>2, <2>2, <2>3 DEF Knows
  <2>5. job' \in [Actors -> Job] /\ \A k \in Actors : Knows(k)'
    BY <2>1, <2>2, <2>4, OthersKnow
  <2>6. EndedFor' /\ ended' \subseteq Leases
    BY <1>0, <2>1, EndedKeeps, Zenon
  <2> QED BY <2>1, <2>5, <2>6 DEF TypeOK
<1>3. CASE ~(outcome = "shape" /\ job[i].bytes = "full") /\ ~job[i].again
  <2>1. Conclude(i, outcome)
    BY <1>3 DEF Decide
  <2> QED BY <2>1, ConcludeKeeps
<1> QED BY <1>1, <1>2, <1>3

-----------------------------------------------------------------------------
(* One lemma per action. *)

LEMMA EndRunKeeps ==
    ASSUME IInv, NEW i \in Leases, EndRun(i)
    PROVE  IInv'
<1> DEFINE r == [job[i] EXCEPT !.at = "hold"]
<1>0. /\ TypeOK /\ \A k \in Actors : Knows(k)
      /\ i \in Actors /\ job \in [Actors -> Job] /\ job[i] \in Job
  BY DEF IInv, TypeOK, Actors
<1>1. job' = [job EXCEPT ![i] = r] /\ Grows
  BY <1>0 DEF EndRun, Goes, Grows
<1>2. r \in Job /\ r.at = "hold" /\ r.again = job[i].again /\ r.lease = job[i].lease
  BY <1>0 DEF Job
<1>3. job'[i] = r /\ i # Drain
  BY <1>0, <1>1, SpoolAssumption
<1>4. Knows(i)'
  BY <1>0, <1>1, <1>2, <1>3 DEF Knows, Grows
<1>5. job' \in [Actors -> Job] /\ \A k \in Actors : Knows(k)'
  BY <1>0, <1>1, <1>2, <1>4, OthersKnow
<1>6. TypeOK'
  BY <1>5 DEF IInv, TypeOK, EndRun, diskVars
<1>7. Unread' /\ EndedFor' /\ WaitsOnDisk'
  BY DEF IInv, EndRun, diskVars, Unread, EndedFor, WaitsOnDisk, OnDisk
<1> QED BY <1>5, <1>6, <1>7 DEF IInv

\* The spool takes the report, or the disk fails.
LEMMA HoldKeeps ==
    ASSUME IInv, NEW i \in Actors, Hold(i)
    PROVE  IInv'
<1> DEFINE l == job[i].lease
<1>0. /\ TypeOK /\ \A k \in Actors : Knows(k)
      /\ job \in [Actors -> Job] /\ job[i] \in Job /\ Knows(i)
      /\ l \in Leases /\ job[i].bytes \in Shapes /\ job[i].at = "hold"
  BY DEF IInv, TypeOK, Job, Hold, At
<1>1. Grows /\ UNCHANGED <<case, aside, daemon, old, shaped>>
  BY DEF Hold, Conclude, Grows
<1>2. /\ file' \in [Leases -> Shapes \cup {"none"}] /\ held' \subseteq Leases
      /\ \A k \in Leases : file[k] # "none" => file'[k] # "none"
      /\ \A k \in held' : k \in held \/ file'[k] # "none"
      /\ faults' \in 0..MaxFaults
  BY <1>0, SpoolAssumption DEF TypeOK, Hold, Fault, Fine, Shapes
<1>3. /\ job' \in [Actors -> Job] /\ \A k \in Actors : Knows(k)'
      /\ EndedFor' /\ ended' \subseteq Leases /\ direct' \subseteq Leases
      /\ halted' \in {"no", "leasing", "serving"}
      /\ queue' \subseteq [lease : Leases, bytes : Shapes]
  <2>1. CASE Goes(i, "post") /\ UNCHANGED <<ended, halted, queue, direct>>
    <3> DEFINE r == [job[i] EXCEPT !.at = "post"]
    <3>1. job' = [job EXCEPT ![i] = r]
      BY <1>0, <2>1 DEF Goes
    <3>2. r \in Job /\ r.at = "post" /\ r.again = job[i].again /\ r.lease = l
      BY <1>0 DEF Job
    <3>3. job'[i] = r
      BY <1>0, <3>1
    <3>4. Knows(i)'
      BY <1>0, <1>1, <3>2, <3>3 DEF Knows, Grows
    <3>5. job' \in [Actors -> Job] /\ \A k \in Actors : Knows(k)'
      BY <1>0, <1>1, <3>1, <3>2, <3>4, OthersKnow
    <3>6. EndedFor'
      BY <1>1, <2>1 DEF IInv, EndedFor
    <3> QED BY <1>0, <2>1, <3>5, <3>6 DEF TypeOK
  <2>2. CASE i = Drain /\ Conclude(i, "shape") /\ UNCHANGED direct
    <3>1. Reason(l, "shape")
      BY <1>0, <1>1, <2>2 DEF Knows, Reason
    <3>2. EndedFor
      BY DEF IInv
    <3> QED BY <1>0, <1>1, <2>2, <3>1, <3>2, ConcludeKeeps DEF TypeOK
  <2>3. CASE /\ i # Drain /\ Goes(i, "direct") /\ direct' = direct \cup {l}
             /\ halted' = (IF halted = "no" THEN "leasing" ELSE halted)
             /\ UNCHANGED <<ended, queue>>
    <3> DEFINE r == [job[i] EXCEPT !.at = "direct"]
    <3>1. job' = [job EXCEPT ![i] = r]
      BY <1>0, <2>3 DEF Goes
    <3>2. r \in Job /\ r.at = "direct" /\ r.again = job[i].again /\ r.lease = l
      BY <1>0 DEF Job
    <3>3. job'[i] = r
      BY <1>0, <3>1
    <3>4. Knows(i)'
      BY <1>0, <1>1, <2>3, <3>2, <3>3 DEF Knows, Grows
    <3>5. job' \in [Actors -> Job] /\ \A k \in Actors : Knows(k)'
      BY <1>0, <1>1, <3>1, <3>2, <3>4, OthersKnow
    <3>6. EndedFor'
      BY <1>1, <2>3 DEF IInv, EndedFor
    <3> QED BY <1>0, <2>3, <3>5, <3>6 DEF TypeOK
  <2> QED BY <2>1, <2>2, <2>3 DEF Hold
<1>4. TypeOK'
  BY <1>0, <1>1, <1>2, <1>3 DEF TypeOK
<1>5. Unread' /\ WaitsOnDisk'
  BY <1>0, <1>1, <1>2 DEF IInv, Unread, WaitsOnDisk, OnDisk, TypeOK
<1> QED BY <1>3, <1>4, <1>5 DEF IInv

\* What the daemon answers is so, and stays so.
LEMMA AnswerHolds ==
    ASSUME TypeOK, Unread, NEW i \in Actors, NEW answer \in Answers, Answered(i, answer),
           UNCHANGED case, direct \subseteq direct'
    PROVE  /\ Grows /\ Unread'
           /\ daemon' \in [Leases -> {"open", "recorded", "overtaken"}]
           /\ shaped' \subseteq Leases /\ faults' \in 0..MaxFaults
           /\ answer = "settled" => daemon'[job[i].lease] = "recorded"
           /\ answer = "superseded" => daemon'[job[i].lease] = "overtaken"
           /\ answer = "shape" => job[i].lease \in shaped'
           /\ answer = "refused" => case[job[i].lease].daemon = "refuses"
<1> DEFINE l == job[i].lease
<1>0. l \in Leases /\ daemon \in [Leases -> {"open", "recorded", "overtaken"}]
  BY DEF TypeOK, Job
<1>1. shaped \subseteq shaped' /\ shaped' \subseteq Leases /\ (answer = "shape" => l \in shaped')
  BY <1>0 DEF Answered, TypeOK
<1>2. faults' \in 0..MaxFaults
  BY SpoolAssumption DEF Answered, Fault, Fine, TypeOK
<1>3. CASE /\ case[l].daemon = "reads" /\ daemon[l] # "overtaken"
           /\ daemon' = [daemon EXCEPT ![l] = "recorded"] /\ answer \in {"settled", "kept"}
  <2>1. daemon' \in [Leases -> {"open", "recorded", "overtaken"}] /\ daemon'[l] = "recorded"
    BY <1>0, <1>3
  <2>2. \A k \in Leases : daemon[k] # "open" => daemon'[k] = daemon[k]
    BY <1>0, <1>3
  <2>3. Unread'
    BY <1>0, <1>3 DEF Unread
  <2> QED BY <1>1, <1>2, <1>3, <2>1, <2>2, <2>3 DEF Grows
<1>4. CASE /\ UNCHANGED daemon /\ answer # "settled"
           /\ answer = "superseded" => daemon[l] = "overtaken"
           /\ answer = "refused" => case[l].daemon = "refuses"
  <2>1. Grows /\ Unread'
    BY <1>1, <1>4 DEF Grows, Unread
  <2> QED BY <1>0, <1>1, <1>2, <1>4, <2>1
<1> QED BY <1>3, <1>4 DEF Answered, Refusals

LEMMA PostKeeps ==
    ASSUME IInv, NEW i \in Actors, Post(i)
    PROVE  IInv'
<1>0. /\ TypeOK /\ Unread /\ \A k \in Actors : Knows(k)
      /\ job \in [Actors -> Job] /\ job[i] \in Job /\ Knows(i)
  BY DEF IInv, TypeOK
<1>1. PICK answer \in Answers :
          /\ Answered(i, answer)
          /\ job' = [job EXCEPT ![i] = [@ EXCEPT !.at = "apply", !.answer = answer]]
  BY DEF Post
<1>2. UNCHANGED <<case, file, aside, held, old, queue, halted, ended, direct>>
  BY DEF Post, diskVars
<1> DEFINE r == [job[i] EXCEPT !.at = "apply", !.answer = answer]
<1>3. /\ Grows /\ Unread'
      /\ daemon' \in [Leases -> {"open", "recorded", "overtaken"}]
      /\ shaped' \subseteq Leases /\ faults' \in 0..MaxFaults
      /\ answer = "settled" => daemon'[job[i].lease] = "recorded"
      /\ answer = "superseded" => daemon'[job[i].lease] = "overtaken"
      /\ answer = "shape" => job[i].lease \in shaped'
      /\ answer = "refused" => case[job[i].lease].daemon = "refuses"
  <2>1. UNCHANGED case /\ direct \subseteq direct'
    BY <1>2
  <2> QED BY <1>0, <1>1, <2>1, AnswerHolds, Zenon
<1>4. job' = [job EXCEPT ![i] = r]
  BY <1>0, <1>1
<1>5. /\ r \in Job /\ r.at = "apply" /\ r.answer = answer
      /\ r.again = job[i].again /\ r.lease = job[i].lease
  BY <1>0 DEF Job
<1>6. job'[i] = r
  BY <1>0, <1>4
<1>7. Knows(i)'
  BY <1>0, <1>2, <1>3, <1>5, <1>6 DEF Knows, Grows
<1>8. job' \in [Actors -> Job] /\ \A k \in Actors : Knows(k)'
  BY <1>0, <1>3, <1>4, <1>5, <1>7, OthersKnow
<1>9. TypeOK'
  BY <1>0, <1>2, <1>3, <1>8 DEF TypeOK
<1>10. EndedFor' /\ WaitsOnDisk'
  BY <1>0, <1>2, <1>3 DEF IInv, TypeOK, Grows, EndedFor, WaitsOnDisk, OnDisk
<1> QED BY <1>3, <1>8, <1>9, <1>10 DEF IInv

\* The entry leaves the disk only for an answer that settled its lease.
LEMMA ApplyKeeps ==
    ASSUME IInv, NEW i \in Actors, Apply(i)
    PROVE  IInv'
<1> DEFINE l == job[i].lease
           answer == job[i].answer
<1>0. /\ TypeOK /\ Unread /\ EndedFor /\ WaitsOnDisk /\ \A k \in Actors : Knows(k)
      /\ job[i] \in Job /\ Knows(i) /\ l \in Leases /\ job[i].at = "apply"
  BY DEF IInv, TypeOK, Job, Apply, At
<1>1. UNCHANGED <<case, held, daemon, old, direct, shaped>> /\ Grows
  BY DEF Apply, Grows
<1>2. \/ answer \in Answers /\ Decide(i, answer)
      \/ Decide(i, "failed")
  BY DEF Apply, Answers, Removes, SetsAside, Stays
<1>3. /\ job' \in [Actors -> Job] /\ \A k \in Actors : Knows(k)'
      /\ EndedFor' /\ ended' \subseteq Leases
      /\ halted' \in {"no", "leasing", "serving"}
      /\ queue' \subseteq [lease : Leases, bytes : Shapes]
  <2>1. CASE answer \in Answers /\ Decide(i, answer)
    <3>1. Reason(l, answer)
      BY <1>0, <1>1, <2>1 DEF Knows, Reason, Answers
    <3> QED BY <1>0, <1>1, <2>1, <3>1, DecideKeeps DEF Outcomes
  <2>2. CASE Decide(i, "failed")
    <3>1. Reason(l, "failed")
      BY DEF Reason
    <3> QED BY <1>0, <1>1, <2>2, <3>1, DecideKeeps DEF Outcomes
  <2> QED BY <1>2, <2>1, <2>2
<1>4. /\ file' \in [Leases -> Shapes \cup {"none"}] /\ aside' \in [Leases -> Shapes \cup {"none"}]
      /\ faults' \in 0..MaxFaults
  BY <1>0, SpoolAssumption DEF Apply, TypeOK, Fault, Fine
<1>5. \A k \in Leases : OnDisk(k) => OnDisk(k)' \/ (k = l /\ daemon[k] # "open")
  <2> SUFFICES ASSUME NEW k \in Leases, OnDisk(k)
               PROVE  OnDisk(k)' \/ (k = l /\ daemon[k] # "open")
    OBVIOUS
  <2>1. CASE answer \in Removes /\ file' = [file EXCEPT ![l] = "none"] /\ UNCHANGED aside
    BY <1>0, <2>1 DEF Removes, Knows, OnDisk, TypeOK
  <2>2. CASE /\ file[l] # "none" /\ file' = [file EXCEPT ![l] = "none"]
             /\ aside' = [aside EXCEPT ![l] = file[l]]
    BY <1>0, <2>2 DEF OnDisk, TypeOK
  <2>3. CASE UNCHANGED <<file, aside>>
    BY <2>3 DEF OnDisk
  <2> QED BY <2>1, <2>2, <2>3 DEF Apply
<1>6. TypeOK'
  BY <1>0, <1>1, <1>3, <1>4 DEF TypeOK
<1>7. Unread' /\ WaitsOnDisk'
  <2>1. Unread'
    BY <1>0, <1>1 DEF Unread
  <2>2. held \subseteq Leases
    BY <1>0 DEF TypeOK
  <2>3. WaitsOnDisk'
    BY <1>0, <1>1, <1>5, <2>2 DEF WaitsOnDisk
  <2> QED BY <2>1, <2>3
<1> QED BY <1>3, <1>6, <1>7 DEF IInv

\* The refused copy goes only when its shape was refused.
LEMMA ForgetKeeps ==
    ASSUME IInv, NEW i \in Actors, Forget(i)
    PROVE  IInv'
<1> DEFINE l == job[i].lease
<1>0. /\ TypeOK /\ Unread /\ EndedFor /\ WaitsOnDisk /\ \A k \in Actors : Knows(k)
      /\ job[i] \in Job /\ Knows(i) /\ l \in Leases /\ l \in shaped
  BY DEF IInv, TypeOK, Job, Forget, At, Knows
<1>1. /\ UNCHANGED <<case, file, held, daemon, old, direct, shaped>> /\ Grows
      /\ Conclude(i, job[i].answer)
  BY DEF Forget, Grows
<1>2. /\ job' \in [Actors -> Job] /\ \A k \in Actors : Knows(k)'
      /\ ended' \subseteq ended \cup {l}
      /\ halted' \in {"no", "leasing", "serving"}
      /\ queue' \subseteq [lease : Leases, bytes : Shapes]
  <2> DEFINE a == IF i = Drain THEN "idle" ELSE "done"
             r == [Idle(l) EXCEPT !.at = a]
  <2>1. r \in Job /\ r.again = FALSE /\ r.at = a
    BY <1>0 DEF Idle, Job, Shapes
  <2>2. job' = [job EXCEPT ![i] = r]
    BY <1>0, <1>1 DEF Conclude, TypeOK
  <2>3. job'[i] = r
    BY <1>0, <2>2 DEF TypeOK
  <2>4. Knows(i)'
    BY <2>1, <2>3 DEF Knows
  <2>5. job' \in [Actors -> Job] /\ \A k \in Actors : Knows(k)'
    BY <1>0, <1>1, <2>1, <2>2, <2>4, OthersKnow
  <2> QED BY <1>0, <1>1, <2>5 DEF Conclude, TypeOK
<1>3. aside' \in [Leases -> Shapes \cup {"none"}] /\ faults' \in 0..MaxFaults
  BY <1>0, SpoolAssumption DEF Forget, TypeOK, Fault, Fine
<1>4. \A k \in Leases : k # l => aside'[k] = aside[k]
  BY <1>0 DEF Forget, TypeOK
<1>5. TypeOK'
  BY <1>0, <1>1, <1>2, <1>3 DEF TypeOK
<1>6. Unread' /\ EndedFor' /\ WaitsOnDisk'
  BY <1>0, <1>1, <1>2, <1>4 DEF TypeOK, Unread, EndedFor, WaitsOnDisk, OnDisk
<1> QED BY <1>2, <1>5, <1>6 DEF IInv

\* A report posted from memory counts as one no file backed.
LEMMA DirectKeeps ==
    ASSUME IInv, NEW i \in Leases, Direct(i)
    PROVE  IInv'
<1> DEFINE l == job[i].lease
<1>0. /\ TypeOK /\ Unread /\ EndedFor /\ WaitsOnDisk /\ \A k \in Actors : Knows(k)
      /\ i \in Actors /\ job[i] \in Job /\ Knows(i) /\ l \in Leases /\ l \in direct
  BY DEF IInv, TypeOK, Job, Direct, At, Knows, Actors
<1>1. UNCHANGED <<case, file, aside, held, old, direct>>
  BY DEF Direct, diskVars
<1>2. PICK answer \in Answers :
          /\ Answered(i, answer)
          /\ Decide(i, CASE answer \in {"kept", "superseded", "refused"} -> "lost"
                         [] answer = "unauthorized" -> "revoked"
                         [] OTHER -> answer)
  BY DEF Direct
<1>3. /\ Grows /\ Unread'
      /\ daemon' \in [Leases -> {"open", "recorded", "overtaken"}]
      /\ shaped' \subseteq Leases /\ faults' \in 0..MaxFaults
      /\ answer = "shape" => l \in shaped'
  <2>1. UNCHANGED case /\ direct \subseteq direct'
    BY <1>1
  <2> QED BY <1>0, <1>2, <2>1, AnswerHolds, Zenon
<1>4. PICK outcome \in {"settled", "shape", "lost", "revoked"} :
          /\ Decide(i, outcome)
          /\ outcome = "shape" => answer = "shape"
  <2>1. CASE answer \in {"kept", "superseded", "refused"}
    BY <1>2, <2>1
  <2>2. CASE answer = "unauthorized"
    BY <1>2, <2>2
  <2>3. CASE answer = "settled"
    BY <1>2, <2>3
  <2>4. CASE answer = "shape"
    BY <1>2, <2>4
  <2> QED BY <2>1, <2>2, <2>3, <2>4 DEF Answers
<1>5. Reason(l, outcome)
  BY <1>0, <1>1, <1>3, <1>4 DEF Reason
<1>6. outcome \in Outcomes
  BY DEF Outcomes, Answers
<1>7. /\ job' \in [Actors -> Job] /\ \A k \in Actors : Knows(k)'
      /\ EndedFor' /\ ended' \subseteq Leases
      /\ halted' \in {"no", "leasing", "serving"}
      /\ queue' \subseteq [lease : Leases, bytes : Shapes]
  BY <1>0, <1>3, <1>4, <1>5, <1>6, DecideKeeps
<1>8. TypeOK'
  BY <1>0, <1>1, <1>3, <1>7 DEF TypeOK
<1>9. WaitsOnDisk'
  BY <1>0, <1>1, <1>3 DEF TypeOK, Grows, WaitsOnDisk, OnDisk
<1> QED BY <1>3, <1>7, <1>8, <1>9 DEF IInv

LEMMA PassKeeps ==
    ASSUME IInv, Pass
    PROVE  IInv'
<1>0. TypeOK /\ \A k \in Actors : Knows(k)
  BY DEF IInv
<1>1. UNCHANGED <<case, file, aside, held, daemon, old, job, halted, ended, direct, shaped, faults>>
  BY DEF Pass, diskVars
<1>2. queue' \subseteq [lease : Leases, bytes : Shapes]
  BY <1>0 DEF Pass, TypeOK
<1>3. \A k \in Actors : Knows(k)'
  BY <1>0, <1>1, AllKnow DEF Grows
<1>4. TypeOK'
  BY <1>0, <1>1, <1>2 DEF TypeOK
<1>5. Unread' /\ EndedFor' /\ WaitsOnDisk'
  BY <1>1 DEF IInv, Unread, EndedFor, WaitsOnDisk, OnDisk
<1> QED BY <1>3, <1>4, <1>5 DEF IInv

LEMMA TakeKeeps ==
    ASSUME IInv, Take
    PROVE  IInv'
<1>0. TypeOK /\ job \in [Actors -> Job] /\ \A k \in Actors : Knows(k)
  BY DEF IInv, TypeOK
<1>1. UNCHANGED <<case, file, aside, held, daemon, old, halted, ended, direct, shaped, faults>>
  BY DEF Take, diskVars
<1>2. PICK entry \in queue :
          /\ queue' = queue \ {entry}
          /\ job' = [job EXCEPT ![Drain] = [Idle(entry.lease) EXCEPT !.bytes = entry.bytes, !.at = "post"]]
  BY DEF Take
<1>3. Drain \in Actors /\ entry.lease \in Leases /\ entry.bytes \in Shapes /\ Grows
  BY <1>0, <1>1 DEF TypeOK, Actors, Grows
<1> DEFINE r == [Idle(entry.lease) EXCEPT !.bytes = entry.bytes, !.at = "post"]
<1>4. r \in Job /\ r.at = "post" /\ r.again = FALSE
  BY <1>3 DEF Idle, Job, Shapes
<1>5. job'[Drain] = r
  BY <1>0, <1>2, <1>3
<1>6. Knows(Drain)'
  BY <1>4, <1>5 DEF Knows
<1>7. job' \in [Actors -> Job] /\ \A k \in Actors : Knows(k)'
  BY <1>0, <1>2, <1>3, <1>4, <1>6, OthersKnow
<1>8. TypeOK'
  BY <1>0, <1>1, <1>2, <1>7 DEF TypeOK
<1>9. Unread' /\ EndedFor' /\ WaitsOnDisk'
  BY <1>1 DEF IInv, Unread, EndedFor, WaitsOnDisk, OnDisk
<1> QED BY <1>7, <1>8, <1>9 DEF IInv

LEMMA OvertakeKeeps ==
    ASSUME IInv, NEW l \in Leases, Overtake(l)
    PROVE  IInv'
<1>0. TypeOK /\ \A k \in Actors : Knows(k)
  BY DEF IInv
<1>1. UNCHANGED <<case, file, aside, held, old, job, queue, halted, ended, direct, shaped, faults>>
  BY DEF Overtake, diskVars
<1>2. /\ daemon' \in [Leases -> {"open", "recorded", "overtaken"}]
      /\ \A k \in Leases : daemon[k] # "open" => daemon'[k] = daemon[k]
      /\ \A k \in Leases : daemon'[k] = "recorded" => daemon[k] = "recorded"
  BY <1>0 DEF Overtake, TypeOK
<1>3. Grows
  BY <1>1, <1>2 DEF Grows
<1>4. \A k \in Actors : Knows(k)'
  BY <1>0, <1>1, <1>3, AllKnow
<1>5. TypeOK'
  BY <1>0, <1>1, <1>2 DEF TypeOK
<1>6. Unread' /\ EndedFor' /\ WaitsOnDisk'
  BY <1>0, <1>1, <1>2 DEF IInv, TypeOK, Unread, EndedFor, WaitsOnDisk, OnDisk
<1> QED BY <1>4, <1>5, <1>6 DEF IInv

LEMMA DeployKeeps ==
    ASSUME IInv, Deploy
    PROVE  IInv'
<1>0. TypeOK /\ \A k \in Actors : Knows(k)
  BY DEF IInv
<1>1. /\ UNCHANGED <<case, file, aside, held, daemon, job, queue, halted, ended, direct, shaped>>
      /\ old' \in BOOLEAN
  BY <1>0 DEF Deploy, diskVars, TypeOK
<1>2. faults' \in 0..MaxFaults
  BY <1>0, SpoolAssumption DEF Deploy, Fault, TypeOK
<1>3. \A k \in Actors : Knows(k)'
  BY <1>0, <1>1, AllKnow DEF Grows
<1>4. TypeOK'
  BY <1>0, <1>1, <1>2 DEF TypeOK
<1>5. Unread' /\ EndedFor' /\ WaitsOnDisk'
  BY <1>1 DEF IInv, Unread, EndedFor, WaitsOnDisk, OnDisk
<1> QED BY <1>3, <1>4, <1>5 DEF IInv

\* After a restart nobody knows anything, and the disk is what it was.
LEMMA RestartKeeps ==
    ASSUME IInv, Restart
    PROVE  IInv'
<1>0. TypeOK /\ job \in [Actors -> Job]
  BY DEF IInv, TypeOK
<1>1. /\ UNCHANGED <<case, file, aside, held, daemon, old, ended, direct, shaped>>
      /\ queue' = {} /\ halted' = "no"
  BY DEF Restart, diskVars
<1>2. faults' \in 0..MaxFaults
  BY <1>0, SpoolAssumption DEF Restart, Fault, TypeOK
<1>3. ASSUME NEW k \in Actors
      PROVE  job'[k] \in Job /\ job'[k].again = FALSE /\ job'[k].at \in {"idle", "done"}
  <2> DEFINE r == [Idle(job[k].lease) EXCEPT !.at = IF k = Drain THEN "idle" ELSE "done"]
  <2>1. job'[k] = r
    BY DEF Restart
  <2>2. job[k].lease \in Leases
    BY <1>0 DEF Job
  <2>3. r \in Job /\ r.again = FALSE /\ r.at \in {"idle", "done"}
    BY <2>2 DEF Idle, Job, Shapes
  <2> QED BY <2>1, <2>3
<1>4. job' \in [Actors -> Job]
  BY <1>3 DEF Restart
<1>5. \A k \in Actors : Knows(k)'
  BY <1>3 DEF Knows
<1>6. TypeOK'
  BY <1>0, <1>1, <1>2, <1>4 DEF TypeOK
<1>7. Unread' /\ EndedFor' /\ WaitsOnDisk'
  BY <1>1 DEF IInv, Unread, EndedFor, WaitsOnDisk, OnDisk
<1> QED BY <1>5, <1>6, <1>7 DEF IInv

-----------------------------------------------------------------------------
(* The theorems. *)

LEMMA InitHolds == Init => IInv
<1> SUFFICES ASSUME Init PROVE IInv
  OBVIOUS
<1> DEFINE spot == CHOOSE l \in Leases : TRUE
<1>1. spot \in Leases
  BY SpoolAssumption
<1>2. ASSUME NEW k \in Actors
      PROVE  job[k] \in Job /\ job[k].again = FALSE /\ job[k].at \in {"idle", "run"}
  <2>1. CASE k = Drain
    <3>1. job[k] = Idle(spot)
      BY <2>1 DEF Init
    <3>2. Idle(spot) \in Job /\ Idle(spot).again = FALSE /\ Idle(spot).at = "idle"
      BY <1>1 DEF Idle, Job, Shapes
    <3> QED BY <3>1, <3>2
  <2>2. CASE k # Drain
    <3> DEFINE r == [Idle(k) EXCEPT !.at = "run", !.bytes = IF case[k].onePost THEN "full" ELSE "plain"]
    <3>1. job[k] = r
      BY <2>2 DEF Init
    <3>2. k \in Leases
      BY <2>2 DEF Actors
    <3>3. r \in Job /\ r.again = FALSE /\ r.at = "run"
      BY <3>2 DEF Idle, Job, Shapes
    <3> QED BY <3>1, <3>3
  <2> QED BY <2>1, <2>2
<1>3. job \in [Actors -> Job]
  BY <1>2 DEF Init
<1>4. \A k \in Actors : Knows(k)
  BY <1>2 DEF Knows
<1>5. TypeOK
  <2>1. /\ case \in Cases /\ old \in BOOLEAN /\ queue = {} /\ halted = "no"
        /\ held = {} /\ ended = {} /\ direct = {} /\ shaped = {} /\ faults = 0
    BY DEF Init
  <2>2. /\ file = [l \in Leases |-> "none"] /\ aside = [l \in Leases |-> "none"]
        /\ daemon = [l \in Leases |-> "open"]
    BY Zenon DEF Init
  <2> QED BY <1>3, <2>1, <2>2, SpoolAssumption DEF TypeOK, Shapes
<1>6. Unread /\ EndedFor /\ WaitsOnDisk
  BY DEF Init, Unread, EndedFor, WaitsOnDisk
<1> QED BY <1>4, <1>5, <1>6 DEF IInv

LEMMA StepHolds == IInv /\ [Next]_vars => IInv'
<1> SUFFICES ASSUME IInv, [Next]_vars PROVE IInv'
  OBVIOUS
<1>1. ASSUME NEW i \in Actors, Deliver(i)  PROVE IInv'
  BY <1>1, HoldKeeps, PostKeeps, ApplyKeeps, ForgetKeeps DEF Deliver
<1>2. ASSUME NEW l \in Leases, Settle(l)  PROVE IInv'
  <2>1. l \in Actors
    BY DEF Actors
  <2> QED BY <1>1, <1>2, <2>1, EndRunKeeps, DirectKeeps DEF Settle
<1>3. CASE DrainStep
  <2>1. Drain \in Actors
    BY DEF Actors
  <2> QED BY <1>1, <1>3, <2>1, PassKeeps, TakeKeeps DEF DrainStep
<1>4. ASSUME NEW l \in Leases, Overtake(l)  PROVE IInv'
  BY <1>4, OvertakeKeeps
<1>5. CASE Deploy
  BY <1>5, DeployKeeps
<1>6. CASE Restart
  BY <1>6, RestartKeeps
<1>7. CASE UNCHANGED vars
  <2>1. UNCHANGED <<case, file, aside, held, daemon, old, job, queue, halted, ended, direct, shaped, faults>>
    BY <1>7 DEF vars, diskVars
  <2>2. \A k \in Actors : Knows(k)'
    BY <2>1, AllKnow DEF IInv, Grows
  <2>3. TypeOK' /\ Unread' /\ EndedFor' /\ WaitsOnDisk'
    BY <2>1 DEF IInv, TypeOK, Unread, EndedFor, WaitsOnDisk, OnDisk
  <2> QED BY <2>2, <2>3 DEF IInv
<1> QED BY <1>2, <1>3, <1>4, <1>5, <1>6, <1>7 DEF Next

\* What the actors know is inductive: an answer, once given, stays true.
THEOREM Inductive == Spec => []IInv
<1>1. Init => IInv
  BY InitHolds
<1>2. IInv /\ [Next]_vars => IInv'
  BY StepHolds
<1> QED BY <1>1, <1>2, PTL DEF Spec

\* Every variable keeps its type, for every number of leases and faults.
THEOREM TypeCorrect == Spec => []TypeOK
<1>1. IInv => TypeOK
  BY DEF IInv
<1> QED BY <1>1, Inductive, PTL

\* Whatever answers are lost, whichever of worker and drain delivers, and wherever the
\* process dies, a report of ReportSpool::hold whose shape was not refused is on disk,
\* waiting or aside, until the daemon settled its lease.
THEOREM NoReportLost == Spec => []WaitsOnDisk
<1>1. IInv => WaitsOnDisk
  BY DEF IInv
<1> QED BY <1>1, Inductive, PTL

\* A hold is ended, but for a report no file backed or one refused for its shape, only
\* when the daemon never recorded the run: the sandbox is not lost to an answer that was.
THEOREM HoldsEndUnrecorded == Spec => []EndsUnrecorded
<1>1. IInv => EndsUnrecorded
  BY DEF IInv, TypeOK, Unread, EndedFor, EndsUnrecorded
<1> QED BY <1>1, Inductive, PTL

=============================================================================
