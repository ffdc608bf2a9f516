------------------------------ MODULE ReportSpool ------------------------------
(***************************************************************************)
(* A finished run's report on its way to the daemon.  The lease's worker   *)
(* writes it to the spool before it posts it once; whatever the daemon did *)
(* not settle stays there, and the drain posts it again.  Worker and drain *)
(* deliver the same file without a lock, an older replica refuses a report *)
(* that carries the run's memory, and the process may die between any two  *)
(* steps.                                                                  *)
(*                                                                         *)
(* A report has two shapes: "full" with the memory, "plain" without.  The  *)
(* daemon is the one answer it gives to one post.                          *)
(***************************************************************************)
EXTENDS Naturals, FiniteSets

CONSTANTS
    Leases,      \* leases of this host whose runs end
    Cases,       \* the reports to consider: lease -> [onePost, daemon]
    Drain,       \* the drain, an actor beside the leases' workers
    MaxFaults    \* bound: lost answers, disk failures, deploys, crashes, refused tokens

Kinds == [onePost : BOOLEAN, daemon : {"reads", "stuck", "refuses"}]

ASSUME SpoolAssumption == /\ Leases # {} /\ Drain \notin Leases /\ MaxFaults \in Nat
                          /\ Cases \subseteq [Leases -> Kinds]

VARIABLES
    case,        \* the reports: whether one carries the memory, what the daemon does with it
    file,        \* lease -> the shape waiting in the spool, or "none"
    aside,       \* lease -> the shape moved aside as refused, or "none"
    daemon,      \* lease -> "open", "recorded" or "overtaken"
    old,         \* the replica that answers is of an older release
    job,         \* actor -> what it delivers, and where it stands
    queue,       \* what the drain's pass has left to post
    halted,      \* "no", "leasing" or "serving"
    ended,       \* leases whose hold was ended, their report being lost
    held,        \* leases whose report was written to the spool
    direct,      \* leases whose report could not be, and went out from memory
    shaped,      \* leases whose report was refused for its shape
    faults       \* how many faults happened

diskVars == <<file, aside, held>>
vars == <<case, diskVars, daemon, old, job, queue, halted, ended, direct, shaped, faults>>

Actors == Leases \cup {Drain}
Shapes == {"full", "plain"}
Idle(l) == [lease |-> l, bytes |-> "plain", again |-> FALSE, at |-> "idle", answer |-> "none"]

Init ==
    /\ case \in Cases
    /\ file = [l \in Leases |-> "none"] /\ aside = [l \in Leases |-> "none"] /\ held = {}
    /\ daemon = [l \in Leases |-> "open"] /\ old = FALSE
    /\ job = [i \in Actors |-> IF i = Drain THEN Idle(CHOOSE l \in Leases : TRUE)
               ELSE [Idle(i) EXCEPT !.at = "run", !.bytes = IF case[i].onePost THEN "full" ELSE "plain"]]
    /\ queue = {} /\ halted = "no"
    /\ ended = {} /\ direct = {} /\ shaped = {} /\ faults = 0

Fault == faults < MaxFaults /\ faults' = faults + 1
Fine == UNCHANGED faults

At(i, where) == job[i].at = where
Goes(i, where) == job' = [job EXCEPT ![i].at = where]

-----------------------------------------------------------------------------
(* One delivery, the worker's or the drain's. *)

Answers == {"settled", "superseded", "kept", "unauthorized", "shape", "refused"}

\* Mutant: the entry goes on an answer a later post could change.
RemovesOnKept == {"settled", "superseded", "kept"}

\* The answers that remove the entry, that move it aside, and that leave it.
Removes == {"settled", "superseded"}

\* Mutant: only a refused shape is moved aside.
SetsAsideShape == {"shape"}

SetsAside == {"shape", "refused"}
Stays == Answers \ (Removes \cup SetsAside)

\* Mutant: an answer that was lost ends the hold too.
LosesKept == {"superseded", "refused", "shape", "lost", "revoked", "kept"}

\* What says that the daemon will never record the report.
Loses == {"superseded", "refused", "shape", "lost", "revoked"}

\* What becomes of the actor's hold on the lease: a report the daemon will never
\* record ends it.  A refused token stops the host, and with it the drain's pass.
Conclude(i, outcome) ==
    /\ ended' = IF outcome \in Loses THEN ended \cup {job[i].lease} ELSE ended
    /\ halted' = IF outcome \in {"unauthorized", "revoked"} THEN "serving" ELSE halted
    /\ queue' = IF i = Drain /\ outcome = "unauthorized" THEN {} ELSE queue
    /\ job' = [job EXCEPT ![i] = [Idle(@.lease) EXCEPT !.at = IF i = Drain THEN "idle" ELSE "done"]]

\* A full report refused for its shape is posted again, plain; one that was posted
\* again goes on to forget the refused copy.
Decide(i, outcome) ==
    IF outcome = "shape" /\ job[i].bytes = "full"
    THEN /\ job' = [job EXCEPT ![i] = [@ EXCEPT !.bytes = "plain", !.again = TRUE, !.at = "hold"]]
         /\ UNCHANGED <<ended, halted, queue>>
    ELSE IF job[i].again
    THEN /\ job' = [job EXCEPT ![i] = [@ EXCEPT !.at = "forget", !.answer = outcome]]
         /\ UNCHANGED <<ended, halted, queue>>
    ELSE Conclude(i, outcome)

\* The run ends.
EndRun(l) ==
    /\ At(l, "run") /\ Goes(l, "hold")
    /\ UNCHANGED <<case, diskVars, daemon, old, queue, halted, ended, direct, shaped, faults>>

\* The report is written, synced and renamed into place.  Where that fails, before
\* or after the rename, the worker posts from memory and leasing stops; the drain
\* leaves the refused copy aside.
Hold(i) ==
    LET l == job[i].lease IN
    /\ At(i, "hold")
    /\ \/ /\ Fine
          /\ file' = [file EXCEPT ![l] = job[i].bytes] /\ held' = held \cup {l}
          /\ Goes(i, "post") /\ UNCHANGED <<ended, halted, queue, direct>>
       \/ /\ Fault
          /\ file' = [file EXCEPT ![l] = job[i].bytes] \/ UNCHANGED file
          /\ IF i = Drain
             THEN Conclude(i, "shape") /\ UNCHANGED direct
             ELSE /\ Goes(i, "direct") /\ direct' = direct \cup {l}
                  /\ halted' = IF halted = "no" THEN "leasing" ELSE halted
                  /\ UNCHANGED <<ended, queue>>
          /\ UNCHANGED held
    /\ UNCHANGED <<case, aside, daemon, old, shaped>>

\* Is the post refused for its shape, or for what it says?
Misread(i) == job[i].bytes = "full" /\ old
Refusals(i) == IF Misread(i) THEN {"shape"}
               ELSE IF case[job[i].lease].daemon = "refuses" THEN {"shape", "refused"} ELSE {}

\* The daemon takes the report and answers; the answer may be lost on the way, with
\* the report recorded or not.
Answered(i, answer) ==
    LET l == job[i].lease IN
    /\ \/ answer \in Refusals(i) /\ Fine /\ UNCHANGED daemon
       \/ answer \in {"kept", "unauthorized"} /\ Fault /\ UNCHANGED daemon
       \/ /\ Refusals(i) = {} /\ case[l].daemon = "stuck"
          /\ answer = "kept" /\ Fine /\ UNCHANGED daemon
       \/ /\ Refusals(i) = {} /\ case[l].daemon = "reads" /\ daemon[l] = "overtaken"
          /\ answer = "superseded" /\ Fine /\ UNCHANGED daemon
       \/ /\ Refusals(i) = {} /\ case[l].daemon = "reads" /\ daemon[l] # "overtaken"
          /\ daemon' = [daemon EXCEPT ![l] = "recorded"]
          /\ (answer = "settled" /\ Fine) \/ (answer = "kept" /\ Fault)
    /\ shaped' = IF answer = "shape" THEN shaped \cup {l} ELSE shaped

Post(i) ==
    /\ At(i, "post")
    /\ \E answer \in Answers :
          /\ Answered(i, answer)
          /\ job' = [job EXCEPT ![i] = [@ EXCEPT !.at = "apply", !.answer = answer]]
    /\ UNCHANGED <<case, diskVars, old, queue, halted, ended, direct>>

\* The answer's change to the spool: the entry is removed, moved aside or left.  One
\* that is not there to move, or a disk that fails, leaves it to a later pass.
Apply(i) ==
    LET l == job[i].lease
        answer == job[i].answer
    IN
    /\ At(i, "apply")
    /\ \/ /\ answer \in Removes /\ Fine
          /\ file' = [file EXCEPT ![l] = "none"] /\ UNCHANGED aside
          /\ Decide(i, answer)
       \/ /\ answer \in Stays /\ Fine
          /\ UNCHANGED <<file, aside>>
          /\ Decide(i, answer)
       \/ /\ answer \in SetsAside /\ file[l] # "none" /\ Fine
          /\ file' = [file EXCEPT ![l] = "none"] /\ aside' = [aside EXCEPT ![l] = file[l]]
          /\ Decide(i, answer)
       \/ /\ answer \in SetsAside /\ file[l] = "none" /\ Fine
          /\ UNCHANGED <<file, aside>>
          /\ Decide(i, "failed")
       \/ /\ answer \notin Stays /\ file[l] # "none" /\ Fault
          /\ UNCHANGED <<file, aside>>
          /\ Decide(i, "failed")
    /\ UNCHANGED <<case, held, daemon, old, direct, shaped>>

\* The refused copy goes, whatever became of the plain one.
Forget(i) ==
    /\ At(i, "forget")
    /\ \/ Fine /\ aside' = [aside EXCEPT ![job[i].lease] = "none"]
       \/ Fault /\ UNCHANGED aside
    /\ Conclude(i, job[i].answer)
    /\ UNCHANGED <<case, file, held, daemon, old, direct, shaped>>

\* A report no file backs is posted, and without an answer it is lost.
Direct(l) ==
    /\ At(l, "direct")
    /\ \E answer \in Answers :
          /\ Answered(l, answer)
          /\ Decide(l, CASE answer \in {"kept", "superseded", "refused"} -> "lost"
                          [] answer = "unauthorized" -> "revoked"
                          [] OTHER -> answer)
    /\ UNCHANGED <<case, diskVars, old, direct>>

-----------------------------------------------------------------------------
(* The drain's pass, the daemon and the process. *)

\* The drain reads the spool, with the bytes of every entry.
Pass ==
    /\ At(Drain, "idle") /\ queue = {} /\ halted # "serving"
    /\ queue' = {[lease |-> l, bytes |-> file[l]] : l \in {k \in Leases : file[k] # "none"}}
    /\ queue' # {}
    /\ UNCHANGED <<case, diskVars, daemon, old, job, halted, ended, direct, shaped, faults>>

Take ==
    /\ At(Drain, "idle")
    /\ \E entry \in queue :
          /\ queue' = queue \ {entry}
          /\ job' = [job EXCEPT ![Drain] = [Idle(entry.lease) EXCEPT !.bytes = entry.bytes, !.at = "post"]]
    /\ UNCHANGED <<case, diskVars, daemon, old, halted, ended, direct, shaped, faults>>

\* The daemon gives the fleet to another lease.
Overtake(l) ==
    /\ daemon[l] = "open" /\ daemon' = [daemon EXCEPT ![l] = "overtaken"]
    /\ UNCHANGED <<case, diskVars, old, job, queue, halted, ended, direct, shaped, faults>>

\* A deploy, or its rollback, moves the posts to a replica of another release.
Deploy ==
    /\ Fault /\ old' = ~old
    /\ UNCHANGED <<case, diskVars, daemon, job, queue, halted, ended, direct, shaped>>

\* The process dies and starts again: the spool is what is left.
Restart ==
    /\ Fault
    /\ job' = [i \in Actors |-> [Idle(job[i].lease) EXCEPT !.at = IF i = Drain THEN "idle" ELSE "done"]]
    /\ queue' = {} /\ halted' = "no"
    /\ UNCHANGED <<case, diskVars, daemon, old, ended, direct, shaped>>

Deliver(i) == Hold(i) \/ Post(i) \/ Apply(i) \/ Forget(i)
Settle(l) == EndRun(l) \/ Deliver(l) \/ Direct(l)
DrainStep == Pass \/ Take \/ Deliver(Drain)

Next == \/ \E l \in Leases : Settle(l) \/ Overtake(l)
        \/ DrainStep \/ Deploy \/ Restart

Spec == Init /\ [][Next]_vars

\* The runtime polls every task, and the drain wakes at least every half minute.
LiveSpec == Spec /\ WF_vars(DrainStep) /\ \A l \in Leases : WF_vars(Settle(l))

-----------------------------------------------------------------------------
(* What must hold. *)

Job == [lease : Leases, bytes : Shapes, again : BOOLEAN,
        at : {"idle", "run", "hold", "post", "apply", "forget", "direct", "done"},
        answer : Answers \cup {"none", "failed", "lost", "revoked"}]

\* Every variable keeps its type.
TypeOK ==
    /\ case \in Cases
    /\ file \in [Leases -> Shapes \cup {"none"}] /\ aside \in [Leases -> Shapes \cup {"none"}]
    /\ daemon \in [Leases -> {"open", "recorded", "overtaken"}] /\ old \in BOOLEAN
    /\ job \in [Actors -> Job] /\ queue \subseteq [lease : Leases, bytes : Shapes]
    /\ halted \in {"no", "leasing", "serving"}
    /\ ended \subseteq Leases /\ held \subseteq Leases /\ direct \subseteq Leases
    /\ shaped \subseteq Leases /\ faults \in 0..MaxFaults

OnDisk(l) == file[l] # "none" \/ aside[l] # "none"

\* A report that was written to the spool stays on disk until the daemon settled the
\* lease, whatever answers are lost, whoever delivers it and wherever the process
\* dies, unless its shape was refused.
WaitsOnDisk == \A l \in held \ shaped : OnDisk(l) \/ daemon[l] # "open"

\* What report_spool and fall_back say of a refused report too: it leaves the disk
\* only settled, or waits aside for an operator.
RefusedWaits == \A l \in held : OnDisk(l) \/ daemon[l] # "open"

\* The hold a run left is ended only when the daemon did not record the run, but for
\* a report no file backed or one refused for its shape.
EndsUnrecorded == \A l \in ended \ (direct \cup shaped) : daemon[l] # "recorded"

\* Again and again no report waits that the daemon could answer: one it keeps putting
\* off and one it cannot read do not block the others, unless the token was refused.
EachIsAnswered ==
    []<>(\/ halted = "serving"
         \/ \A l \in Leases : file[l] # "none" => case[l].daemon = "stuck")

=============================================================================
