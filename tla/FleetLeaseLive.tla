--------------------------- MODULE FleetLeaseLive ---------------------------
(***************************************************************************)
(* Progress of the lease plane: every admitted event ends, whatever a      *)
(* bounded number of crashes, outages and operator interventions leave     *)
(* behind.                                                                 *)
(***************************************************************************)
EXTENDS FleetLease

\* The timing the lease plane is built on.  A pass takes milliseconds and a run
\* renews every 5 seconds, so neither outlasts the 30-second lease unless
\* something goes wrong: the clock passes a busy fleet only as a fault.
Busy == \E f \in Fences : \/ pc[f] \in Running \cup {"stopping"}
                          \/ Heard(f) /\ Settles(f)

PromptTick == /\ ~Busy
              /\ Tick

LateTick == /\ Busy
            /\ faults < MaxFaults /\ faults' = faults + 1
            /\ now < MaxNow /\ now' = now + 1
            /\ UNCHANGED <<fleet, host, taskVars, queueVars, gateVars, slotVars, leaseVars,
                           passVars, runVars>>

\* A task runs out of its limits only so often.
LateWithhold(e) ==
    /\ Fault
    /\ e \in bound /\ task[e] = "current"
    /\ task' = [task EXCEPT ![e] = "withheld"]
    /\ UNCHANGED <<now, fleet, host, fit, bound, taken, answered, queueVars, gateVars, slotVars,
                   leaseVars, passVars, runVars>>

\* A pass runs to its end unless a fault stops it.
PassProgress(f) ==
    \/ ResolveInstalled(f) \/ RecordReceived(f) \/ Judge(f) \/ AskGrant(f)
    \/ pc[f] = "refusing" /\ Block(f)
    \/ Park(f) \/ Issue(f) \/ ClaimLost(f) \/ LetGo(f)

\* A run that is not lost ends with a report.
Reports(f) == \E ending \in {"processed", "fleet_error"} : Report(f, ending, 0)

\* Runners poll in a loop, sweeps run on an interval, a stopped fleet and a host
\* that left come back.  Nothing is assumed of people answering gates, nor of
\* tasks getting their limits back.
Fairness ==
    /\ WF_vars(\E r \in Runners : Claim(r))
    /\ \A f \in Fences : WF_vars(PassProgress(f)) /\ WF_vars(Reports(f))
    /\ \A r \in Runners : WF_vars(HostReturns(r)) /\ WF_vars(TasksOn(r))
    /\ WF_vars(ExpireGates) /\ WF_vars(ResumeFleet) /\ WF_vars(PromptTick)

LiveNext == Step \/ PromptTick \/ LateTick \/ \E e \in Events : LateWithhold(e)

LiveSpec == Init /\ [][LiveNext]_vars /\ Fairness

\* Every admitted event leaves the queue, except while its task does not let it
\* run: claims lapse, cards time out and reclaims take over whatever a crash left
\* behind, and neither the event at the head nor a task that cannot run starves
\* the events behind it.
EveryEventEnds ==
    \A e \in Events :
        admitted >= e ~> e \in settled \/ (e \in bound /\ task[e] # "current")
=============================================================================
