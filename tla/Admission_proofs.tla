--------------------------- MODULE Admission_proofs ---------------------------
(***************************************************************************)
(* Proofs about Admission for every number of keys, fleets, callers,       *)
(* replicas and troubles: a fleet never holds more than its budget, a      *)
(* repeated key is never refused, and a replica's figure accounts for      *)
(* every row it read, or counted after its commit.                         *)
(*                                                                         *)
(* The first two rest on the lock of the fleet's row (Serial): whoever     *)
(* holds it found room for one more row and no row under its key (Room).   *)
(* The third rests on the claim (Exclusive): one caller at a time takes    *)
(* counts off, and it takes off no more than was counted before it read    *)
(* (Reading), so what was counted later is still there when it is done.    *)
(***************************************************************************)
EXTENDS Admission, FiniteSetTheorems, TLAPS

-----------------------------------------------------------------------------
(* The invariants. *)

\* A caller at work has a key.
Keyed == \A c \in Callers : call[c].pc \notin {"idle", "refused"} => call[c].key \in Keys

\* At most one transaction holds a fleet's row.
Serial == \A c, d \in Callers :
    Open(c) /\ Open(d) /\ FleetOf[call[c].key] = FleetOf[call[d].key] => c = d

\* Whoever holds it inserts a row its key has not, in the room it found.
Room == \A c \in Callers : Open(c) =>
    row[call[c].key] = "none" /\ Cardinality(Waiting(FleetOf[call[c].key])) < FleetBudget

Held == Keyed /\ Serial /\ Room /\ FleetWithinBudget

\* The rows of the backlog that r counted and that are not among some it read.
Later(r, read) == {k \in Backlog : r \in countedBy[k] /\ k \notin read}

Samples(c) == call[c].pc \in {"query", "publish", "reload"}

\* One caller of a replica samples at a time.
Exclusive == \A c \in Callers : Samples(c) =>
    /\ sampling[Home[c]]
    /\ \A d \in Callers : Samples(d) /\ Home[d] = Home[c] => d = c

\* What a sample may take off was counted before it read; what was counted later stays.
Reading == \A c \in Callers : LET r == Home[c] IN
    /\ At(c, "query") => call[c].counted <= since[r]
    /\ At(c, "publish") =>
          /\ "sampled" \notin call[c].todo => sampled[r] = call[c].rows
          /\ Cardinality(Later(r, call[c].rows))
                + (IF "since" \in call[c].todo THEN call[c].counted ELSE 0) <= since[r]

\* Between samples the figure counts what its sample did not read.
Covers == \A r \in Replicas : ~Publishing(r) => Cardinality(Later(r, sampled[r])) <= since[r]

\* Nothing is noted as counted that was not committed.
Committed ==
    /\ \A c \in Callers : At(c, "committed") => row[call[c].key] # "none"
    /\ \A k \in Keys : row[k] = "none" => countedBy[k] = {}

Counts == Exclusive /\ Reading /\ Covers /\ Committed

-----------------------------------------------------------------------------
(* Types. *)

LEMMA Sizes == ASSUME NEW S, S \subseteq Keys PROVE IsFiniteSet(S) /\ Cardinality(S) \in Nat
BY AdmissionAssumption, FS_Subset, FS_CardinalityType

LEMMA IdleType == Idle \in Calls
BY DEF Idle, Calls, PCs, Never, Figure

\* The record a caller's step gives it, and those of the others.
LEMMA CallChange ==
    ASSUME TypeOK, NEW c \in Callers, NEW x \in Calls, call' = [call EXCEPT ![c] = x]
    PROVE  call' \in [Callers -> Calls]
BY DEF TypeOK

\* The records the actions write.
LEMMA Records ==
    ASSUME TypeOK, NEW c \in Callers
    PROVE  /\ \A v \in PCs : [call[c] EXCEPT !.pc = v] \in Calls
           /\ [call[c] EXCEPT !.pc = "ask", !.counted = 0, !.rows = {}, !.age = 0] \in Calls
           /\ [Idle EXCEPT !.pc = "refused"] \in Calls
           /\ \A v \in PCs : [Idle EXCEPT !.pc = v, !.key = call[c].key] \in Calls
           /\ \A k \in Keys : [Idle EXCEPT !.pc = "load", !.key = k, !.todo = Figure] \in Calls
           /\ \A r \in Replicas : [call[c] EXCEPT !.pc = "query", !.counted = since[r], !.age = 0] \in Calls
           /\ [call[c] EXCEPT !.pc = "publish", !.rows = Backlog, !.todo = Figure \cup {"read_at"}] \in Calls
           /\ \A part : [call[c] EXCEPT !.todo = @ \ {part}] \in Calls
           /\ [call[c] EXCEPT !.pc = "reload", !.todo = Figure, !.estimate = 0,
                              !.counted = 0, !.rows = {}, !.age = 0] \in Calls
           /\ \A part : \A v \in Nat : [call[c] EXCEPT !.todo = @ \ {part}, !.estimate = Capped(@ + v)] \in Calls
<1>x. call[c] \in Calls
  BY DEF TypeOK
<1>k. /\ call[c].pc \in PCs /\ call[c].key \in Keys \cup {NoKey}
      /\ call[c].todo \subseteq Figure \cup {"read_at"} /\ call[c].estimate \in Nat /\ call[c].counted \in Nat
      /\ call[c].rows \subseteq Keys /\ call[c].age \in 0..Never
  BY <1>x DEF Calls
<1>n. 0 \in 0..Never
  BY DEF Never
<1>p. {"load", "query", "publish", "reload", "ask", "refused"} \subseteq PCs
  BY DEF PCs
<1>i. Idle \in Calls
  BY IdleType
<1>1. \A v \in PCs : [call[c] EXCEPT !.pc = v] \in Calls
  BY <1>x DEF Calls
<1>2. [call[c] EXCEPT !.pc = "ask", !.counted = 0, !.rows = {}, !.age = 0] \in Calls
  BY <1>x, <1>n, <1>p DEF Calls
<1>3. [Idle EXCEPT !.pc = "refused"] \in Calls
  BY <1>i, <1>p DEF Calls
<1>4. \A v \in PCs : [Idle EXCEPT !.pc = v, !.key = call[c].key] \in Calls
  BY <1>i, <1>k DEF Calls
<1>5. ASSUME NEW k \in Keys
      PROVE  [Idle EXCEPT !.pc = "load", !.key = k, !.todo = Figure] \in Calls
  BY <1>i, <1>p DEF Calls
<1>6. ASSUME NEW r \in Replicas
      PROVE  [call[c] EXCEPT !.pc = "query", !.counted = since[r], !.age = 0] \in Calls
  BY <1>x, <1>n, <1>p DEF Calls, TypeOK
<1>7. [call[c] EXCEPT !.pc = "publish", !.rows = Backlog, !.todo = Figure \cup {"read_at"}] \in Calls
  <2>1. Backlog \subseteq Keys
    BY DEF Backlog
  <2> QED BY <1>x, <1>p, <2>1 DEF Calls
<1>8. ASSUME NEW part PROVE [call[c] EXCEPT !.todo = @ \ {part}] \in Calls
  BY <1>x DEF Calls
<1>9. [call[c] EXCEPT !.pc = "reload", !.todo = Figure, !.estimate = 0, !.counted = 0, !.rows = {}, !.age = 0] \in Calls
  <2>1. [call[c] EXCEPT !.pc = "reload", !.todo = Figure] \in Calls
    BY <1>x, <1>p DEF Calls
  <2>2. [[call[c] EXCEPT !.pc = "reload", !.todo = Figure] EXCEPT !.estimate = 0, !.counted = 0, !.rows = {},
            !.age = 0] \in Calls
    BY <2>1, <1>n DEF Calls
  <2>3. [[call[c] EXCEPT !.pc = "reload", !.todo = Figure] EXCEPT !.estimate = 0, !.counted = 0, !.rows = {}, !.age = 0]
        = [call[c] EXCEPT !.pc = "reload", !.todo = Figure, !.estimate = 0, !.counted = 0, !.rows = {}, !.age = 0]
    OBVIOUS
  <2> QED BY <2>2, <2>3
<1>10. ASSUME NEW part, NEW v \in Nat
       PROVE  [call[c] EXCEPT !.todo = @ \ {part}, !.estimate = Capped(@ + v)] \in Calls
  <2>1. call[c].todo \ {part} \subseteq Figure \cup {"read_at"} /\ Capped(call[c].estimate + v) \in Nat
    BY <1>k, AdmissionAssumption DEF Capped
  <2> QED BY <1>x, <2>1 DEF Calls
<1> QED BY <1>1, <1>2, <1>3, <1>4, <1>5, <1>6, <1>7, <1>8, <1>9, <1>10, ZenonT(60)

LEMMA TypeStep == TypeOK /\ [Next]_vars => TypeOK'
<1> SUFFICES ASSUME TypeOK, [Next]_vars PROVE TypeOK'
  OBVIOUS
<1> USE AdmissionAssumption
<1>t. Trouble \/ Fine => troubles' \in 0..MaxTroubles
  BY DEF TypeOK, Trouble, Fine
<1>c. ASSUME NEW c \in Callers
      PROVE  call[c] \in Calls /\ Home[c] \in Replicas
  BY DEF TypeOK
<1>p. ASSUME NEW c \in Callers, NEW v \in PCs, Goes(c, v)  PROVE call' \in [Callers -> Calls]
  <2>1. call' = [call EXCEPT ![c] = [call[c] EXCEPT !.pc = v]]
    BY <1>p DEF Goes
  <2> QED BY <2>1, Records, CallChange
<1>a. ASSUME NEW c \in Callers, Proceeds(c)  PROVE call' \in [Callers -> Calls]
  BY <1>a, Records, CallChange DEF Proceeds
<1>e. ASSUME NEW c \in Callers, Ends(c)  PROVE call' \in [Callers -> Calls]
  BY <1>e, IdleType, CallChange DEF Ends
<1>1. ASSUME NEW c \in Callers, Begin(c) PROVE TypeOK'
  <2>1. PICK k \in Keys : call' = [call EXCEPT ![c] = [Idle EXCEPT !.pc = "load", !.key = k, !.todo = Figure]]
    BY <1>1, AdmissionAssumption DEF Begin
  <2>2. [Idle EXCEPT !.pc = "load", !.key = k, !.todo = Figure] \in Calls
    BY Records
  <2>3. call' \in [Callers -> Calls]
    BY <2>1, <2>2, CallChange
  <2> QED BY <1>1, <1>t, <2>3 DEF TypeOK, Begin, figureVars
<1>2. ASSUME NEW c \in Callers, Load(c) PROVE TypeOK'
  <2>1. PICK part \in call[c].todo :
          call' = [call EXCEPT ![c].todo = @ \ {part}, ![c].estimate = Capped(@ + Part(Home[c], part))]
    BY <1>2 DEF Load
  <2>2. Part(Home[c], part) \in Nat
    BY <1>c, Sizes DEF TypeOK, Part
  <2>3. call' = [call EXCEPT ![c] = [call[c] EXCEPT !.todo = @ \ {part}, !.estimate = Capped(@ + Part(Home[c], part))]]
    BY <2>1, <1>c DEF TypeOK
  <2>4. [call[c] EXCEPT !.todo = @ \ {part}, !.estimate = Capped(@ + Part(Home[c], part))] \in Calls
    BY <2>2, Records
  <2>5. call' \in [Callers -> Calls]
    BY <2>3, <2>4, CallChange
  <2> QED BY <1>2, <1>t, <2>5 DEF Load, TypeOK, figureVars
<1>3. ASSUME NEW c \in Callers, JudgeAge(c) PROVE TypeOK'
  <2>1. call' \in [Callers -> Calls]
    BY <1>3, <1>p, <1>a DEF JudgeAge, PCs
  <2> QED BY <1>3, <1>t, <2>1 DEF TypeOK, JudgeAge, figureVars
<1>4. ASSUME NEW c \in Callers, Claim(c) PROVE TypeOK'
  <2>1. CASE sampling[Home[c]]
    <3>1. call' \in [Callers -> Calls] /\ UNCHANGED sampling
      BY <1>4, <1>a, <2>1 DEF Claim
    <3> QED BY <1>4, <1>t, <3>1 DEF TypeOK, Claim
  <2>2. CASE ~sampling[Home[c]]
    <3>1. call' = [call EXCEPT ![c] = [call[c] EXCEPT !.pc = "query", !.counted = since[Home[c]], !.age = 0]]
      BY <1>4, <2>2 DEF Claim
    <3>2. [call[c] EXCEPT !.pc = "query", !.counted = since[Home[c]], !.age = 0] \in Calls
      BY <1>c, Records
    <3>3. call' \in [Callers -> Calls]
      BY <3>1, <3>2, CallChange
    <3> QED BY <1>4, <1>t, <2>2, <3>3 DEF TypeOK, Claim
  <2> QED BY <2>1, <2>2
<1>5. ASSUME NEW c \in Callers, Query(c) PROVE TypeOK'
  <2>1. call' = [call EXCEPT ![c] = [call[c] EXCEPT !.pc = "publish", !.rows = Backlog,
                                                    !.todo = Figure \cup {"read_at"}]]
    BY <1>5 DEF Query
  <2>2. [call[c] EXCEPT !.pc = "publish", !.rows = Backlog, !.todo = Figure \cup {"read_at"}] \in Calls
    BY Records
  <2>3. call' \in [Callers -> Calls]
    BY <2>1, <2>2, CallChange
  <2> QED BY <1>5, <1>t, <2>3 DEF TypeOK, Query, figureVars
<1>6. ASSUME NEW c \in Callers, QueryFails(c) PROVE TypeOK'
  <2>1. call' \in [Callers -> Calls]
    BY <1>6, <1>a DEF QueryFails
  <2> QED BY <1>6, <1>t, <2>1 DEF TypeOK, QueryFails, Released
<1>7. ASSUME NEW c \in Callers, Publish(c) PROVE TypeOK'
  <2>0. Remaining(c) \in Nat
    BY <1>c DEF Remaining, TypeOK, Calls
  <2>1. sampled' \in [Replicas -> SUBSET Keys] /\ since' \in [Replicas -> Nat] /\ age' \in [Replicas -> 0..Never]
    BY <1>7, <1>c, <2>0 DEF TypeOK, Publish, Calls
  <2>2. PICK part \in call[c].todo :
          call' = [call EXCEPT ![c] = IF call[c].todo \ {part} # {}
                      THEN [call[c] EXCEPT !.todo = call[c].todo \ {part}]
                      ELSE [call[c] EXCEPT !.pc = "reload", !.todo = Figure, !.estimate = 0,
                                           !.counted = 0, !.rows = {}, !.age = 0]]
    BY <1>7 DEF Publish
  <2>3. /\ [call[c] EXCEPT !.todo = call[c].todo \ {part}] \in Calls
        /\ [call[c] EXCEPT !.pc = "reload", !.todo = Figure, !.estimate = 0,
                           !.counted = 0, !.rows = {}, !.age = 0] \in Calls
    BY Records
  <2>4. call' \in [Callers -> Calls]
    BY <2>2, <2>3, CallChange
  <2> QED BY <1>7, <1>t, <2>1, <2>4 DEF TypeOK, Publish
<1>8. ASSUME NEW c \in Callers, Release(c) PROVE TypeOK'
  <2>1. call' \in [Callers -> Calls]
    BY <1>8, <1>a DEF Release
  <2> QED BY <1>8, <1>t, <2>1 DEF TypeOK, Release, Released
<1>9. ASSUME NEW c \in Callers, Ask(c) PROVE TypeOK'
  <2>1. call' \in [Callers -> Calls]
    BY <1>9, <1>p, <1>e DEF Ask, PCs
  <2> QED BY <1>9, <1>t, <2>1 DEF TypeOK, Ask, figureVars
<1>10. ASSUME NEW c \in Callers, Decide(c) PROVE TypeOK'
  <2>1. \/ Ends(c)
        \/ call' = [call EXCEPT ![c] = [Idle EXCEPT !.pc = "refused"]]
        \/ Inserts(c)
    BY <1>10 DEF Decide
  <2>2. call' \in [Callers -> Calls]
    BY <2>1, <1>e, Records, CallChange DEF Inserts, PCs
  <2> QED BY <1>10, <1>t, <2>2 DEF TypeOK, Decide, figureVars
<1>11. ASSUME NEW c \in Callers, Count(c) PROVE TypeOK'
  <2>1. call' \in [Callers -> Calls]
    BY <1>11, <1>p, <1>e DEF Count, PCs
  <2>2. since' \in [Replicas -> Nat]
    BY <1>11, <1>c DEF TypeOK, Count
  <2>3. countedBy' \in [Keys -> SUBSET Replicas]
    BY <1>11, <1>c DEF TypeOK, Count
  <2> QED BY <1>11, <1>t, <2>1, <2>2, <2>3 DEF TypeOK, Count
<1>12. ASSUME NEW c \in Callers, Commit(c) PROVE TypeOK'
  <2>1. call' \in [Callers -> Calls]
    BY <1>12, <1>p, <1>e DEF Commit, PCs
  <2> QED BY <1>12, <1>t, <2>1 DEF TypeOK, Commit, figureVars
<1>13. ASSUME NEW c \in Callers, CommitUnheard(c) PROVE TypeOK'
  BY <1>13, <1>e, <1>t DEF TypeOK, CommitUnheard, figureVars
<1>14. ASSUME NEW c \in Callers, Cancel(c) PROVE TypeOK'
  BY <1>14, <1>e, <1>t DEF TypeOK, Cancel, Released
<1>15. ASSUME NEW k \in Keys, Settle(k) PROVE TypeOK'
  BY <1>15, <1>t DEF TypeOK, Settle, figureVars
<1>16. ASSUME Tick PROVE TypeOK'
  <2>1. \A a \in 0..Never : Older(a) \in 0..Never
    BY DEF Older, Never, Healthy
  <2>2. call' \in [Callers -> Calls]
    <3>1. ASSUME NEW c \in Callers  PROVE [call[c] EXCEPT !.age = Older(@)] \in Calls
      BY <1>c, <2>1 DEF Calls
    <3> QED BY <1>16, <1>c, <3>1 DEF Tick
  <2> QED BY <1>16, <1>t, <2>1, <2>2 DEF TypeOK, Tick
<1>17. ASSUME NEW r \in Replicas, Crash(r) PROVE TypeOK'
  BY <1>17, <1>t, IdleType DEF TypeOK, Crash, Never
<1>18. ASSUME UNCHANGED vars PROVE TypeOK'
  BY <1>18 DEF TypeOK, vars, figureVars
<1> QED BY <1>1, <1>2, <1>3, <1>4, <1>5, <1>6, <1>7, <1>8, <1>9, <1>10, <1>11, <1>12, <1>13, <1>14, <1>15,
           <1>16, <1>17, <1>18 DEF Next, Step

-----------------------------------------------------------------------------
(* The fleet's budget. *)

\* A step that commits no row, opens no transaction and keeps the keys of those open.
Quiet ==
    /\ row' = row
    /\ \A c \in Callers : Open(c)' => Open(c) /\ call'[c].key = call[c].key
    /\ Keyed'

LEMMA QuietHolds == ASSUME Held, Quiet PROVE Held'
<1>1. \A f : Waiting(f)' = Waiting(f)
  BY DEF Waiting, Backlog, Quiet
<1>2. Serial'
  BY DEF Held, Serial, Quiet
<1>3. Room'
  BY <1>1 DEF Held, Room, Quiet
<1> QED BY <1>1, <1>2, <1>3 DEF Held, FleetWithinBudget, Quiet

\* What a caller's step writes, and that it leaves the others alone.
LEMMA Others ==
    ASSUME TypeOK, NEW c \in Callers, NEW x, call' = [call EXCEPT ![c] = x]
    PROVE  call'[c] = x /\ \A d \in Callers \ {c} : call'[d] = call[d]
BY DEF TypeOK

\* A caller's step that neither opens a transaction nor loses its key is quiet.
LEMMA CallerQuiet ==
    ASSUME TypeOK, Keyed, NEW c \in Callers, NEW x, call' = [call EXCEPT ![c] = x], row' = row,
           x.pc \in {"direct", "staged", "counted"} => Open(c) /\ x.key = call[c].key,
           x.pc \notin {"idle", "refused"} => x.key \in Keys
    PROVE  Quiet
BY Others DEF Quiet, Keyed, Open

LEMMA HeldStep == ASSUME TypeOK, Held, [Next]_vars PROVE Held'
<1>k. ASSUME NEW c \in Callers, call[c].pc \notin {"idle", "refused"}  PROVE call[c].key \in Keys
  BY <1>k DEF Held, Keyed
<1>x. ASSUME NEW c \in Callers  PROVE call[c] \in Calls
  BY DEF TypeOK
<1>a. ASSUME NEW c \in Callers, Proceeds(c), row' = row, call[c].pc \notin {"idle", "refused"}  PROVE Quiet
  <2> DEFINE y == [call[c] EXCEPT !.pc = "ask", !.counted = 0, !.rows = {}, !.age = 0]
  <2>1. y.pc = "ask" /\ y.key = call[c].key
    BY <1>x DEF Calls
  <2>2. call' = [call EXCEPT ![c] = y]
    BY <1>a DEF Proceeds
  <2> HIDE DEF y
  <2> QED BY <1>a, <1>k, <2>1, <2>2, CallerQuiet DEF Held
<1>e. ASSUME NEW c \in Callers, Ends(c), row' = row  PROVE Quiet
  <2>1. Idle.pc = "idle"
    BY DEF Idle
  <2> QED BY <1>e, <2>1, CallerQuiet DEF Ends, Held
<1>p. ASSUME NEW c \in Callers, NEW v, Goes(c, v), row' = row, call[c].pc \notin {"idle", "refused"},
             v \in {"direct", "staged", "counted"} => Open(c)
      PROVE  Quiet
  <2>1. call' = [call EXCEPT ![c] = [call[c] EXCEPT !.pc = v]]
    BY <1>p DEF Goes
  <2>2. [call[c] EXCEPT !.pc = v].pc = v /\ [call[c] EXCEPT !.pc = v].key = call[c].key
    BY <1>x DEF Calls
  <2> QED BY <1>p, <1>k, <2>1, <2>2, CallerQuiet DEF Held
<1>1. ASSUME NEW c \in Callers, Begin(c) PROVE Quiet
  <2>1. PICK k \in Keys : call' = [call EXCEPT ![c] = [Idle EXCEPT !.pc = "load", !.key = k, !.todo = Figure]]
    BY <1>1, AdmissionAssumption DEF Begin
  <2> DEFINE y == [Idle EXCEPT !.pc = "load", !.key = k, !.todo = Figure]
  <2>2. y.pc = "load" /\ y.key = k
    BY DEF Idle
  <2>3. call' = [call EXCEPT ![c] = y]
    BY <2>1
  <2> HIDE DEF y
  <2> QED BY <1>1, <2>2, <2>3, CallerQuiet DEF Begin, Held
<1>2. ASSUME NEW c \in Callers, Load(c) PROVE Quiet
  <2>1. PICK part \in call[c].todo :
          call' = [call EXCEPT ![c].todo = @ \ {part}, ![c].estimate = Capped(@ + Part(Home[c], part))]
    BY <1>2 DEF Load
  <2> DEFINE y == [call[c] EXCEPT !.todo = @ \ {part}, !.estimate = Capped(@ + Part(Home[c], part))]
  <2>2. y.pc = call[c].pc /\ y.key = call[c].key
    BY <1>x DEF Calls
  <2>3. call' = [call EXCEPT ![c] = y]
    BY <2>1 DEF TypeOK
  <2> HIDE DEF y
  <2> QED BY <1>2, <1>k, <2>2, <2>3, CallerQuiet DEF Load, Held
<1>3. ASSUME NEW c \in Callers, JudgeAge(c) PROVE Quiet
  BY <1>3, <1>p, <1>a DEF JudgeAge, At
<1>4. ASSUME NEW c \in Callers, Claim(c) PROVE Quiet
  <2>1. CASE sampling[Home[c]]
    BY <1>4, <1>a, <2>1 DEF Claim, At
  <2>2. CASE ~sampling[Home[c]]
    <3> DEFINE y == [call[c] EXCEPT !.pc = "query", !.counted = since[Home[c]], !.age = 0]
    <3>1. call' = [call EXCEPT ![c] = y]
      BY <1>4, <2>2 DEF Claim
    <3>2. y.pc = "query" /\ y.key = call[c].key
      BY <1>x DEF Calls
    <3> HIDE DEF y
    <3> QED BY <1>4, <1>k, <3>1, <3>2, CallerQuiet DEF Claim, Held, At
  <2> QED BY <2>1, <2>2
<1>5. ASSUME NEW c \in Callers, Query(c) PROVE Quiet
  <2> DEFINE y == [call[c] EXCEPT !.pc = "publish", !.rows = Backlog, !.todo = Figure \cup {"read_at"}]
  <2>1. call' = [call EXCEPT ![c] = y]
    BY <1>5 DEF Query
  <2>2. y.pc = "publish" /\ y.key = call[c].key
    BY <1>x DEF Calls
  <2> HIDE DEF y
  <2> QED BY <1>5, <1>k, <2>1, <2>2, CallerQuiet DEF Query, Held, At
<1>6. ASSUME NEW c \in Callers, QueryFails(c) PROVE Quiet
  BY <1>6, <1>a DEF QueryFails, At
<1>7. ASSUME NEW c \in Callers, Publish(c) PROVE Quiet
  <2>1. PICK part \in call[c].todo :
          call' = [call EXCEPT ![c] = IF call[c].todo \ {part} # {}
                      THEN [call[c] EXCEPT !.todo = call[c].todo \ {part}]
                      ELSE [call[c] EXCEPT !.pc = "reload", !.todo = Figure, !.estimate = 0,
                                           !.counted = 0, !.rows = {}, !.age = 0]]
    BY <1>7 DEF Publish
  <2> DEFINE y == IF call[c].todo \ {part} # {} THEN [call[c] EXCEPT !.todo = call[c].todo \ {part}]
                  ELSE [call[c] EXCEPT !.pc = "reload", !.todo = Figure, !.estimate = 0,
                                       !.counted = 0, !.rows = {}, !.age = 0]
  <2>2. y.pc \in {call[c].pc, "reload"} /\ y.key = call[c].key
    BY <1>x DEF Calls
  <2>3. call' = [call EXCEPT ![c] = y]
    BY <2>1
  <2> HIDE DEF y
  <2> QED BY <1>7, <1>k, <2>2, <2>3, CallerQuiet DEF Publish, Held, At
<1>8. ASSUME NEW c \in Callers, Release(c) PROVE Quiet
  BY <1>8, <1>a DEF Release, At
<1>9. ASSUME NEW c \in Callers, Ask(c) PROVE Quiet
  BY <1>9, <1>p, <1>e DEF Ask, At
<1>11. ASSUME NEW c \in Callers, Count(c) PROVE Quiet
  BY <1>11, <1>p, <1>e DEF Count, At, Open
<1>14. ASSUME NEW c \in Callers, Cancel(c) PROVE Quiet
  BY <1>14, <1>e DEF Cancel
<1>16. ASSUME Tick PROVE Quiet
  <2>1. ASSUME NEW c \in Callers  PROVE call'[c].pc = call[c].pc /\ call'[c].key = call[c].key
    BY <1>16, <1>x DEF Tick, Calls
  <2> QED BY <1>16, <2>1 DEF Tick, Quiet, Open, Held, Keyed
<1>17. ASSUME NEW r \in Replicas, Crash(r) PROVE Quiet
  <2>1. \A c \in Callers : call'[c] = Idle \/ call'[c] = call[c]
    BY <1>17 DEF Crash
  <2>2. Idle.pc = "idle"
    BY DEF Idle
  <2> QED BY <1>17, <2>1, <2>2 DEF Crash, Quiet, Open, Held, Keyed
<1>18. ASSUME UNCHANGED vars PROVE Quiet
  BY <1>18 DEF vars, Quiet, Open, Held, Keyed
<1>10. ASSUME NEW c \in Callers, Decide(c) PROVE Held'
  <2> DEFINE k == call[c].key
  <2>k. k \in Keys
    BY <1>10, <1>k DEF Decide, At
  <2>1. CASE Ends(c)
    BY <1>10, <1>e, <2>1, QuietHolds DEF Decide
  <2>2. CASE call' = [call EXCEPT ![c] = [Idle EXCEPT !.pc = "refused"]]
    <3>1. [Idle EXCEPT !.pc = "refused"].pc = "refused"
      BY DEF Idle
    <3> QED BY <1>10, <2>2, <3>1, CallerQuiet, QuietHolds DEF Decide, Held
  <2>3. CASE Inserts(c) /\ ~Repeated(k) /\ ~Full(k)
    <3> DEFINE y == [Idle EXCEPT !.pc = IF c \in Stagers THEN "staged" ELSE "direct", !.key = k]
    <3>1. y.pc \in {"direct", "staged"} /\ y.key = k
      BY DEF Idle
    <3>2. call' = [call EXCEPT ![c] = y]
      BY <2>3 DEF Inserts
    <3> HIDE DEF y
    <3>3. call'[c] = y /\ \A d \in Callers \ {c} : call'[d] = call[d]
      BY <3>2, Others
    <3>4. row' = row /\ ~Locked(FleetOf[k])
      BY <1>10 DEF Decide
    <3>5. \A f : Waiting(f)' = Waiting(f)
      BY <3>4 DEF Waiting, Backlog
    <3>6. Keyed'
      BY <2>k, <3>1, <3>3 DEF Held, Keyed
    <3>7. Serial'
      BY <3>1, <3>3, <3>4 DEF Held, Serial, Open, Locked
    <3>8. Cardinality(Waiting(FleetOf[k])) \in Nat
      BY Sizes DEF Waiting, Backlog
    <3>9. row[k] = "none" /\ Cardinality(Waiting(FleetOf[k])) < FleetBudget
      BY <2>3, <3>8, AdmissionAssumption DEF Repeated, Full
    <3>10. Room'
      BY <3>1, <3>3, <3>4, <3>5, <3>9 DEF Held, Room, Open
    <3> QED BY <3>5, <3>6, <3>7, <3>10 DEF Held, FleetWithinBudget
  <2> QED BY <1>10, <2>1, <2>2, <2>3 DEF Decide
<1>c. ASSUME NEW c \in Callers, Open(c), ~Open(c)', row' = [row EXCEPT ![call[c].key] = "waiting"], Keyed',
             \A d \in Callers \ {c} : call'[d] = call[d]
      PROVE  Held'
  <2>0. PICK k \in Keys : k = call[c].key
    BY <1>c, <1>k DEF Open
  <2> DEFINE W == Waiting(FleetOf[k])
  <2>1. k \in Keys /\ row[k] = "none" /\ Cardinality(W) < FleetBudget
    BY <1>c, <2>0 DEF Held, Room
  <2>2. Waiting(FleetOf[k])' = W \cup {k}
    <3>1. \A i \in Keys : row'[i] = IF i = k THEN "waiting" ELSE row[i]
      BY <1>c, <2>0 DEF TypeOK
    <3>2. Backlog' = Backlog \cup {k}
      BY <2>1, <3>1 DEF Backlog
    <3> QED BY <2>1, <3>2 DEF Waiting
  <2>3. \A f : f # FleetOf[k] => Waiting(f)' = Waiting(f)
    BY <1>c, <2>0 DEF Waiting, Backlog, TypeOK
  <2>4. IsFiniteSet(W) /\ Cardinality(W) \in Nat
    BY Sizes DEF Waiting, Backlog
  <2>5. Cardinality(W \cup {k}) <= FleetBudget
    <3>1. Cardinality(W \cup {k}) = IF k \in W THEN Cardinality(W) ELSE Cardinality(W) + 1
      BY <2>4, FS_AddElement
    <3> HIDE DEF W
    <3> QED BY <2>1, <2>4, <3>1, AdmissionAssumption
  <2>6. FleetWithinBudget'
    <3> SUFFICES ASSUME NEW i \in Keys  PROVE Cardinality(Waiting(FleetOf[i])') <= FleetBudget
      BY DEF FleetWithinBudget
    <3>1. CASE FleetOf[i] = FleetOf[k]
      BY <2>2, <2>5, <3>1
    <3>2. CASE FleetOf[i] # FleetOf[k]
      BY <2>3, <3>2 DEF FleetWithinBudget, Held
    <3> QED BY <3>1, <3>2
  <2>7. Serial'
    BY <1>c DEF Held, Serial, Open
  <2>8. Room'
    <3> SUFFICES ASSUME NEW d \in Callers, Open(d)'
                 PROVE  (row[call[d].key] = "none" /\ Cardinality(Waiting(FleetOf[call[d].key])) < FleetBudget)'
      BY DEF Room
    <3>1. d # c /\ call'[d] = call[d] /\ Open(d)
      BY <1>c DEF Open
    <3>2. FleetOf[call[d].key] # FleetOf[k]
      BY <1>c, <2>0, <3>1 DEF Held, Serial
    <3>3. call[d].key # k
      BY <3>2
    <3>4. row'[call[d].key] = row[call[d].key]
      BY <1>c, <1>k, <2>0, <3>1, <3>3 DEF TypeOK, Open
    <3> QED BY <2>3, <3>1, <3>2, <3>4 DEF Held, Room
  <2> QED BY <1>c, <2>6, <2>7, <2>8 DEF Held
<1>12. ASSUME NEW c \in Callers, Commit(c) PROVE Held'
  <2>1. call' \in {[call EXCEPT ![c] = [call[c] EXCEPT !.pc = "committed"]], [call EXCEPT ![c] = Idle]}
    BY <1>12 DEF Commit, Goes, Ends
  <2>2. /\ [call[c] EXCEPT !.pc = "committed"].pc = "committed"
        /\ [call[c] EXCEPT !.pc = "committed"].key = call[c].key
        /\ Idle.pc = "idle"
    BY <1>x DEF Calls, Idle
  <2>3. /\ \A d \in Callers \ {c} : call'[d] = call[d]
        /\ call'[c] \in {[call[c] EXCEPT !.pc = "committed"], Idle}
    BY <2>1, Others
  <2>4. Open(c) /\ row' = [row EXCEPT ![call[c].key] = "waiting"]
    BY <1>12 DEF Commit, At, Open
  <2>5. Keyed' /\ ~Open(c)'
    BY <1>k, <2>2, <2>3, <2>4 DEF Held, Keyed, Open
  <2> QED BY <1>c, <2>3, <2>4, <2>5
<1>13. ASSUME NEW c \in Callers, CommitUnheard(c) PROVE Held'
  <2>1. Idle.pc = "idle"
    BY DEF Idle
  <2>2. call'[c] = Idle /\ \A d \in Callers \ {c} : call'[d] = call[d]
    BY <1>13, Others DEF CommitUnheard, Ends
  <2>3. Open(c) /\ row' = [row EXCEPT ![call[c].key] = "waiting"]
    BY <1>13 DEF CommitUnheard, At, Open
  <2>4. Keyed' /\ ~Open(c)'
    BY <2>1, <2>2 DEF Held, Keyed, Open
  <2> QED BY <1>c, <2>2, <2>3, <2>4
<1>15. ASSUME NEW k \in Keys, Settle(k) PROVE Held'
  <2>1. call' = call /\ row[k] = "waiting" /\ row' = [row EXCEPT ![k] = "settled"]
    BY <1>15 DEF Settle
  <2>2. ASSUME NEW f  PROVE Waiting(f)' \subseteq Waiting(f)
    BY <2>1 DEF Waiting, Backlog, TypeOK
  <2>3. ASSUME NEW f  PROVE /\ Cardinality(Waiting(f)') <= Cardinality(Waiting(f))
                            /\ Cardinality(Waiting(f)) \in Nat /\ Cardinality(Waiting(f)') \in Nat
    <3>1. Waiting(f) \subseteq Keys /\ Waiting(f)' \subseteq Keys
      BY DEF Waiting, Backlog
    <3>2. IsFiniteSet(Waiting(f)) /\ Cardinality(Waiting(f)) \in Nat /\ Cardinality(Waiting(f)') \in Nat
      BY <3>1, Sizes
    <3> QED BY <2>2, <3>2, FS_Subset
  <2>4. Room'
    <3> SUFFICES ASSUME NEW d \in Callers, Open(d)
                 PROVE  row'[call[d].key] = "none" /\ Cardinality(Waiting(FleetOf[call[d].key])') < FleetBudget
      BY <2>1 DEF Room, Open
    <3>1. row[call[d].key] = "none" /\ Cardinality(Waiting(FleetOf[call[d].key])) < FleetBudget /\ call[d].key \in Keys
      BY <1>k DEF Held, Room, Open
    <3>2. row'[call[d].key] = "none"
      <4>1. \A i \in Keys : row[i] = "none" => row'[i] = "none"
        BY <2>1 DEF TypeOK
      <4>2. call[d].key \in Keys /\ row[call[d].key] = "none"
        BY <3>1
      <4> QED BY <4>1, <4>2
    <3>3. PICK f : f = FleetOf[call[d].key]
      OBVIOUS
    <3>4. Cardinality(Waiting(f)') < FleetBudget
      BY <2>3, <3>1, <3>3, AdmissionAssumption
    <3> QED BY <2>1, <3>2, <3>3, <3>4
  <2>5. FleetWithinBudget'
    BY <2>3, AdmissionAssumption DEF Held, FleetWithinBudget
  <2> QED BY <2>1, <2>4, <2>5 DEF Held, Keyed, Serial, Open
<1> QED BY QuietHolds, <1>1, <1>2, <1>3, <1>4, <1>5, <1>6, <1>7, <1>8, <1>9, <1>10, <1>11, <1>12, <1>13, <1>14,
           <1>15, <1>16, <1>17, <1>18 DEF Next, Step

LEMMA Start == Init => TypeOK /\ Held
<1> SUFFICES ASSUME Init PROVE TypeOK /\ Held
  OBVIOUS
<1>1. \A c \in Callers : call[c] = Idle /\ Idle.pc = "idle"
  BY DEF Init, Idle
<1>2. TypeOK
  BY IdleType, AdmissionAssumption DEF Init, TypeOK, Never
<1>3. \A f : Waiting(f) = {}
  BY DEF Init, Waiting, Backlog
<1>4. FleetWithinBudget
  BY <1>3, FS_EmptySet, AdmissionAssumption DEF FleetWithinBudget
<1> QED BY <1>1, <1>2, <1>4 DEF Held, Keyed, Serial, Room, Open

\* The records of the callers keep their types, and the ages theirs.
THEOREM Typed == Spec => []TypeOK
<1>1. Init => TypeOK
  BY Start
<1>2. TypeOK /\ [Next]_vars => TypeOK'
  BY TypeStep
<1> QED BY <1>1, <1>2, PTL DEF Spec

LEMMA AlwaysHeld == Spec => []Held
<1>1. Init => Held
  BY Start
<1>2. TypeOK /\ Held /\ [Next]_vars => Held'
  BY HeldStep
<1> QED BY <1>1, <1>2, Typed, PTL DEF Spec

\* A fleet never holds more unsettled work than its budget, whatever replicas and callers race
\* for its last place.
THEOREM WithinBudget == Spec => []FleetWithinBudget
<1>1. Held => FleetWithinBudget
  BY DEF Held
<1> QED BY <1>1, AlwaysHeld, PTL

-----------------------------------------------------------------------------
(* Repeated keys. *)

\* What the actions make of the caller's record.
LEMMA Written ==
    ASSUME TypeOK, NEW c \in Callers
    PROVE  /\ \A v : Goes(c, v) => call'[c].pc = v
           /\ Proceeds(c) => call'[c].pc = "ask"
           /\ Inserts(c) => call'[c].pc \in {"direct", "staged"}
           /\ Ends(c) => call'[c].pc = "idle"
<1>1. call \in [Callers -> Calls] /\ call[c] \in Calls
  BY DEF TypeOK
<1>2. \A v : Goes(c, v) => call'[c].pc = v
  BY <1>1 DEF Goes, Calls
<1>3. Proceeds(c) => call'[c].pc = "ask"
  BY <1>1 DEF Proceeds, Calls
<1>4. Inserts(c) => call'[c].pc \in {"direct", "staged"}
  BY <1>1 DEF Inserts, Calls, Idle
<1>5. Ends(c) => call'[c].pc = "idle"
  BY <1>1 DEF Ends, Idle
<1> QED BY <1>2, <1>3, <1>4, <1>5, Zenon

\* Only the decision under the lock refuses, and only a key it finds no row of.
LEMMA RefusalStep ==
    ASSUME TypeOK, [Next]_vars, NEW c \in Callers, ~At(c, "refused"), At(c, "refused")'
    PROVE  row[call[c].key] = "none"
<1> SUFFICES ASSUME ~(Decide(c) /\ ~Ends(c)) PROVE FALSE
  BY DEF Decide, Repeated
<1>c. call[c] \in Calls /\ call[c].pc # "refused" /\ call'[c].pc = "refused"
  BY DEF TypeOK, At
<1>o. ASSUME NEW d \in Callers, NEW x, call' = [call EXCEPT ![d] = x], x.pc # "refused"  PROVE FALSE
  BY <1>c, <1>o, Others
<1>d. ASSUME NEW d \in Callers, NEW x, call' = [call EXCEPT ![d] = x]  PROVE d = c
  BY <1>c, <1>d, Others
<1>w. ASSUME NEW d \in Callers, Ends(d) \/ Proceeds(d) \/ Inserts(d) \/ \E v : v # "refused" /\ Goes(d, v)
      PROVE  FALSE
  <2>1. d = c
    BY <1>d, <1>w DEF Ends, Proceeds, Inserts, Goes
  <2> QED BY <1>c, <1>w, <2>1, Written
<1>1. ASSUME NEW d \in Callers, Begin(d) PROVE FALSE
  <2>1. PICK k \in Keys : call' = [call EXCEPT ![d] = [Idle EXCEPT !.pc = "load", !.key = k, !.todo = Figure]]
    BY <1>1, AdmissionAssumption DEF Begin
  <2>2. [Idle EXCEPT !.pc = "load", !.key = k, !.todo = Figure].pc = "load"
    BY DEF Idle
  <2> QED BY <1>o, <2>1, <2>2
<1>2. ASSUME NEW d \in Callers, Load(d) PROVE FALSE
  <2>1. PICK part \in call[d].todo :
          call' = [call EXCEPT ![d].todo = @ \ {part}, ![d].estimate = Capped(@ + Part(Home[d], part))]
    BY <1>2 DEF Load
  <2>2. call' = [call EXCEPT ![d] = [call[d] EXCEPT !.todo = @ \ {part}, !.estimate = Capped(@ + Part(Home[d], part))]]
    BY <2>1 DEF TypeOK
  <2>3. [call[d] EXCEPT !.todo = @ \ {part}, !.estimate = Capped(@ + Part(Home[d], part))].pc = call[d].pc
    BY DEF TypeOK, Calls
  <2> QED BY <1>2, <1>o, <2>2, <2>3 DEF Load
<1>4. ASSUME NEW d \in Callers, Claim(d) PROVE FALSE
  <2>1. CASE sampling[Home[d]]
    BY <1>4, <1>w, <2>1 DEF Claim
  <2>2. CASE ~sampling[Home[d]]
    <3>1. call' = [call EXCEPT ![d] = [call[d] EXCEPT !.pc = "query", !.counted = since[Home[d]], !.age = 0]]
      BY <1>4, <2>2 DEF Claim
    <3>2. [call[d] EXCEPT !.pc = "query", !.counted = since[Home[d]], !.age = 0].pc = "query"
      BY DEF TypeOK, Calls
    <3> QED BY <1>o, <3>1, <3>2
  <2> QED BY <2>1, <2>2
<1>5. ASSUME NEW d \in Callers, Query(d) PROVE FALSE
  <2>1. call' = [call EXCEPT ![d] = [call[d] EXCEPT !.pc = "publish", !.rows = Backlog,
                                                    !.todo = Figure \cup {"read_at"}]]
    BY <1>5 DEF Query
  <2>2. [call[d] EXCEPT !.pc = "publish", !.rows = Backlog, !.todo = Figure \cup {"read_at"}].pc = "publish"
    BY DEF TypeOK, Calls
  <2> QED BY <1>o, <2>1, <2>2
<1>7. ASSUME NEW d \in Callers, Publish(d) PROVE FALSE
  <2>1. PICK part \in call[d].todo :
          call' = [call EXCEPT ![d] = IF call[d].todo \ {part} # {}
                      THEN [call[d] EXCEPT !.todo = call[d].todo \ {part}]
                      ELSE [call[d] EXCEPT !.pc = "reload", !.todo = Figure, !.estimate = 0,
                                           !.counted = 0, !.rows = {}, !.age = 0]]
    BY <1>7 DEF Publish
  <2>2. call[d] \in Calls /\ call[d].pc = "publish"
    BY <1>7 DEF Publish, At, TypeOK
  <2>3. /\ [call[d] EXCEPT !.todo = call[d].todo \ {part}].pc = "publish"
        /\ [call[d] EXCEPT !.pc = "reload", !.todo = Figure, !.estimate = 0,
                           !.counted = 0, !.rows = {}, !.age = 0].pc = "reload"
    BY <2>2 DEF Calls
  <2> QED BY <1>o, <2>1, <2>3
<1>8. ASSUME NEW d \in Callers, JudgeAge(d) \/ QueryFails(d) \/ Release(d) \/ Ask(d) \/ Count(d) \/ Commit(d)
                                 \/ CommitUnheard(d) \/ Cancel(d)
      PROVE  FALSE
  BY <1>8, <1>w DEF JudgeAge, QueryFails, Release, Ask, Count, Commit, CommitUnheard, Cancel
<1>10. ASSUME NEW d \in Callers, Decide(d) PROVE FALSE
  <2>1. d = c
    BY <1>10, <1>d DEF Decide, Ends, Inserts
  <2> QED BY <1>10, <1>w, <2>1
<1>15. ASSUME NEW k \in Keys, Settle(k) PROVE FALSE
  BY <1>15, <1>c DEF Settle
<1>16. ASSUME Tick PROVE FALSE
  BY <1>16, <1>c DEF Tick, Calls
<1>17. ASSUME NEW r \in Replicas, Crash(r) PROVE FALSE
  BY <1>17, <1>c DEF Crash, Idle
<1>18. ASSUME UNCHANGED vars PROVE FALSE
  BY <1>18, <1>c DEF vars
<1> QED BY <1>1, <1>2, <1>4, <1>5, <1>7, <1>8, <1>10, <1>15, <1>16, <1>17, <1>18 DEF Next, Step

\* A repeated key is accepted although a budget is full, even when its first admission took
\* the last place after the repeat had found no row.
THEOREM RepeatsStand == Spec => RepeatsAccepted
<1>1. TypeOK /\ [Next]_vars
         => [\A c \in Callers : ~At(c, "refused") /\ At(c, "refused")' => row[call[c].key] = "none"]_vars
  BY RefusalStep
<1> QED BY <1>1, Typed, PTL DEF Spec, RepeatsAccepted

-----------------------------------------------------------------------------
(* The figure. *)

LEMMA LaterSize ==
    ASSUME NEW r \in Replicas, NEW x
    PROVE  /\ Later(r, x) \subseteq Keys /\ IsFiniteSet(Later(r, x)) /\ Cardinality(Later(r, x)) \in Nat
           /\ IsFiniteSet(Later(r, x)') /\ Cardinality(Later(r, x)') \in Nat
<1>1. Later(r, x) \subseteq Keys /\ Later(r, x)' \subseteq Keys
  BY DEF Later, Backlog
<1> QED BY <1>1, Sizes

\* A step that counts nothing, and leaves who samples and what was sampled alone.
Plain ==
    /\ sampled' = sampled /\ since' = since
    /\ \A r \in Replicas : \A x : Later(r, x)' \subseteq Later(r, x)
    /\ \A c \in Callers :
          /\ Samples(c)' => /\ Samples(c) /\ sampling'[Home[c]]
                           /\ \/ call'[c].pc = "reload"
                              \/ /\ call'[c].pc = call[c].pc /\ call'[c].counted = call[c].counted
                                 /\ call'[c].rows = call[c].rows /\ call'[c].todo = call[c].todo
          /\ At(c, "publish") => At(c, "publish")'
    /\ Committed'

LEMMA PlainHolds == ASSUME TypeOK, Counts, Plain PROVE Counts'
<1>1. ASSUME NEW r \in Replicas, NEW x  PROVE Cardinality(Later(r, x)') <= Cardinality(Later(r, x))
  <2>1. Later(r, x)' \subseteq Later(r, x)
    BY DEF Plain
  <2> QED BY <2>1, LaterSize, FS_Subset
<1>2. Exclusive'
  BY DEF Counts, Exclusive, Plain
<1>3. Reading'
  <2> SUFFICES ASSUME NEW c \in Callers, NEW r \in Replicas, r = Home[c]
               PROVE  /\ At(c, "query")' => call'[c].counted <= since'[r]
                      /\ At(c, "publish")' =>
                            /\ "sampled" \notin call'[c].todo => sampled'[r] = call'[c].rows
                            /\ Cardinality(Later(r, call[c].rows)')
                                  + (IF "since" \in call'[c].todo THEN call'[c].counted ELSE 0) <= since'[r]
                            /\ call'[c].rows = call[c].rows
    BY AdmissionAssumption DEF Reading
  <2>1. CASE At(c, "query")'
    BY <2>1 DEF Plain, Counts, Reading, At, Samples
  <2>2. CASE At(c, "publish")'
    <3>1. /\ At(c, "publish") /\ call'[c].counted = call[c].counted
          /\ call'[c].rows = call[c].rows /\ call'[c].todo = call[c].todo
      BY <2>2 DEF Plain, At, Samples
    <3>2. /\ "sampled" \notin call[c].todo => sampled[r] = call[c].rows
          /\ Cardinality(Later(r, call[c].rows))
                + (IF "since" \in call[c].todo THEN call[c].counted ELSE 0) <= since[r]
      BY <3>1 DEF Counts, Reading
    <3>3. call[c].counted \in Nat /\ since[r] \in Nat /\ Cardinality(Later(r, call[c].rows)) \in Nat
          /\ Cardinality(Later(r, call[c].rows)') \in Nat
      BY LaterSize DEF TypeOK, Calls
    <3> QED BY <2>2, <3>1, <3>2, <3>3, <1>1 DEF Plain, At
  <2> QED BY <2>1, <2>2 DEF At
<1>4. Covers'
  <2> SUFFICES ASSUME NEW r \in Replicas, ~Publishing(r)'
               PROVE  Cardinality(Later(r, sampled[r])') <= since[r] /\ sampled'[r] = sampled[r] /\ since'[r] = since[r]
    BY DEF Covers
  <2>1. ~Publishing(r)
    BY DEF Publishing, Plain
  <2>2. since[r] \in Nat /\ Cardinality(Later(r, sampled[r])) \in Nat /\ Cardinality(Later(r, sampled[r])') \in Nat
    BY LaterSize DEF TypeOK
  <2> QED BY <1>1, <2>1, <2>2 DEF Counts, Covers, Plain
<1> QED BY <1>2, <1>3, <1>4 DEF Counts, Plain

\* A caller's step that touches neither rows nor the figure is plain.
LEMMA CallerPlain ==
    ASSUME TypeOK, Counts, NEW c \in Callers, NEW x, call' = [call EXCEPT ![c] = x],
           row' = row, sampled' = sampled, since' = since, countedBy' = countedBy,
           sampling' = sampling \/ (Samples(c) /\ x.pc # "reload" /\ sampling' = Released(Home[c])),
           ~At(c, "publish"), x.pc \notin {"query", "publish", "committed"},
           x.pc = "reload" => At(c, "reload")
    PROVE  Plain
<1>1. call'[c] = x /\ \A d \in Callers \ {c} : call'[d] = call[d]
  BY Others
<1>2. ASSUME NEW d \in Callers, Samples(d)'
      PROVE  Samples(d) /\ sampling'[Home[d]] /\ (d = c => call'[d].pc = "reload")
  <2>1. CASE d = c
    BY <1>1, <1>2, <2>1 DEF Samples, At, Counts, Exclusive
  <2>2. CASE d # c
    <3>1. Samples(d) /\ sampling[Home[d]]
      BY <1>1, <1>2, <2>2 DEF Samples, Counts, Exclusive
    <3>2. Samples(c) => Home[c] # Home[d]
      BY <2>2, <3>1 DEF Counts, Exclusive
    <3> QED BY <2>2, <3>1, <3>2, AdmissionAssumption DEF Released, TypeOK
  <2> QED BY <2>1, <2>2
<1>3. \A r \in Replicas : \A y : Later(r, y)' \subseteq Later(r, y)
  BY DEF Later, Backlog
<1>4. Committed'
  BY <1>1 DEF Counts, Committed, At
<1>6. \A d \in Callers : At(d, "publish") => At(d, "publish")'
  BY <1>1 DEF At
<1> QED BY <1>1, <1>2, <1>3, <1>4, <1>6 DEF Plain

LEMMA CountsStep == ASSUME TypeOK, Held, Counts, [Next]_vars PROVE Counts'
<1>x. ASSUME NEW c \in Callers  PROVE call[c] \in Calls /\ Home[c] \in Replicas
  BY AdmissionAssumption DEF TypeOK
<1>w. ASSUME NEW c \in Callers, ~At(c, "publish"),
             row' = row, sampled' = sampled, since' = since, countedBy' = countedBy,
             sampling' = sampling \/ (Samples(c) /\ sampling' = Released(Home[c])),
             Proceeds(c) \/ Ends(c) \/ Inserts(c) \/ \E v \in {"claim", "lock"} : Goes(c, v)
      PROVE  Plain
  <2>1. PICK y : call' = [call EXCEPT ![c] = y]
    BY <1>w DEF Proceeds, Ends, Inserts, Goes
  <2>2. call'[c] = y
    BY <2>1, Others
  <2>3. call'[c].pc \in {"ask", "idle", "direct", "staged", "claim", "lock"}
    BY <1>w, <1>x, Written
  <2> QED BY <1>w, <2>1, <2>2, <2>3, CallerPlain
<1>1. ASSUME NEW c \in Callers, Begin(c) PROVE Plain
  <2>1. PICK k \in Keys : call' = [call EXCEPT ![c] = [Idle EXCEPT !.pc = "load", !.key = k, !.todo = Figure]]
    BY <1>1, AdmissionAssumption DEF Begin
  <2> DEFINE y == [Idle EXCEPT !.pc = "load", !.key = k, !.todo = Figure]
  <2>2. y.pc = "load" /\ call' = [call EXCEPT ![c] = y]
    BY <2>1 DEF Idle
  <2> HIDE DEF y
  <2> QED BY <1>1, <2>2, CallerPlain DEF Begin, figureVars, At
<1>2. ASSUME NEW c \in Callers, Load(c) PROVE Plain
  <2>1. PICK part \in call[c].todo :
          call' = [call EXCEPT ![c].todo = @ \ {part}, ![c].estimate = Capped(@ + Part(Home[c], part))]
    BY <1>2 DEF Load
  <2> DEFINE y == [call[c] EXCEPT !.todo = @ \ {part}, !.estimate = Capped(@ + Part(Home[c], part))]
  <2>2. y.pc = call[c].pc
    BY <1>x DEF Calls
  <2>3. call' = [call EXCEPT ![c] = y]
    BY <2>1 DEF TypeOK
  <2> HIDE DEF y
  <2> QED BY <1>2, <2>2, <2>3, CallerPlain DEF Load, figureVars, At
<1>3. ASSUME NEW c \in Callers, JudgeAge(c) \/ Ask(c) \/ QueryFails(c) \/ Release(c) \/ (Claim(c) /\ sampling[Home[c]])
      PROVE  Plain
  <2>1. ~At(c, "publish") /\ (QueryFails(c) \/ Release(c) => Samples(c))
    BY <1>3 DEF JudgeAge, Ask, QueryFails, Release, Claim, At, Samples
  <2> QED BY <1>3, <1>w, <2>1 DEF JudgeAge, Ask, QueryFails, Release, Claim, figureVars
<1>4. ASSUME NEW c \in Callers, Claim(c), ~sampling[Home[c]] PROVE Counts'
  <2> DEFINE y == [call[c] EXCEPT !.pc = "query", !.counted = since[Home[c]], !.age = 0]
  <2>1. y.pc = "query" /\ y.counted = since[Home[c]]
    BY <1>x DEF Calls
  <2>2. call' = [call EXCEPT ![c] = y]
    BY <1>4 DEF Claim
  <2> HIDE DEF y
  <2>3. call'[c] = y /\ \A d \in Callers \ {c} : call'[d] = call[d]
    BY <2>2, Others
  <2>4. /\ sampling' = [sampling EXCEPT ![Home[c]] = TRUE] /\ sampled' = sampled /\ since' = since
        /\ row' = row /\ countedBy' = countedBy /\ call[c].pc = "claim"
    BY <1>4 DEF Claim, At
  <2>5. \A r \in Replicas : \A x : Later(r, x)' = Later(r, x)
    BY <2>4 DEF Later, Backlog
  <2>6. \A d \in Callers : Samples(d) => Home[d] # Home[c]
    BY <1>4 DEF Counts, Exclusive
  <2>7. Exclusive'
    BY <1>x, <2>1, <2>3, <2>4, <2>6 DEF Counts, Exclusive, Samples, TypeOK
  <2>8. Reading'
    <3> SUFFICES ASSUME NEW d \in Callers, NEW r, r = Home[d]
                 PROVE  /\ At(d, "query")' => call'[d].counted <= since[r]
                        /\ At(d, "publish")' =>
                              /\ "sampled" \notin call'[d].todo => sampled[r] = call'[d].rows
                              /\ Cardinality(Later(r, call'[d].rows))
                                    + (IF "since" \in call'[d].todo THEN call'[d].counted ELSE 0) <= since[r]
      BY <1>x, <2>4, <2>5 DEF Reading
    <3>1. CASE d = c
      BY <1>x, <2>1, <2>3, <3>1 DEF At, TypeOK
    <3>2. CASE d # c
      BY <2>3, <3>2 DEF At, Counts, Reading
    <3> QED BY <3>1, <3>2
  <2>9. Covers'
    BY <2>1, <2>3, <2>4, <2>5 DEF Counts, Covers, Publishing, At
  <2>10. Committed'
    BY <2>1, <2>3, <2>4 DEF Counts, Committed, At
  <2> QED BY <2>7, <2>8, <2>9, <2>10 DEF Counts
<1>5. ASSUME NEW c \in Callers, Query(c) PROVE Counts'
  <2> DEFINE y == [call[c] EXCEPT !.pc = "publish", !.rows = Backlog, !.todo = Figure \cup {"read_at"}]
  <2>1. /\ y.pc = "publish" /\ y.rows = Backlog /\ y.todo = Figure \cup {"read_at"}
        /\ y.counted = call[c].counted
    BY <1>x DEF Calls
  <2>2. call' = [call EXCEPT ![c] = y]
    BY <1>5 DEF Query
  <2> HIDE DEF y
  <2>3. call'[c] = y /\ \A d \in Callers \ {c} : call'[d] = call[d]
    BY <2>2, Others
  <2>4. /\ sampling' = sampling /\ sampled' = sampled /\ since' = since
        /\ row' = row /\ countedBy' = countedBy /\ call[c].pc = "query"
    BY <1>5 DEF Query, At, figureVars
  <2>5. \A r \in Replicas : \A x : Later(r, x)' = Later(r, x)
    BY <2>4 DEF Later, Backlog
  <2>6. Exclusive'
    BY <2>1, <2>3, <2>4 DEF Counts, Exclusive, Samples
  <2>7. Reading'
    <3> SUFFICES ASSUME NEW d \in Callers, NEW r, r = Home[d]
                 PROVE  /\ At(d, "query")' => call'[d].counted <= since[r]
                        /\ At(d, "publish")' =>
                              /\ "sampled" \notin call'[d].todo => sampled[r] = call'[d].rows
                              /\ Cardinality(Later(r, call'[d].rows))
                                    + (IF "since" \in call'[d].todo THEN call'[d].counted ELSE 0) <= since[r]
      BY <1>x, <2>4, <2>5 DEF Reading
    <3>1. CASE d = c
      <4>1. Cardinality(Later(r, y.rows)) = 0
        <5>1. Later(r, y.rows) = {}
          BY <2>1 DEF Later
        <5> QED BY <5>1, FS_EmptySet
      <4>2. call[c].counted <= since[r] /\ call[c].counted \in Nat
        BY <1>x, <2>4, <3>1 DEF Counts, Reading, At, Calls
      <4>3. "sampled" \in y.todo /\ "since" \in y.todo
        BY <2>1 DEF Figure
      <4> QED BY <2>1, <2>3, <3>1, <4>1, <4>2, <4>3 DEF At
    <3>2. CASE d # c
      BY <2>3, <3>2 DEF At, Counts, Reading
    <3> QED BY <3>1, <3>2
  <2>8. Covers'
    <3>1. \A r \in Replicas : ~Publishing(r)' => ~Publishing(r)
      BY <2>1, <2>3, <2>4 DEF Publishing, At
    <3> QED BY <2>4, <2>5, <3>1 DEF Counts, Covers
  <2>9. Committed'
    BY <2>1, <2>3, <2>4 DEF Counts, Committed, At
  <2> QED BY <2>6, <2>7, <2>8, <2>9 DEF Counts
<1>6. ASSUME NEW c \in Callers, Publish(c) PROVE Counts'
  <2>1. PICK part \in call[c].todo, r \in Replicas :
          /\ r = Home[c]
          /\ sampled' = IF part = "sampled" THEN [sampled EXCEPT ![r] = call[c].rows] ELSE sampled
          /\ since' = IF part = "since" THEN [since EXCEPT ![r] = Remaining(c)] ELSE since
          /\ call' = [call EXCEPT ![c] = IF call[c].todo \ {part} # {}
                      THEN [call[c] EXCEPT !.todo = call[c].todo \ {part}]
                      ELSE [call[c] EXCEPT !.pc = "reload", !.todo = Figure, !.estimate = 0,
                                           !.counted = 0, !.rows = {}, !.age = 0]]
    BY <1>6, <1>x DEF Publish
  <2> DEFINE left == call[c].todo \ {part}
             y == IF left # {} THEN [call[c] EXCEPT !.todo = left]
                  ELSE [call[c] EXCEPT !.pc = "reload", !.todo = Figure, !.estimate = 0,
                                       !.counted = 0, !.rows = {}, !.age = 0]
  <2>2. /\ left # {} => /\ y.pc = call[c].pc /\ y.rows = call[c].rows
                        /\ y.todo = left /\ y.counted = call[c].counted
        /\ left = {} => y.pc = "reload"
    BY <1>x DEF Calls
  <2>3. call' = [call EXCEPT ![c] = y]
    BY <2>1
  <2> HIDE DEF y
  <2>4. call'[c] = y /\ \A d \in Callers \ {c} : call'[d] = call[d]
    BY <2>3, Others
  <2>5. sampling' = sampling /\ row' = row /\ countedBy' = countedBy /\ call[c].pc = "publish"
    BY <1>6 DEF Publish, At
  <2>6. \A q \in Replicas : \A x : Later(q, x)' = Later(q, x)
    BY <2>5 DEF Later, Backlog
  <2>7. Exclusive'
    BY <2>2, <2>4, <2>5 DEF Counts, Exclusive, Samples
  <2>8. \A d \in Callers : Samples(d) /\ Home[d] = r => d = c
    BY <2>1, <2>5 DEF Counts, Exclusive, Samples
  <2>9. \A q \in Replicas \ {r} : sampled'[q] = sampled[q] /\ since'[q] = since[q]
    BY <2>1 DEF TypeOK
  <2>10. /\ "sampled" \notin left => sampled'[r] = call[c].rows
         /\ Cardinality(Later(r, call[c].rows))
               + (IF "since" \in left THEN call[c].counted ELSE 0) <= since'[r]
    <3>1. /\ "sampled" \notin call[c].todo => sampled[r] = call[c].rows
          /\ Cardinality(Later(r, call[c].rows))
                + (IF "since" \in call[c].todo THEN call[c].counted ELSE 0) <= since[r]
      BY <2>1, <2>5 DEF Counts, Reading, At
    <3>2. since[r] \in Nat /\ call[c].counted \in Nat /\ Cardinality(Later(r, call[c].rows)) \in Nat
      BY <1>x, LaterSize DEF TypeOK, Calls
    <3>3. part = "sampled" => sampled'[r] = call[c].rows
      BY <2>1 DEF TypeOK
    <3>4. part = "since" => since'[r] = IF since[r] > call[c].counted THEN since[r] - call[c].counted ELSE 0
      BY <2>1 DEF TypeOK, Remaining
    <3>5. (part # "sampled" => sampled' = sampled) /\ (part # "since" => since' = since)
      BY <2>1
    <3>6. "sampled" \notin left => sampled'[r] = call[c].rows
      BY <3>1, <3>3, <3>5
    <3>7. "since" \in left <=> "since" \in call[c].todo /\ part # "since"
      OBVIOUS
    <3>8. part = "since" => "since" \in call[c].todo
      OBVIOUS
    <3> HIDE DEF left
    <3> QED BY <3>1, <3>2, <3>4, <3>5, <3>6, <3>7, <3>8
  <2>11. Reading'
    <3> SUFFICES ASSUME NEW d \in Callers, NEW q \in Replicas, q = Home[d]
                 PROVE  /\ At(d, "query")' => call'[d].counted <= since'[q]
                        /\ At(d, "publish")' =>
                              /\ "sampled" \notin call'[d].todo => sampled'[q] = call'[d].rows
                              /\ Cardinality(Later(q, call'[d].rows))
                                    + (IF "since" \in call'[d].todo THEN call'[d].counted ELSE 0) <= since'[q]
      BY <1>x, <2>6 DEF Reading
    <3>1. CASE d = c
      BY <2>1, <2>2, <2>4, <2>5, <2>10, <3>1 DEF At
    <3>2. CASE d # c /\ q # r
      BY <2>4, <2>9, <3>2 DEF At, Counts, Reading
    <3>3. CASE d # c /\ q = r
      BY <2>4, <2>8, <3>3 DEF At, Samples
    <3> QED BY <3>1, <3>2, <3>3
  <2>12. Covers'
    <3> SUFFICES ASSUME NEW q \in Replicas, ~Publishing(q)'
                 PROVE  Cardinality(Later(q, sampled'[q])) <= since'[q]
      BY <2>6 DEF Covers
    <3>1. CASE q = r
      <4>1. left = {}
        BY <2>1, <2>2, <2>4, <2>5, <3>1 DEF Publishing, At
      <4> QED BY <2>10, <3>1, <4>1, <1>x, LaterSize DEF TypeOK
    <3>2. CASE q # r
      <4>1. ~Publishing(q)
        BY <2>1, <2>4, <3>2 DEF Publishing, At
      <4> QED BY <2>9, <3>2, <4>1 DEF Counts, Covers
    <3> QED BY <3>1, <3>2
  <2>13. Committed'
    BY <2>2, <2>4, <2>5 DEF Counts, Committed, At
  <2> QED BY <2>7, <2>11, <2>12, <2>13 DEF Counts
<1>7. ASSUME NEW c \in Callers, Decide(c) PROVE Plain
  <2>0. /\ ~At(c, "publish") /\ row' = row /\ sampled' = sampled /\ since' = since
        /\ countedBy' = countedBy /\ sampling' = sampling
    BY <1>7 DEF Decide, At, figureVars
  <2>1. CASE call' = [call EXCEPT ![c] = [Idle EXCEPT !.pc = "refused"]]
    <3>1. [Idle EXCEPT !.pc = "refused"].pc = "refused"
      BY DEF Idle
    <3> QED BY <2>0, <2>1, <3>1, CallerPlain
  <2>2. CASE Ends(c) \/ Inserts(c)
    BY <2>0, <2>2, <1>w
  <2> QED BY <1>7, <2>1, <2>2 DEF Decide
<1>8. ASSUME NEW c \in Callers, Count(c) PROVE Counts'
  <2>1. PICK r \in Replicas, k \in Keys :
          /\ r = Home[c] /\ k = call[c].key /\ call[c].pc \in {"staged", "committed"}
          /\ since' = [since EXCEPT ![r] = since[r] + 1]
          /\ countedBy' = IF call[c].pc = "committed" THEN [countedBy EXCEPT ![k] = countedBy[k] \cup {r}]
                          ELSE countedBy
          /\ row' = row /\ sampled' = sampled /\ sampling' = sampling
    <3>1. call[c].pc \in {"staged", "committed"} /\ call[c].key \in Keys
      BY <1>8 DEF Count, At, Held, Keyed
    <3> QED BY <1>8, <1>x, <3>1 DEF Count, At
  <2>2. call'[c].pc \in {"counted", "idle"} /\ \A d \in Callers \ {c} : call'[d] = call[d]
    <3>1. Goes(c, "counted") \/ Ends(c)
      BY <1>8 DEF Count
    <3>2. PICK y : call' = [call EXCEPT ![c] = y]
      BY <3>1 DEF Goes, Ends
    <3> QED BY <3>1, <3>2, Others, Written
  <2>4. since[r] \in Nat /\ since'[r] = since[r] + 1
        /\ \A q \in Replicas \ {r} : since'[q] = since[q]
    BY <2>1 DEF TypeOK
  <2>5. ASSUME NEW x  PROVE Cardinality(Later(r, x)') <= Cardinality(Later(r, x)) + 1
    <3>1. Later(r, x)' \subseteq Later(r, x) \cup {k}
      BY <2>1 DEF Later, Backlog, TypeOK
    <3>2. /\ IsFiniteSet(Later(r, x) \cup {k})
          /\ Cardinality(Later(r, x) \cup {k}) \in {Cardinality(Later(r, x)), Cardinality(Later(r, x)) + 1}
      BY LaterSize, FS_AddElement
    <3>3. Cardinality(Later(r, x)') <= Cardinality(Later(r, x) \cup {k})
      BY <3>1, <3>2, FS_Subset
    <3> QED BY <3>2, <3>3, LaterSize
  <2>6. \A q \in Replicas \ {r} : \A x : Later(q, x)' = Later(q, x)
    BY <2>1 DEF Later, Backlog, TypeOK
  <2>7. Exclusive'
    BY <2>1, <2>2 DEF Counts, Exclusive, Samples
  <2>8. Reading'
    <3> SUFFICES ASSUME NEW d \in Callers, NEW q \in Replicas, q = Home[d], d # c, NEW x, x = call[d].rows
                 PROVE  /\ At(d, "query") => call[d].counted <= since'[q]
                        /\ At(d, "publish") =>
                              /\ "sampled" \notin call[d].todo => sampled[q] = x
                              /\ Cardinality(Later(q, x)')
                                    + (IF "since" \in call[d].todo THEN call[d].counted ELSE 0) <= since'[q]
      BY <1>x, <2>1, <2>2 DEF Reading, At
    <3>1. /\ At(d, "query") => call[d].counted <= since[q]
          /\ At(d, "publish") =>
                /\ "sampled" \notin call[d].todo => sampled[q] = x
                /\ Cardinality(Later(q, x))
                      + (IF "since" \in call[d].todo THEN call[d].counted ELSE 0) <= since[q]
      BY DEF Counts, Reading
    <3>2. call[d].counted \in Nat
      BY <1>x DEF Calls
    <3>3. CASE q = r
      BY <2>4, <2>5, <3>1, <3>2, <3>3, LaterSize
    <3>4. CASE q # r
      BY <2>4, <2>6, <3>1, <3>4
    <3> QED BY <3>3, <3>4
  <2>9. Covers'
    <3> SUFFICES ASSUME NEW q \in Replicas, ~Publishing(q)', NEW x, x = sampled[q]
                 PROVE  Cardinality(Later(q, x)') <= since'[q]
      BY <2>1 DEF Covers
    <3>1. ~Publishing(q)
      BY <2>1, <2>2 DEF Publishing, At
    <3>2. Cardinality(Later(q, x)) <= since[q]
      BY <3>1 DEF Counts, Covers
    <3>3. CASE q = r
      BY <2>4, <2>5, <3>2, <3>3, LaterSize
    <3>4. CASE q # r
      BY <2>4, <2>6, <3>2, <3>4
    <3> QED BY <3>3, <3>4
  <2>10. Committed'
    <3>1. \A i \in Keys : row[i] = "none" => countedBy'[i] = countedBy[i]
      <4>1. CASE call[c].pc = "committed"
        <5>1. row[k] # "none"
          BY <2>1, <4>1 DEF Counts, Committed, At
        <5>2. \A i \in Keys \ {k} : countedBy'[i] = countedBy[i]
          BY <2>1, <4>1 DEF TypeOK
        <5> QED BY <5>1, <5>2
      <4>2. CASE call[c].pc # "committed"
        BY <2>1, <4>2
      <4> QED BY <4>1, <4>2
    <3>2. \A d \in Callers : At(d, "committed")' => d # c
      BY <2>2 DEF At
    <3> QED BY <2>1, <2>2, <3>1, <3>2 DEF Counts, Committed, At
  <2> QED BY <2>7, <2>8, <2>9, <2>10 DEF Counts
<1>9. ASSUME NEW c \in Callers, Commit(c) \/ CommitUnheard(c) PROVE Plain
  <2>1. PICK k \in Keys : k = call[c].key /\ Open(c) /\ row' = [row EXCEPT ![k] = "waiting"]
    <3>1. Open(c)
      BY <1>9 DEF Commit, CommitUnheard, At, Open
    <3> QED BY <1>9, <3>1 DEF Commit, CommitUnheard, Open, Held, Keyed
  <2>2. UNCHANGED <<sampled, since, age, sampling>> /\ countedBy' = countedBy
    BY <1>9 DEF Commit, CommitUnheard, figureVars
  <2>3. PICK y : call' = [call EXCEPT ![c] = y] /\ y.pc \in {"committed", "idle"}
                 /\ (y.pc = "committed" => y.key = k)
    <3>1. CASE Ends(c)
      <4>1. Idle.pc = "idle"
        BY DEF Idle
      <4> QED BY <3>1, <4>1 DEF Ends
    <3>2. CASE Goes(c, "committed")
      <4> DEFINE z == [call[c] EXCEPT !.pc = "committed"]
      <4>1. z.pc = "committed" /\ z.key = k
        BY <1>x, <2>1 DEF Calls
      <4>2. call' = [call EXCEPT ![c] = z]
        BY <3>2 DEF Goes
      <4> HIDE DEF z
      <4> QED BY <4>1, <4>2
    <3> QED BY <1>9, <3>1, <3>2 DEF Commit, CommitUnheard
  <2>4. call'[c] = y /\ \A d \in Callers \ {c} : call'[d] = call[d]
    BY <2>3, Others
  <2>5. countedBy[k] = {}
    BY <2>1 DEF Counts, Committed, Held, Room
  <2>6. \A i \in Keys : row'[i] = IF i = k THEN "waiting" ELSE row[i]
    BY <2>1 DEF TypeOK
  <2>7. ASSUME NEW r \in Replicas, NEW x  PROVE Later(r, x)' \subseteq Later(r, x)
    BY <2>2, <2>5, <2>6 DEF Later, Backlog
  <2>8. Committed'
    <3>2. ASSUME NEW d \in Callers, At(d, "committed")'  PROVE row'[call'[d].key] # "none"
      <4>1. CASE d = c
        BY <2>1, <2>3, <2>4, <2>6, <3>2, <4>1 DEF At
      <4>2. CASE d # c
        <5>1. call'[d] = call[d] /\ call[d].key \in Keys /\ row[call[d].key] # "none"
          BY <2>4, <3>2, <4>2 DEF Counts, Committed, At, Held, Keyed
        <5> QED BY <2>6, <5>1
      <4> QED BY <4>1, <4>2
    <3>3. \A i \in Keys : row'[i] = "none" => countedBy'[i] = {}
      BY <2>2, <2>6 DEF Counts, Committed
    <3> QED BY <3>2, <3>3 DEF Committed
  <2>9. /\ \A d \in Callers : Samples(d)' => d # c /\ call'[d] = call[d]
        /\ \A d \in Callers : At(d, "publish") => d # c /\ call'[d] = call[d]
    BY <2>1, <2>3, <2>4 DEF Samples, At, Open
  <2>11. \A d \in Callers : Samples(d)' => Samples(d) /\ sampling'[Home[d]]
    BY <2>2, <2>9 DEF Counts, Exclusive, Samples
  <2> QED BY <2>2, <2>7, <2>8, <2>9, <2>11 DEF Plain, At
<1>10. ASSUME NEW c \in Callers, Cancel(c) PROVE Plain
  <2>1. ~At(c, "publish")
    BY <1>10 DEF Cancel, At
  <2>2. sampling' = sampling \/ (Samples(c) /\ sampling' = Released(Home[c]))
    BY <1>10 DEF Cancel, At, Samples
  <2> QED BY <1>10, <1>w, <2>1, <2>2 DEF Cancel
<1>11. ASSUME NEW k \in Keys, Settle(k) PROVE Plain
  <2>1. /\ call' = call /\ sampling' = sampling /\ sampled' = sampled /\ since' = since
        /\ row[k] = "waiting" /\ row' = [row EXCEPT ![k] = "settled"] /\ countedBy' = [countedBy EXCEPT ![k] = {}]
    BY <1>11 DEF Settle, figureVars
  <2>2. /\ \A i \in Keys : row'[i] = IF i = k THEN "settled" ELSE row[i]
        /\ \A i \in Keys : countedBy'[i] = IF i = k THEN {} ELSE countedBy[i]
    BY <2>1 DEF TypeOK
  <2>3. ASSUME NEW r \in Replicas, NEW x  PROVE Later(r, x)' \subseteq Later(r, x)
    BY <2>1, <2>2 DEF Later, Backlog
  <2>4. Committed'
    <3>1. ASSUME NEW d \in Callers, At(d, "committed")  PROVE row'[call[d].key] # "none"
      <4>1. call[d].key \in Keys /\ row[call[d].key] # "none"
        BY <3>1 DEF Counts, Committed, At, Held, Keyed
      <4> QED BY <2>2, <4>1
    <3> QED BY <2>1, <2>2, <3>1 DEF Counts, Committed, At
  <2> QED BY <2>1, <2>3, <2>4 DEF Plain, Samples, At, Counts, Exclusive
<1>12. ASSUME Tick PROVE Plain
  <2>1. ASSUME NEW c \in Callers
        PROVE  /\ call'[c].pc = call[c].pc /\ call'[c].key = call[c].key
               /\ call'[c].counted = call[c].counted /\ call'[c].rows = call[c].rows /\ call'[c].todo = call[c].todo
    BY <1>12, <1>x DEF Tick, Calls
  <2>2. row' = row /\ sampling' = sampling /\ sampled' = sampled /\ since' = since /\ countedBy' = countedBy
    BY <1>12 DEF Tick
  <2>3. ASSUME NEW r \in Replicas, NEW x  PROVE Later(r, x)' \subseteq Later(r, x)
    BY <2>2 DEF Later, Backlog
  <2>4. Committed'
    BY <2>1, <2>2 DEF Counts, Committed, At
  <2> QED BY <2>1, <2>2, <2>3, <2>4 DEF Plain, Samples, At, Counts, Exclusive
<1>13. ASSUME NEW r \in Replicas, Crash(r) PROVE Counts'
  <2>1. /\ sampled' = [sampled EXCEPT ![r] = {}] /\ since' = [since EXCEPT ![r] = 0]
        /\ sampling' = [sampling EXCEPT ![r] = FALSE] /\ row' = row
    BY <1>13 DEF Crash
  <2>2. \A c \in Callers : call'[c] = IF Home[c] = r THEN Idle ELSE call[c]
    BY <1>13 DEF Crash
  <2>3. \A k \in Keys : countedBy'[k] = countedBy[k] \ {r}
    BY <1>13 DEF Crash
  <2>4. Idle.pc = "idle"
    BY DEF Idle
  <2>5. \A q \in Replicas \ {r} : /\ sampled'[q] = sampled[q] /\ since'[q] = since[q]
                                  /\ sampling'[q] = sampling[q]
    BY <2>1 DEF TypeOK
  <2>6. ASSUME NEW q \in Replicas \ {r}, NEW x  PROVE Later(q, x)' = Later(q, x)
    BY <2>1, <2>3 DEF Later, Backlog
  <2>7. ASSUME NEW x  PROVE Cardinality(Later(r, x)') = 0
    <3>1. Later(r, x)' = {}
      BY <2>3 DEF Later, Backlog
    <3> QED BY <3>1, FS_EmptySet
  <2>8. \A c \in Callers : call'[c].pc \notin {"idle", "refused"} => Home[c] \in Replicas \ {r} /\ call'[c] = call[c]
    BY <1>x, <2>2, <2>4
  <2>9. Exclusive'
    BY <2>5, <2>8 DEF Counts, Exclusive, Samples
  <2>10. Reading'
    <3> SUFFICES ASSUME NEW c \in Callers, NEW q, q = Home[c], call'[c].pc \in {"query", "publish"}
                 PROVE  /\ At(c, "query")' => call'[c].counted <= since'[q]
                        /\ At(c, "publish")' =>
                              /\ "sampled" \notin call'[c].todo => sampled'[q] = call'[c].rows
                              /\ Cardinality(Later(q, call[c].rows)')
                                    + (IF "since" \in call'[c].todo THEN call'[c].counted ELSE 0) <= since'[q]
                              /\ call'[c].rows = call[c].rows
      BY DEF Reading, At
    <3>1. q \in Replicas \ {r} /\ call'[c] = call[c]
      BY <2>8
    <3>2. Later(q, call[c].rows)' = Later(q, call[c].rows)
      BY <2>6, <3>1
    <3> QED BY <2>5, <3>1, <3>2 DEF Counts, Reading, At
  <2>11. Covers'
    <3> SUFFICES ASSUME NEW q \in Replicas, ~Publishing(q)', NEW x, x = sampled'[q]
                 PROVE  Cardinality(Later(q, x)') <= since'[q]
      BY DEF Covers
    <3>1. CASE q = r
      BY <2>1, <2>7, <3>1 DEF TypeOK
    <3>2. CASE q # r
      <4>1. ~Publishing(q)
        BY <2>2, <3>2 DEF Publishing, At
      <4>2. x = sampled[q] /\ Later(q, x)' = Later(q, x)
        BY <2>5, <2>6, <3>2
      <4> QED BY <2>5, <3>2, <4>1, <4>2 DEF Counts, Covers
    <3> QED BY <3>1, <3>2
  <2>12. Committed'
    BY <2>1, <2>2, <2>3, <2>4, <2>8 DEF Counts, Committed, At
  <2> QED BY <2>9, <2>10, <2>11, <2>12 DEF Counts
<1>14. ASSUME UNCHANGED vars PROVE Plain
  <2>1. row' = row /\ sampling' = sampling /\ sampled' = sampled /\ since' = since /\ countedBy' = countedBy
        /\ call' = call
    BY <1>14 DEF vars, figureVars
  <2>2. ASSUME NEW r \in Replicas, NEW x  PROVE Later(r, x)' \subseteq Later(r, x)
    BY <2>1 DEF Later, Backlog
  <2> QED BY <2>1, <2>2 DEF Plain, Samples, At, Counts, Exclusive, Committed
<1> QED BY PlainHolds, <1>1, <1>2, <1>3, <1>4, <1>5, <1>6, <1>7, <1>8, <1>9, <1>10, <1>11, <1>12, <1>13, <1>14
        DEF Next, Step

\* A replica's figure never falls short of the rows it read, or counted after their commit,
\* whatever was committed, staged, counted or settled around the sample.
THEOREM FigureSound == Spec => []FigureCovers
<1>1. Init => Counts
  <2> SUFFICES ASSUME Init PROVE Counts
    OBVIOUS
  <2>1. \A c \in Callers : call[c].pc = "idle"
    BY DEF Init, Idle
  <2>2. \A r \in Replicas : \A x : Cardinality(Later(r, x)) = 0
    <3>1. \A r \in Replicas : \A x : Later(r, x) = {}
      BY DEF Init, Later, Backlog
    <3> QED BY <3>1, FS_EmptySet
  <2> QED BY <2>1, <2>2 DEF Init, Counts, Exclusive, Reading, Covers, Committed, Samples, At
<1>2. TypeOK /\ Held /\ Counts /\ [Next]_vars => Counts'
  BY CountsStep
<1>3. TypeOK /\ Counts => FigureCovers
  <2> SUFFICES ASSUME TypeOK, Counts, NEW r \in Replicas, ~Publishing(r)
               PROVE  Cardinality(sampled[r]) + since[r] >= Cardinality(Covered(r))
    BY DEF FigureCovers
  <2> DEFINE L == Later(r, sampled[r])
  <2>1. /\ IsFiniteSet(sampled[r]) /\ Cardinality(sampled[r]) \in Nat /\ since[r] \in Nat
        /\ IsFiniteSet(L) /\ Cardinality(L) \in Nat /\ Cardinality(L) <= since[r]
    BY Sizes, LaterSize DEF TypeOK, Counts, Covers
  <2>2. Covered(r) \subseteq sampled[r] \cup L
    BY DEF Covered, Later
  <2> HIDE DEF L
  <2>3. IsFiniteSet(sampled[r] \cup L) /\ Cardinality(sampled[r] \cup L) <= Cardinality(sampled[r]) + Cardinality(L)
    <3>1. Cardinality(sampled[r] \cap L) \in Nat
      BY <2>1, FS_Subset, FS_CardinalityType
    <3> QED BY <2>1, <3>1, FS_Union
  <2>4. Cardinality(Covered(r)) <= Cardinality(sampled[r] \cup L)
    BY <2>2, <2>3, FS_Subset
  <2>5. Cardinality(Covered(r)) \in Nat /\ Cardinality(sampled[r] \cup L) \in Nat
    BY <2>2, <2>3, FS_Subset, FS_CardinalityType
  <2> QED BY <2>1, <2>3, <2>4, <2>5
<1> QED BY <1>1, <1>2, <1>3, Typed, AlwaysHeld, PTL DEF Spec

=============================================================================
