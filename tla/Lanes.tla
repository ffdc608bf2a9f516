--------------------------------- MODULE Lanes ---------------------------------
(***************************************************************************)
(* Inside one outbound worker: the reader takes the entries of the stream, *)
(* its predecessor's pending ones first, and publishes each to the lane of *)
(* its destination.  A lane is a task behind a bounded channel.  It is     *)
(* spawned by the dispatch that finds none, delivers serially under a      *)
(* ceiling all lanes share, and retires when its channel is empty, while a *)
(* dispatch may hold capacity in that very channel.                        *)
(*                                                                         *)
(* What the ledger and the thread make of a delivery is Outbound's; here a *)
(* delivery only ends, and what matters is which entry, when, and in what  *)
(* order, across shutdowns and crashes of the worker.                      *)
(***************************************************************************)
EXTENDS Integers, Sequences, FiniteSets

CONSTANTS
    Entries,       \* stream ids, in stream order: 1..MaxEntry
    Left,          \* those a predecessor read and did not acknowledge
    Poison,        \* those that do not decode
    Destinations,  \* a provider's workspace each
    Addressings,   \* the ways the entries may be addressed
    Channels,      \* names for the channels of live lanes
    None,          \* no entry, no channel
    LaneDepth,     \* LANE_DEPTH
    InFlight,      \* IN_FLIGHT_DELIVERIES
    MaxTries,      \* DELIVERY_ATTEMPTS
    MaxStops,      \* bound: shutdowns and crashes
    MaxFaults      \* bound: acknowledgements that fail

ASSUME LanesAssumption ==
    /\ Entries \subseteq Nat \ {0} /\ Left \subseteq Entries /\ Poison \subseteq Entries
    /\ \A e \in Left, f \in Entries \ Left : e < f
    /\ Addressings \subseteq [Entries -> Destinations]
    /\ None \notin Entries /\ None \notin Channels
    /\ LaneDepth \in Nat \ {0} /\ InFlight \in Nat \ {0} /\ MaxTries \in Nat \ {0}
    /\ MaxStops \in Nat /\ MaxFaults \in Nat

VARIABLES
    to,         \* the destination of each entry
    faults,     \* failed acknowledgements so far
    stops,      \* shutdowns and crashes so far
    status,     \* the worker: "up", "draining" or "down"
    cancelled,  \* its token
    unread,     \* entries the group has not handed out
    pending,    \* handed out under this consumer's name and not acknowledged
    resuming,   \* whether the reader still walks the pending list
    cursor,     \* pending_cursor: the last pending entry read
    hand,       \* the entry being dispatched
    stage,      \* where its dispatch stands
    sender,     \* the channel the dispatch found
    lanes,      \* the lane map: destination -> channel
    home,       \* channel -> the destination its lane serves, while it runs
    queue,      \* channel -> what it holds
    task,       \* channel -> where its lane stands
    job,        \* channel -> the entry its lane has taken
    tries,      \* channel -> attempts at it that failed
    settled     \* entries delivered, refused or exhausted

streamVars == <<unread, pending, resuming, cursor>>
dispatchVars == <<hand, stage, sender>>
laneVars == <<home, queue, task, job, tries>>
vars == <<to, faults, stops, status, cancelled, streamVars, dispatchVars, lanes, laneVars, settled>>

Init ==
    /\ to \in Addressings
    /\ faults = 0 /\ stops = 0
    /\ status = "up" /\ cancelled = FALSE
    /\ unread = Entries \ Left /\ pending = Left
    /\ resuming = TRUE /\ cursor = 0
    /\ hand = None /\ stage = "idle" /\ sender = None
    /\ lanes = [d \in Destinations |-> None]
    /\ home = [c \in Channels |-> None]
    /\ queue = [c \in Channels |-> <<>>]
    /\ task = [c \in Channels |-> "gone"]
    /\ job = [c \in Channels |-> None]
    /\ tries = [c \in Channels |-> 0]
    /\ settled = {}

Least(S, e) == e \in S /\ \A f \in S : e <= f

-----------------------------------------------------------------------------
(* The reader. *)

\* An acknowledgement, which may fail.
XAck(kept) ==
    \/ pending' = kept /\ UNCHANGED faults
    \/ faults < MaxFaults /\ faults' = faults + 1 /\ UNCHANGED pending

Hand(e) == hand' = e /\ stage' = "look" /\ UNCHANGED sender

Reading == status = "up" /\ ~cancelled /\ stage = "idle"

\* Mutant: the pending list is asked again from its start.
ResumeFromStart(e) ==
    /\ Reading /\ resuming
    /\ Least(pending, e)
    /\ cursor' = e /\ Hand(e)
    /\ UNCHANGED <<faults, pending, resuming>>
    /\ UNCHANGED <<to, stops, status, cancelled, unread, lanes, laneVars, settled>>

\* The next pending entry past the cursor.  One that does not decode is
\* acknowledged and answered as nothing, which ends the walk.
Resume(e) ==
    /\ Reading /\ resuming
    /\ Least({f \in pending : f > cursor}, e)
    /\ IF e \in Poison
       THEN /\ XAck(pending \ {e})
            /\ resuming' = FALSE
            /\ UNCHANGED <<cursor, dispatchVars>>
       ELSE /\ cursor' = e /\ Hand(e)
            /\ UNCHANGED <<faults, pending, resuming>>
    /\ UNCHANGED <<to, stops, status, cancelled, unread, lanes, laneVars, settled>>

\* Nothing is left to resume.
ResumeEnds ==
    /\ Reading /\ resuming
    /\ {f \in pending : f > cursor} = {}
    /\ resuming' = FALSE
    /\ UNCHANGED <<to, faults, stops, status, cancelled, unread, pending, cursor, dispatchVars,
                   lanes, laneVars, settled>>

\* Mutant: new entries are read without finishing the pending ones.
ReadNewEager(e) ==
    /\ Reading /\ Least(unread, e)
    /\ unread' = unread \ {e}
    /\ pending' = pending \cup {e} /\ Hand(e)
    /\ UNCHANGED <<to, faults, stops, status, cancelled, resuming, cursor, lanes, laneVars, settled>>

\* The blocking read: the group hands out its oldest entry.
ReadNew(e) ==
    /\ Reading /\ ~resuming
    /\ Least(unread, e)
    /\ unread' = unread \ {e}
    /\ IF e \in Poison
       THEN /\ \/ UNCHANGED <<pending, faults>>
               \/ faults < MaxFaults /\ faults' = faults + 1 /\ pending' = pending \cup {e}
            /\ UNCHANGED dispatchVars
       ELSE /\ pending' = pending \cup {e} /\ Hand(e)
            /\ UNCHANGED faults
    /\ UNCHANGED <<to, stops, status, cancelled, resuming, cursor, lanes, laneVars, settled>>

-----------------------------------------------------------------------------
(* The dispatch: find or spawn the lane, reserve capacity, publish. *)

Found(d) == /\ lanes[d] # None
            /\ sender' = lanes[d]
            /\ UNCHANGED <<lanes, laneVars>>

\* A new lane, behind a channel nothing refers to any more.
Spawned(d) ==
    \E c \in Channels :
        /\ task[c] = "gone" /\ \A x \in Destinations : lanes[x] # c
        /\ sender' = c
        /\ lanes' = [lanes EXCEPT ![d] = c]
        /\ home' = [home EXCEPT ![c] = d]
        /\ queue' = [queue EXCEPT ![c] = <<>>]
        /\ task' = [task EXCEPT ![c] = "take"]
        /\ UNCHANGED <<job, tries>>

\* Mutant: every dispatch spawns.
LaneForEach ==
    /\ status = "up" /\ stage = "look"
    /\ Spawned(to[hand])
    /\ stage' = "reserve"
    /\ UNCHANGED <<to, faults, stops, status, cancelled, streamVars, hand, settled>>

\* lane_for, under the entry's guard.
LaneFor ==
    /\ status = "up" /\ stage = "look"
    /\ Found(to[hand]) \/ (lanes[to[hand]] = None /\ Spawned(to[hand]))
    /\ stage' = "reserve"
    /\ UNCHANGED <<to, faults, stops, status, cancelled, streamVars, hand, settled>>

\* reserve: the channel has room, or its lane is gone.
Reserve ==
    /\ status = "up" /\ stage = "reserve"
    /\ \/ task[sender] = "gone" /\ stage' = "look" /\ sender' = None
       \/ /\ task[sender] # "gone" /\ Len(queue[sender]) < LaneDepth
          /\ stage' = "publish" /\ UNCHANGED sender
    /\ UNCHANGED <<to, faults, stops, status, cancelled, streamVars, hand, lanes, laneVars, settled>>

\* Mutant: a permit sends although its receiver closed.
PublishUnguarded ==
    /\ status = "up" /\ stage = "publish"
    /\ sender' = None
    /\ queue' = [queue EXCEPT ![sender] = Append(@, hand)]
    /\ hand' = None /\ stage' = "idle"
    /\ UNCHANGED <<to, faults, stops, status, cancelled, streamVars, lanes, home, task, job, tries, settled>>

\* publish, under the entry's guard: only to the channel the map still names.
Publish ==
    /\ status = "up" /\ stage = "publish"
    /\ sender' = None
    /\ IF lanes[to[hand]] = sender
       THEN /\ queue' = [queue EXCEPT ![sender] = Append(@, hand)]
            /\ hand' = None /\ stage' = "idle"
       ELSE /\ stage' = "look"
            /\ UNCHANGED <<queue, hand>>
    /\ UNCHANGED <<to, faults, stops, status, cancelled, streamVars, lanes, home, task, job, tries, settled>>

-----------------------------------------------------------------------------
(* The lane c: take, wait for a permit, deliver, acknowledge. *)

Takes(c) == /\ queue[c] # <<>>
            /\ job' = [job EXCEPT ![c] = Head(queue[c])]
            /\ queue' = [queue EXCEPT ![c] = Tail(queue[c])]
            /\ task' = [task EXCEPT ![c] = "held"]
            /\ UNCHANGED <<lanes, home, tries>>

\* The first look, without the entry's guard.
TakeNext(c) ==
    /\ task[c] = "take"
    /\ \/ Takes(c)
       \/ /\ queue[c] = <<>>
          /\ task' = [task EXCEPT ![c] = "retire"]
          /\ UNCHANGED <<lanes, home, queue, job, tries>>
    /\ UNCHANGED <<to, faults, stops, status, cancelled, streamVars, dispatchVars, settled>>

\* Mutant: the lane retires on its first look.
RetireUnseen(c) ==
    /\ task[c] = "retire"
    /\ task' = [task EXCEPT ![c] = "gone"]
    /\ lanes' = [lanes EXCEPT ![home[c]] = None]
    /\ home' = [home EXCEPT ![c] = None]
    /\ UNCHANGED <<queue, job, tries>>
    /\ UNCHANGED <<to, faults, stops, status, cancelled, streamVars, dispatchVars, settled>>

\* The second look and the removal, under it.
TakeOrRetire(c) ==
    /\ task[c] = "retire"
    /\ \/ lanes[home[c]] = c /\ Takes(c)
       \/ /\ lanes[home[c]] = c => queue[c] = <<>>
          /\ task' = [task EXCEPT ![c] = "gone"]
          /\ lanes' = IF lanes[home[c]] = c THEN [lanes EXCEPT ![home[c]] = None] ELSE lanes
          /\ home' = [home EXCEPT ![c] = None]
          /\ UNCHANGED <<queue, job, tries>>
    /\ UNCHANGED <<to, faults, stops, status, cancelled, streamVars, dispatchVars, settled>>

\* A cancelled lane leaves what it holds to the next process; its map entry stays.
StopLane(c) ==
    /\ task[c] = "held" /\ cancelled
    /\ task' = [task EXCEPT ![c] = "gone"]
    /\ job' = [job EXCEPT ![c] = None]
    /\ queue' = [queue EXCEPT ![c] = <<>>]
    /\ home' = [home EXCEPT ![c] = None]
    /\ UNCHANGED <<to, faults, stops, status, cancelled, streamVars, dispatchVars, lanes, tries, settled>>

Delivering == {c \in Channels : task[c] \in {"post", "pause", "ack"}}

AcquirePermit(c) ==
    /\ task[c] = "held" /\ ~cancelled
    /\ Cardinality(Delivering) < InFlight
    /\ task' = [task EXCEPT ![c] = "post"]
    /\ UNCHANGED <<to, faults, stops, status, cancelled, streamVars, dispatchVars, lanes, home, queue, job, tries, settled>>

\* The attempt ends the cycle: the destination took the answer or refused it, or
\* it was the last attempt.
Concluded(c) ==
    /\ settled' = settled \cup {job[c]}
    /\ task' = [task EXCEPT ![c] = "ack"]
    /\ tries' = [tries EXCEPT ![c] = 0]
    /\ UNCHANGED job

\* It can be retried, and the token lets it: the lane sleeps, whatever the
\* token says by the time it wakes.
PostAgain(c) ==
    /\ tries[c] + 1 < MaxTries /\ ~cancelled
    /\ task' = [task EXCEPT ![c] = "pause"]
    /\ tries' = [tries EXCEPT ![c] = @ + 1]
    /\ UNCHANGED <<job, settled>>

\* Mutant: what is handed back is acknowledged.
HandBackAcked(c) ==
    /\ cancelled
    /\ task' = [task EXCEPT ![c] = "ack"]
    /\ tries' = [tries EXCEPT ![c] = 0]
    /\ UNCHANGED <<job, settled>>

\* It can be retried and the worker is stopping: the entry is handed back.
HandBack(c) ==
    /\ cancelled
    /\ task' = [task EXCEPT ![c] = "take"]
    /\ job' = [job EXCEPT ![c] = None]
    /\ tries' = [tries EXCEPT ![c] = 0]
    /\ UNCHANGED settled

\* One vendor call of deliver_with_retry, and what its verdict leads to.
Post(c) ==
    /\ task[c] = "post"
    /\ Concluded(c) \/ PostAgain(c) \/ HandBack(c)
    /\ UNCHANGED <<to, faults, stops, status, cancelled, streamVars, dispatchVars, lanes, home, queue>>

Wake(c) ==
    /\ task[c] = "pause"
    /\ task' = [task EXCEPT ![c] = "post"]
    /\ UNCHANGED <<to, faults, stops, status, cancelled, streamVars, dispatchVars, lanes, home, queue, job, tries, settled>>

\* The acknowledgement of the job, whatever became of it.
Ack(c) ==
    /\ task[c] = "ack"
    /\ XAck(pending \ {job[c]})
    /\ task' = [task EXCEPT ![c] = "take"]
    /\ job' = [job EXCEPT ![c] = None]
    /\ UNCHANGED <<to, stops, status, cancelled, unread, resuming, cursor, dispatchVars, lanes, home, queue, tries, settled>>

-----------------------------------------------------------------------------
(* The worker: it is cancelled and drains, or it dies, and another starts. *)

Cancel ==
    /\ status = "up" /\ ~cancelled /\ stops < MaxStops
    /\ cancelled' = TRUE /\ stops' = stops + 1
    /\ UNCHANGED <<to, faults, status, streamVars, dispatchVars, lanes, laneVars, settled>>

\* The loop ends: a job in hand is dropped, and an entry the abandoned read was
\* about to get stays pending.
Break ==
    /\ status = "up" /\ cancelled
    /\ status' = "draining"
    /\ hand' = None /\ stage' = "idle" /\ sender' = None
    /\ \/ UNCHANGED <<unread, pending>>
       \/ /\ stage = "idle" /\ ~resuming
          /\ \E e \in unread : /\ Least(unread, e)
                               /\ unread' = unread \ {e} /\ pending' = pending \cup {e}
    /\ UNCHANGED <<to, faults, stops, cancelled, resuming, cursor, lanes, laneVars, settled>>

\* The process ends, and with it everything but the stream and its pending list.
GoDown ==
    /\ status' = "down" /\ cancelled' = FALSE
    /\ resuming' = TRUE /\ cursor' = 0
    /\ hand' = None /\ stage' = "idle" /\ sender' = None
    /\ lanes' = [d \in Destinations |-> None]
    /\ home' = [c \in Channels |-> None]
    /\ queue' = [c \in Channels |-> <<>>]
    /\ task' = [c \in Channels |-> "gone"]
    /\ job' = [c \in Channels |-> None]
    /\ tries' = [c \in Channels |-> 0]
    /\ UNCHANGED <<to, faults, unread, pending, settled>>

\* drain: every lane has stopped.
Exit ==
    /\ status = "draining" /\ \A c \in Channels : task[c] = "gone"
    /\ GoDown /\ UNCHANGED stops

Crash ==
    /\ status # "down" /\ stops < MaxStops
    /\ GoDown /\ stops' = stops + 1

\* Another process starts under the same consumer name.
Start ==
    /\ status = "down" /\ status' = "up"
    /\ UNCHANGED <<to, faults, stops, cancelled, streamVars, dispatchVars, lanes, laneVars, settled>>

-----------------------------------------------------------------------------
Read == ResumeEnds \/ \E e \in Entries : Resume(e) \/ ReadNew(e)

Dispatch == LaneFor \/ Reserve \/ Publish

RunLane(c) == \/ TakeNext(c) \/ TakeOrRetire(c) \/ StopLane(c)
              \/ Post(c) \/ Wake(c) \/ Ack(c)

Next == \/ Read \/ Dispatch \/ Cancel \/ Break \/ Exit \/ Crash \/ Start
        \/ \E c \in Channels : RunLane(c) \/ AcquirePermit(c)

Spec == Init /\ [][Next]_vars

\* The runtime polls every task, the semaphore is first come first served, a
\* vendor call has a deadline, and a worker that went down is started again.
\* A lane spawned empty may retire before its first job is published; it does
\* not win that race for ever, because the dispatch has nothing to wait for.
Fairness ==
    /\ WF_vars(Read) /\ WF_vars(Dispatch) /\ WF_vars(Break) /\ WF_vars(Exit) /\ WF_vars(Start)
    /\ SF_vars(Reserve /\ stage' = "publish") /\ SF_vars(Publish /\ stage' = "idle")
    /\ \A c \in Channels : WF_vars(RunLane(c)) /\ SF_vars(AcquirePermit(c))

LiveSpec == Spec /\ Fairness

-----------------------------------------------------------------------------
(* What must hold. *)

Alive == {c \in Channels : task[c] # "gone"}

\* Every variable keeps its type.
TypeOK ==
    /\ to \in [Entries -> Destinations]
    /\ faults \in 0..MaxFaults /\ stops \in 0..MaxStops
    /\ status \in {"up", "draining", "down"} /\ cancelled \in BOOLEAN
    /\ unread \subseteq Entries /\ pending \subseteq Entries
    /\ resuming \in BOOLEAN /\ cursor \in Entries \cup {0}
    /\ hand \in Entries \cup {None}
    /\ stage \in {"idle", "look", "reserve", "publish"}
    /\ sender \in Channels \cup {None}
    /\ lanes \in [Destinations -> Channels \cup {None}]
    /\ home \in [Channels -> Destinations \cup {None}]
    /\ queue \in [Channels -> Seq(Entries)]
    /\ task \in [Channels -> {"gone", "take", "retire", "held", "post", "pause", "ack"}]
    /\ job \in [Channels -> Entries \cup {None}]
    /\ tries \in [Channels -> 0..MaxTries]
    /\ settled \subseteq Entries

\* A destination has one lane at a time, whichever of a dispatch and a
\* retirement comes first: its deliveries never overlap.
OneLaneEach == \A c, x \in Alive : home[c] = home[x] => c = x

\* Until the worker is told to stop, an entry in a channel has a lane that will
\* take it: publication and retirement never cross.
NothingStranded ==
    status = "up" /\ ~cancelled =>
        \A c \in Channels : queue[c] # <<>> => task[c] # "gone"

\* An entry is in one place at a time: the reader never hands out what a lane of
\* this process still holds.
InOnePlace ==
    \A e \in Entries : \A c \in Channels :
        /\ job[c] = e \/ (\E i \in DOMAIN queue[c] : queue[c][i] = e) => hand # e
        /\ \A x \in Channels : \A i \in DOMAIN queue[x] :
              queue[x][i] = e => /\ job[c] # e
                                 /\ \A k \in DOMAIN queue[c] : queue[c][k] = e => c = x /\ k = i
        /\ \A x \in Channels : job[c] = e /\ job[x] = e => c = x

\* Two answers for one destination end in the order they were queued, across
\* lanes that retire, handed-back entries, shutdowns and crashes.
InOrder ==
    \A e \in settled, f \in Entries \ Poison : f < e /\ to[f] = to[e] => f \in settled

\* An entry leaves the pending list only once it was delivered or given up on.
AckedWasSettled == \A e \in Entries \ (Poison \cup unread \cup pending) : e \in settled

\* What each destination is still owed.
Owed == [d \in Destinations |-> {e \in Entries \ (Poison \cup settled) : to[e] = d}]

Ordered == INSTANCE OrderedDelivery WITH owed <- Owed

\* Seen from the destinations, the worker is OrderedDelivery: each step ends the
\* oldest entry owed to one destination, or nothing.
DeliversInOrder == Ordered!Spec

\* Every entry that decodes ends, even when its destination is slow, another's
\* lane is full, and the worker stops or dies on the way.
EveryEntryEnds == <>(Entries \ Poison \subseteq settled)

=============================================================================
