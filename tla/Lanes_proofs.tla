----------------------------- MODULE Lanes_proofs -----------------------------
(***************************************************************************)
(* Proofs about Lanes for every number of entries, destinations, channels, *)
(* stops and failed acknowledgements, every depth and every ceiling: one   *)
(* lane a destination, and, when every entry decodes, deliveries that end  *)
(* in the order they were queued, which is OrderedDelivery.                *)
(*                                                                         *)
(* The argument: what a worker may still deliver lies in one line, the     *)
(* lanes before the hand, the hand before the rest of the pending list,    *)
(* that before the unread stream.  While the worker is not cancelled every *)
(* entry that has not ended is in that line, so the job a lane starts on   *)
(* is the oldest its destination is owed; a cancelled worker starts none.  *)
(***************************************************************************)
EXTENDS Lanes, SequenceTheorems, TLAPS

-----------------------------------------------------------------------------
(* One lane a destination. *)

\* The map names every running lane, under its own destination.
Mapped ==
    /\ \A c \in Channels : task[c] # "gone" => home[c] \in Destinations /\ lanes[home[c]] = c
    /\ \A d \in Destinations : lanes[d] # None /\ task[lanes[d]] # "gone" => home[lanes[d]] = d

\* A lane that stopped on its own left the map; only a cancelled one stays in it.
Swept ==
    /\ status = "draining" => cancelled
    /\ ~cancelled => \A d \in Destinations : lanes[d] # None => task[lanes[d]] # "gone"

\* A lane past its take has a job, no other has one, and a dispatch has an entry.
Employed ==
    /\ \A c \in Channels : job[c] # None <=> task[c] \in {"held", "post", "pause", "ack"}
    /\ stage # "idle" <=> hand # None
    /\ stage \in {"reserve", "publish"} => sender # None

\* Until the worker is cancelled, a lane leaves an empty channel.
Emptied == ~cancelled => \A c \in Channels : task[c] = "gone" => queue[c] = <<>>

Shape == TypeOK /\ Mapped /\ Swept /\ Employed /\ Emptied

-----------------------------------------------------------------------------
(* The line, whatever the entries decode to. *)

\* What channel c has: its lane's job and its queue.
Has(c, e) == job[c] = e \/ \E i \in DOMAIN queue[c] : queue[c][i] = e

\* It is addressed to the destination the map names the channel for.
Addressed == \A e \in Entries, c \in Channels : Has(c, e) => lanes[to[e]] = c

\* The stream hands out its entries in order.
Suffix ==
    /\ \A e \in unread, f \in Entries \ unread : f < e
    /\ \A e \in pending : e \notin unread

\* A lane keeps that order.
Ascending ==
    \A c \in Channels :
        /\ \A i, k \in DOMAIN queue[c] : i < k => queue[c][i] < queue[c][k]
        /\ job[c] # None => \A i \in DOMAIN queue[c] : job[c] < queue[c][i]

\* The lanes come before the hand, and both before what was not read.
Before ==
    /\ \A e \in Entries, c \in Channels :
          Has(c, e) => /\ e \notin unread
                       /\ hand # None => e < hand
                       /\ resuming => e <= cursor
    /\ hand # None => hand \notin unread /\ (resuming => hand = cursor)

\* A lane acknowledges what ended.
Ended == \A c \in Channels : task[c] = "ack" => job[c] \in settled

Line == Addressed /\ Suffix /\ Ascending /\ Before /\ Ended /\ AckedWasSettled

-----------------------------------------------------------------------------
(* The order of the deliveries, when every entry decodes. *)

\* What the reader will still hand out.
Ahead(e) == e \in unread \/ (resuming /\ e \in pending /\ e > cursor)

\* While the worker is not cancelled, what did not end is in the line.
Covered ==
    ~cancelled =>
        \A e \in Entries \ settled :
            Ahead(e) \/ hand = e \/ (lanes[to[e]] # None /\ Has(lanes[to[e]], e))

\* The job a lane delivers is the oldest its destination is owed.
Oldest ==
    \A c \in Channels : task[c] \in {"post", "pause"} =>
        \A f \in Entries : f < job[c] /\ to[f] = to[job[c]] => f \in settled

Order == Covered /\ Oldest /\ InOrder

-----------------------------------------------------------------------------
(* Each step keeps the shape of the lane map, whatever the entries decode to. *)

LEMMA ResumeEndsShape ==
    ASSUME Shape, ResumeEnds
    PROVE  Shape'
<1>1. TypeOK'
  BY LanesAssumption DEF Shape, TypeOK, ResumeEnds, Reading, dispatchVars, laneVars
<1>2. Mapped'
  BY LanesAssumption DEF Shape, TypeOK, Mapped, ResumeEnds, Reading, dispatchVars, laneVars
<1>3. Swept'
  BY LanesAssumption DEF Shape, TypeOK, Mapped, Swept, ResumeEnds, Reading, dispatchVars, laneVars
<1>4. Employed'
  BY LanesAssumption DEF Shape, TypeOK, Employed, ResumeEnds, Reading, dispatchVars, laneVars
<1>5. Emptied'
  BY LanesAssumption DEF Shape, TypeOK, Mapped, Swept, Emptied, ResumeEnds, Reading, dispatchVars, laneVars
<1> QED BY <1>1, <1>2, <1>3, <1>4, <1>5 DEF Shape

LEMMA ResumeShape ==
    ASSUME Shape, NEW e \in Entries, Resume(e)
    PROVE  Shape'
<1>1. TypeOK'
  <2>1. e \in Entries /\ cursor' \in Entries \cup {0} /\ pending' \subseteq Entries /\ resuming' \in BOOLEAN
    BY DEF Shape, TypeOK, Resume, XAck
  <2>2. faults' \in 0..MaxFaults
    <3>1. faults' = faults \/ (faults < MaxFaults /\ faults' = faults + 1)
      BY DEF Resume, XAck
    <3> QED BY <3>1, LanesAssumption DEF Shape, TypeOK
  <2>3. hand' \in Entries \cup {None} /\ stage' \in {"idle", "look", "reserve", "publish"} /\ sender' \in Channels \cup {None}
    BY DEF Shape, TypeOK, Resume, Hand, dispatchVars
  <2> QED BY <2>1, <2>2, <2>3 DEF Shape, TypeOK, Resume, laneVars
<1>2. Mapped'
  BY LanesAssumption DEF Shape, TypeOK, Mapped, Resume, Reading, Least, Hand, XAck, dispatchVars, laneVars
<1>3. Swept'
  BY LanesAssumption DEF Shape, TypeOK, Mapped, Swept, Resume, Reading, Least, Hand, XAck, dispatchVars, laneVars
<1>4. Employed'
  BY LanesAssumption DEF Shape, TypeOK, Employed, Resume, Reading, Least, Hand, XAck, dispatchVars, laneVars
<1>5. Emptied'
  BY LanesAssumption DEF Shape, TypeOK, Mapped, Swept, Emptied, Resume, Reading, Least, Hand, XAck, dispatchVars, laneVars
<1> QED BY <1>1, <1>2, <1>3, <1>4, <1>5 DEF Shape

LEMMA ReadNewShape ==
    ASSUME Shape, NEW e \in Entries, ReadNew(e)
    PROVE  Shape'
<1>1. TypeOK'
  <2>1. unread' \subseteq Entries /\ pending' \subseteq Entries
    BY DEF Shape, TypeOK, ReadNew
  <2>2. faults' \in 0..MaxFaults
    BY LanesAssumption DEF Shape, TypeOK, ReadNew
  <2>3. hand' \in Entries \cup {None} /\ stage' \in {"idle", "look", "reserve", "publish"} /\ sender' \in Channels \cup {None}
    BY DEF Shape, TypeOK, ReadNew, Hand, dispatchVars
  <2> QED BY <2>1, <2>2, <2>3 DEF Shape, TypeOK, ReadNew, laneVars
<1>2. Mapped'
  BY LanesAssumption DEF Shape, TypeOK, Mapped, ReadNew, Reading, Least, Hand, dispatchVars, laneVars
<1>3. Swept'
  BY LanesAssumption DEF Shape, TypeOK, Mapped, Swept, ReadNew, Reading, Least, Hand, dispatchVars, laneVars
<1>4. Employed'
  BY LanesAssumption DEF Shape, TypeOK, Employed, ReadNew, Reading, Least, Hand, dispatchVars, laneVars
<1>5. Emptied'
  BY LanesAssumption DEF Shape, TypeOK, Mapped, Swept, Emptied, ReadNew, Reading, Least, Hand, dispatchVars, laneVars
<1> QED BY <1>1, <1>2, <1>3, <1>4, <1>5 DEF Shape

LEMMA LaneForShape ==
    ASSUME Shape, LaneFor
    PROVE  Shape'
<1> DEFINE d == to[hand]
<1>0. /\ hand \in Entries /\ d \in Destinations /\ stage = "look" /\ stage' = "reserve"
      /\ UNCHANGED <<to, faults, stops, status, cancelled, unread, pending, resuming, cursor, hand, settled>>
  BY DEF Shape, TypeOK, Employed, LaneFor, streamVars
<1>1. CASE Found(d)
  <2>1. /\ sender' \in Channels /\ sender' # None
        /\ UNCHANGED <<lanes, home, queue, task, job, tries>>
    BY <1>0, <1>1 DEF Shape, TypeOK, Found, laneVars
  <2>2. TypeOK'
    BY <1>0, <2>1 DEF Shape, TypeOK
  <2> QED BY <1>0, <2>1, <2>2 DEF Shape, Mapped, Swept, Employed, Emptied
<1>2. CASE lanes[d] = None /\ Spawned(d)
  <2>1. PICK c \in Channels :
           /\ task[c] = "gone" /\ \A x \in Destinations : lanes[x] # c
           /\ sender' = c
           /\ lanes' = [lanes EXCEPT ![d] = c]
           /\ home' = [home EXCEPT ![c] = d]
           /\ queue' = [queue EXCEPT ![c] = <<>>]
           /\ task' = [task EXCEPT ![c] = "take"]
           /\ UNCHANGED <<job, tries>>
    BY <1>2 DEF Spawned
  <2>2. c # None
    BY LanesAssumption
  <2>3. << >> \in Seq(Entries)
    BY EmptySeq
  <2>4. queue' \in [Channels -> Seq(Entries)]
    BY <2>1, <2>3 DEF Shape, TypeOK
  <2>5. TypeOK'
    BY <1>0, <2>1, <2>4 DEF Shape, TypeOK
  <2>6. Mapped'
    <3>1. ASSUME NEW x \in Channels, task'[x] # "gone"
          PROVE  home'[x] \in Destinations /\ lanes'[home'[x]] = x
      <4>1. CASE x = c
        BY <1>0, <2>1, <4>1 DEF Shape, TypeOK
      <4>2. CASE x # c
        <5>1. home'[x] = home[x] /\ home[x] \in Destinations /\ lanes[home[x]] = x
          BY <2>1, <3>1, <4>2 DEF Shape, TypeOK, Mapped
        <5>2. x # None
          BY LanesAssumption
        <5> QED BY <1>2, <2>1, <5>1, <5>2 DEF Shape, TypeOK
      <4> QED BY <4>1, <4>2
    <3>2. ASSUME NEW x \in Destinations, lanes'[x] # None, task'[lanes'[x]] # "gone"
          PROVE  home'[lanes'[x]] = x
      <4>1. CASE x = d
        BY <1>0, <2>1, <4>1 DEF Shape, TypeOK
      <4>2. CASE x # d
        <5>1. lanes'[x] = lanes[x] /\ lanes[x] # c /\ lanes[x] \in Channels
          BY <1>0, <2>1, <3>2, <4>2 DEF Shape, TypeOK
        <5> QED BY <2>1, <3>2, <5>1 DEF Shape, TypeOK, Mapped
      <4> QED BY <4>1, <4>2
    <3> QED BY <3>1, <3>2 DEF Mapped
  <2>7. Swept'
    BY <1>0, <2>1, <2>2 DEF Shape, TypeOK, Swept
  <2>8. Employed'
    BY <1>0, <2>1, <2>2 DEF Shape, TypeOK, Employed
  <2>9. Emptied'
    BY <1>0, <2>1 DEF Shape, TypeOK, Emptied
  <2> QED BY <2>5, <2>6, <2>7, <2>8, <2>9 DEF Shape
<1> QED BY <1>1, <1>2 DEF LaneFor

LEMMA ReserveShape ==
    ASSUME Shape, Reserve
    PROVE  Shape'
<1>1. TypeOK'
  BY LanesAssumption DEF Shape, TypeOK, Reserve, streamVars, laneVars
<1>2. Mapped'
  BY LanesAssumption DEF Shape, TypeOK, Mapped, Reserve, streamVars, laneVars
<1>3. Swept'
  BY LanesAssumption DEF Shape, TypeOK, Mapped, Swept, Reserve, streamVars, laneVars
<1>4. Employed'
  BY LanesAssumption DEF Shape, TypeOK, Employed, Reserve, streamVars, laneVars
<1>5. Emptied'
  BY LanesAssumption DEF Shape, TypeOK, Mapped, Swept, Emptied, Reserve, streamVars, laneVars
<1> QED BY <1>1, <1>2, <1>3, <1>4, <1>5 DEF Shape

LEMMA PublishShape ==
    ASSUME Shape, Publish
    PROVE  Shape'
<1>1. TypeOK'
  <2>1. sender \in Channels /\ hand \in Entries
    BY DEF Shape, TypeOK, Employed, Publish
  <2>2. queue' \in [Channels -> Seq(Entries)]
    <3>1. queue \in [Channels -> Seq(Entries)] /\ Append(queue[sender], hand) \in Seq(Entries)
      BY <2>1, AppendProperties DEF Shape, TypeOK
    <3>2. queue' = queue \/ queue' = [queue EXCEPT ![sender] = Append(queue[sender], hand)]
      BY <3>1, <2>1 DEF Publish
    <3> QED BY <2>1, <3>1, <3>2
  <2>3. hand' \in Entries \cup {None} /\ stage' \in {"idle", "look", "reserve", "publish"} /\ sender' \in Channels \cup {None}
    BY DEF Shape, TypeOK, Publish
  <2> QED BY <2>2, <2>3 DEF Shape, TypeOK, Publish, streamVars
<1>2. Mapped'
  BY LanesAssumption DEF Shape, TypeOK, Mapped, Publish, streamVars
<1>3. Swept'
  BY LanesAssumption DEF Shape, TypeOK, Mapped, Swept, Publish, streamVars
<1>4. Employed'
  BY LanesAssumption DEF Shape, TypeOK, Employed, Publish, streamVars
<1>5. Emptied'
  <2>1. ~cancelled' /\ lanes[to[hand]] = sender => task[sender] # "gone"
    BY LanesAssumption DEF Shape, TypeOK, Swept, Employed, Publish
  <2>2. \A c \in Channels : c # sender \/ lanes[to[hand]] # sender => queue'[c] = queue[c]
    BY DEF Shape, TypeOK, Publish
  <2> QED BY <2>1, <2>2 DEF Shape, Emptied, Publish
<1> QED BY <1>1, <1>2, <1>3, <1>4, <1>5 DEF Shape

\* Taking the oldest entry of a channel keeps the types, and gives an entry.
LEMMA TakesType ==
    ASSUME TypeOK, NEW c \in Channels, Takes(c)
    PROVE  /\ Head(queue[c]) \in Entries /\ job'[c] = Head(queue[c])
           /\ job' \in [Channels -> Entries \cup {None}]
           /\ queue' \in [Channels -> Seq(Entries)]
           /\ task' \in [Channels -> {"gone", "take", "retire", "held", "post", "pause", "ack"}]
<1>1. queue \in [Channels -> Seq(Entries)] /\ queue[c] # << >>
  BY DEF TypeOK, Takes
<1>2. Head(queue[c]) \in Entries /\ Tail(queue[c]) \in Seq(Entries)
  BY <1>1, HeadTailProperties
<1> QED BY <1>1, <1>2 DEF TypeOK, Takes

LEMMA TakeNextShape ==
    ASSUME Shape, NEW c \in Channels, TakeNext(c)
    PROVE  Shape'
<1>1. TypeOK'
  <2>1. /\ job' \in [Channels -> Entries \cup {None}]
        /\ queue' \in [Channels -> Seq(Entries)]
        /\ task' \in [Channels -> {"gone", "take", "retire", "held", "post", "pause", "ack"}]
    BY TakesType DEF Shape, TypeOK, TakeNext
  <2> QED BY <2>1 DEF Shape, TypeOK, TakeNext, Takes, streamVars, dispatchVars
<1>2. Mapped'
  BY LanesAssumption DEF Shape, TypeOK, Mapped, TakeNext, Takes, streamVars, dispatchVars
<1>3. Swept'
  BY LanesAssumption DEF Shape, TypeOK, Mapped, Swept, TakeNext, Takes, streamVars, dispatchVars
<1>4. Employed'
  <2>1. CASE Takes(c)
    <3>1. job'[c] # None
      BY <2>1, TakesType, LanesAssumption DEF Shape
    <3> QED BY <2>1, <3>1 DEF Shape, TypeOK, Employed, TakeNext, Takes, streamVars, dispatchVars
  <2>2. CASE ~Takes(c)
    BY <2>2 DEF Shape, TypeOK, Employed, TakeNext, streamVars, dispatchVars
  <2> QED BY <2>1, <2>2
<1>5. Emptied'
  BY LanesAssumption DEF Shape, TypeOK, Mapped, Swept, Emptied, TakeNext, Takes, streamVars, dispatchVars
<1> QED BY <1>1, <1>2, <1>3, <1>4, <1>5 DEF Shape

LEMMA TakeOrRetireShape ==
    ASSUME Shape, NEW c \in Channels, TakeOrRetire(c)
    PROVE  Shape'
<1>1. TypeOK'
  <2>1. /\ job' \in [Channels -> Entries \cup {None}]
        /\ queue' \in [Channels -> Seq(Entries)]
        /\ task' \in [Channels -> {"gone", "take", "retire", "held", "post", "pause", "ack"}]
    BY TakesType DEF Shape, TypeOK, TakeOrRetire
  <2>2. lanes' \in [Destinations -> Channels \cup {None}] /\ home' \in [Channels -> Destinations \cup {None}]
    BY DEF Shape, TypeOK, Mapped, TakeOrRetire, Takes
  <2> QED BY <2>1, <2>2 DEF Shape, TypeOK, TakeOrRetire, Takes, streamVars, dispatchVars
<1>2. Mapped'
  <2>0. /\ home[c] \in Destinations /\ lanes[home[c]] = c
        /\ \A x \in Channels \ {c} : task[x] # "gone" => home[x] # home[c]
    BY DEF Shape, TypeOK, Mapped, TakeOrRetire
  <2>1. CASE Takes(c)
    BY <2>1 DEF Shape, TypeOK, Mapped, TakeOrRetire, Takes, streamVars
  <2>2. CASE /\ queue[c] = <<>> /\ task' = [task EXCEPT ![c] = "gone"]
             /\ lanes' = [lanes EXCEPT ![home[c]] = None] /\ home' = [home EXCEPT ![c] = None]
             /\ UNCHANGED <<queue, status, cancelled>>
    BY <2>0, <2>2, LanesAssumption DEF Shape, TypeOK, Mapped, TakeOrRetire
  <2> QED BY <2>0, <2>1, <2>2 DEF TakeOrRetire
<1>3. Swept'
  <2>0. /\ home[c] \in Destinations /\ lanes[home[c]] = c
        /\ \A x \in Channels \ {c} : task[x] # "gone" => home[x] # home[c]
    BY DEF Shape, TypeOK, Mapped, TakeOrRetire
  <2>1. CASE Takes(c)
    BY <2>1 DEF Shape, TypeOK, Swept, TakeOrRetire, Takes, streamVars
  <2>2. CASE /\ queue[c] = <<>> /\ task' = [task EXCEPT ![c] = "gone"]
             /\ lanes' = [lanes EXCEPT ![home[c]] = None] /\ home' = [home EXCEPT ![c] = None]
             /\ UNCHANGED <<queue, status, cancelled>>
    BY <2>0, <2>2, LanesAssumption DEF Shape, TypeOK, Mapped, Swept, TakeOrRetire
  <2> QED BY <2>0, <2>1, <2>2 DEF TakeOrRetire
<1>4. Employed'
  <2>1. CASE Takes(c)
    <3>1. job'[c] # None
      BY <2>1, TakesType, LanesAssumption DEF Shape
    <3> QED BY <2>1, <3>1 DEF Shape, TypeOK, Employed, TakeOrRetire, Takes, streamVars, dispatchVars
  <2>2. CASE ~Takes(c)
    BY <2>2 DEF Shape, TypeOK, Employed, TakeOrRetire, streamVars, dispatchVars
  <2> QED BY <2>1, <2>2
<1>5. Emptied'
  BY LanesAssumption DEF Shape, TypeOK, Mapped, Swept, Emptied, TakeOrRetire, Takes, streamVars, dispatchVars
<1> QED BY <1>1, <1>2, <1>3, <1>4, <1>5 DEF Shape

LEMMA StopLaneShape ==
    ASSUME Shape, NEW c \in Channels, StopLane(c)
    PROVE  Shape'
<1>1. TypeOK'
  BY LanesAssumption DEF Shape, TypeOK, StopLane, streamVars, dispatchVars
<1>2. Mapped'
  BY LanesAssumption DEF Shape, TypeOK, Mapped, StopLane, streamVars, dispatchVars
<1>3. Swept'
  BY LanesAssumption DEF Shape, TypeOK, Mapped, Swept, StopLane, streamVars, dispatchVars
<1>4. Employed'
  BY LanesAssumption DEF Shape, TypeOK, Employed, StopLane, streamVars, dispatchVars
<1>5. Emptied'
  BY LanesAssumption DEF Shape, TypeOK, Mapped, Swept, Emptied, StopLane, streamVars, dispatchVars
<1> QED BY <1>1, <1>2, <1>3, <1>4, <1>5 DEF Shape

LEMMA AcquirePermitShape ==
    ASSUME Shape, NEW c \in Channels, AcquirePermit(c)
    PROVE  Shape'
<1>1. TypeOK'
  BY LanesAssumption DEF Shape, TypeOK, AcquirePermit, streamVars, dispatchVars
<1>2. Mapped'
  BY LanesAssumption DEF Shape, TypeOK, Mapped, AcquirePermit, streamVars, dispatchVars
<1>3. Swept'
  BY LanesAssumption DEF Shape, TypeOK, Mapped, Swept, AcquirePermit, streamVars, dispatchVars
<1>4. Employed'
  BY LanesAssumption DEF Shape, TypeOK, Employed, AcquirePermit, streamVars, dispatchVars
<1>5. Emptied'
  BY LanesAssumption DEF Shape, TypeOK, Mapped, Swept, Emptied, AcquirePermit, streamVars, dispatchVars
<1> QED BY <1>1, <1>2, <1>3, <1>4, <1>5 DEF Shape

LEMMA PostShape ==
    ASSUME Shape, NEW c \in Channels, Post(c)
    PROVE  Shape'
<1>1. TypeOK'
  <2>1. /\ task' \in [Channels -> {"gone", "take", "retire", "held", "post", "pause", "ack"}]
        /\ job' \in [Channels -> Entries \cup {None}]
    BY DEF Shape, TypeOK, Post, Concluded, PostAgain, HandBack
  <2>2. tries' \in [Channels -> 0..MaxTries]
    <3>1. tries \in [Channels -> 0..MaxTries] /\ MaxTries \in Nat
      BY LanesAssumption DEF Shape, TypeOK
    <3>2. tries' = [tries EXCEPT ![c] = 0] \/ (tries[c] + 1 < MaxTries /\ tries' = [tries EXCEPT ![c] = @ + 1])
      BY DEF Post, Concluded, PostAgain, HandBack
    <3> QED BY <3>1, <3>2
  <2>3. job[c] \in Entries
    BY DEF Shape, TypeOK, Employed, Post
  <2>4. settled' \subseteq Entries
    BY <2>3 DEF Shape, TypeOK, Post, Concluded, PostAgain, HandBack
  <2> QED BY <2>1, <2>2, <2>4 DEF Shape, TypeOK, Post, streamVars, dispatchVars
<1>2. Mapped'
  BY LanesAssumption DEF Shape, TypeOK, Mapped, Post, Concluded, PostAgain, HandBack, streamVars, dispatchVars
<1>3. Swept'
  BY LanesAssumption DEF Shape, TypeOK, Mapped, Swept, Post, Concluded, PostAgain, HandBack, streamVars, dispatchVars
<1>4. Employed'
  BY LanesAssumption DEF Shape, TypeOK, Employed, Post, Concluded, PostAgain, HandBack, streamVars, dispatchVars
<1>5. Emptied'
  BY LanesAssumption DEF Shape, TypeOK, Mapped, Swept, Emptied, Post, Concluded, PostAgain, HandBack, streamVars, dispatchVars
<1> QED BY <1>1, <1>2, <1>3, <1>4, <1>5 DEF Shape

LEMMA WakeShape ==
    ASSUME Shape, NEW c \in Channels, Wake(c)
    PROVE  Shape'
<1>1. TypeOK'
  BY LanesAssumption DEF Shape, TypeOK, Wake, streamVars, dispatchVars
<1>2. Mapped'
  BY LanesAssumption DEF Shape, TypeOK, Mapped, Wake, streamVars, dispatchVars
<1>3. Swept'
  BY LanesAssumption DEF Shape, TypeOK, Mapped, Swept, Wake, streamVars, dispatchVars
<1>4. Employed'
  BY LanesAssumption DEF Shape, TypeOK, Employed, Wake, streamVars, dispatchVars
<1>5. Emptied'
  BY LanesAssumption DEF Shape, TypeOK, Mapped, Swept, Emptied, Wake, streamVars, dispatchVars
<1> QED BY <1>1, <1>2, <1>3, <1>4, <1>5 DEF Shape

LEMMA AckShape ==
    ASSUME Shape, NEW c \in Channels, Ack(c)
    PROVE  Shape'
<1>1. TypeOK'
  <2>1. pending' \subseteq Entries
    BY DEF Shape, TypeOK, Ack, XAck
  <2>2. faults' \in 0..MaxFaults
    BY LanesAssumption DEF Shape, TypeOK, Ack, XAck
  <2>3. /\ task' \in [Channels -> {"gone", "take", "retire", "held", "post", "pause", "ack"}]
        /\ job' \in [Channels -> Entries \cup {None}]
    BY DEF Shape, TypeOK, Ack
  <2> QED BY <2>1, <2>2, <2>3 DEF Shape, TypeOK, Ack, dispatchVars
<1>2. Mapped'
  BY LanesAssumption DEF Shape, TypeOK, Mapped, Ack, XAck, dispatchVars
<1>3. Swept'
  BY LanesAssumption DEF Shape, TypeOK, Mapped, Swept, Ack, XAck, dispatchVars
<1>4. Employed'
  BY LanesAssumption DEF Shape, TypeOK, Employed, Ack, XAck, dispatchVars
<1>5. Emptied'
  BY LanesAssumption DEF Shape, TypeOK, Mapped, Swept, Emptied, Ack, XAck, dispatchVars
<1> QED BY <1>1, <1>2, <1>3, <1>4, <1>5 DEF Shape

LEMMA CancelShape ==
    ASSUME Shape, Cancel
    PROVE  Shape'
<1>1. TypeOK'
  BY LanesAssumption DEF Shape, TypeOK, Cancel, streamVars, dispatchVars, laneVars
<1>2. Mapped'
  BY LanesAssumption DEF Shape, TypeOK, Mapped, Cancel, streamVars, dispatchVars, laneVars
<1>3. Swept'
  BY LanesAssumption DEF Shape, TypeOK, Mapped, Swept, Cancel, streamVars, dispatchVars, laneVars
<1>4. Employed'
  BY LanesAssumption DEF Shape, TypeOK, Employed, Cancel, streamVars, dispatchVars, laneVars
<1>5. Emptied'
  BY LanesAssumption DEF Shape, TypeOK, Mapped, Swept, Emptied, Cancel, streamVars, dispatchVars, laneVars
<1> QED BY <1>1, <1>2, <1>3, <1>4, <1>5 DEF Shape

LEMMA BreakShape ==
    ASSUME Shape, Break
    PROVE  Shape'
<1>1. TypeOK'
  BY LanesAssumption DEF Shape, TypeOK, Break, Least, laneVars
<1>2. Mapped'
  BY LanesAssumption DEF Shape, TypeOK, Mapped, Break, Least, laneVars
<1>3. Swept'
  BY LanesAssumption DEF Shape, TypeOK, Mapped, Swept, Break, Least, laneVars
<1>4. Employed'
  BY LanesAssumption DEF Shape, TypeOK, Employed, Break, Least, laneVars
<1>5. Emptied'
  BY LanesAssumption DEF Shape, TypeOK, Mapped, Swept, Emptied, Break, Least, laneVars
<1> QED BY <1>1, <1>2, <1>3, <1>4, <1>5 DEF Shape

LEMMA GoDownShape ==
    ASSUME Shape, GoDown, stops' \in 0..MaxStops
    PROVE  Shape'
<1>1. TypeOK'
  <2>1. /\ queue' \in [Channels -> Seq(Entries)]
        /\ lanes' \in [Destinations -> Channels \cup {None}]
        /\ home' \in [Channels -> Destinations \cup {None}]
        /\ task' \in [Channels -> {"gone", "take", "retire", "held", "post", "pause", "ack"}]
        /\ job' \in [Channels -> Entries \cup {None}]
    <3>1. << >> \in Seq(Entries)
      BY EmptySeq
    <3> QED BY <3>1 DEF GoDown
  <2>2. tries' \in [Channels -> 0..MaxTries]
    BY LanesAssumption DEF GoDown
  <2>3. /\ status' \in {"up", "draining", "down"} /\ cancelled' \in BOOLEAN
        /\ resuming' \in BOOLEAN /\ cursor' \in Entries \cup {0} /\ hand' \in Entries \cup {None}
        /\ stage' \in {"idle", "look", "reserve", "publish"} /\ sender' \in Channels \cup {None}
        /\ UNCHANGED <<to, faults, unread, pending, settled>>
    BY DEF GoDown
  <2> QED BY <2>1, <2>2, <2>3 DEF Shape, TypeOK
<1>2. Mapped'
  BY LanesAssumption DEF Shape, TypeOK, Mapped, GoDown
<1>3. Swept'
  BY LanesAssumption DEF Shape, TypeOK, Mapped, Swept, GoDown
<1>4. Employed'
  BY LanesAssumption DEF Shape, TypeOK, Employed, GoDown
<1>5. Emptied'
  BY LanesAssumption DEF Shape, TypeOK, Mapped, Swept, Emptied, GoDown
<1> QED BY <1>1, <1>2, <1>3, <1>4, <1>5 DEF Shape

LEMMA StartShape ==
    ASSUME Shape, Start
    PROVE  Shape'
<1>1. TypeOK'
  BY LanesAssumption DEF Shape, TypeOK, Start, streamVars, dispatchVars, laneVars
<1>2. Mapped'
  BY LanesAssumption DEF Shape, TypeOK, Mapped, Start, streamVars, dispatchVars, laneVars
<1>3. Swept'
  BY LanesAssumption DEF Shape, TypeOK, Mapped, Swept, Start, streamVars, dispatchVars, laneVars
<1>4. Employed'
  BY LanesAssumption DEF Shape, TypeOK, Employed, Start, streamVars, dispatchVars, laneVars
<1>5. Emptied'
  BY LanesAssumption DEF Shape, TypeOK, Mapped, Swept, Emptied, Start, streamVars, dispatchVars, laneVars
<1> QED BY <1>1, <1>2, <1>3, <1>4, <1>5 DEF Shape

LEMMA ShapeHolds == Spec => []Shape
<1>1. Init => Shape
  <2> SUFFICES ASSUME Init PROVE Shape
    OBVIOUS
  <2>1. TypeOK
    <3>1. << >> \in Seq(Entries)
      BY EmptySeq
    <3>2. queue \in [Channels -> Seq(Entries)]
      BY <3>1 DEF Init
    <3>3. to \in [Entries -> Destinations]
      BY LanesAssumption DEF Init
    <3>4. faults \in 0..MaxFaults /\ stops \in 0..MaxStops /\ tries \in [Channels -> 0..MaxTries]
      BY LanesAssumption DEF Init
    <3>5. /\ lanes \in [Destinations -> Channels \cup {None}]
          /\ home \in [Channels -> Destinations \cup {None}]
          /\ task \in [Channels -> {"gone", "take", "retire", "held", "post", "pause", "ack"}]
          /\ job \in [Channels -> Entries \cup {None}]
      BY DEF Init
    <3>6. unread \subseteq Entries /\ pending \subseteq Entries
      BY LanesAssumption DEF Init
    <3> QED BY <3>2, <3>3, <3>4, <3>5, <3>6 DEF Init, TypeOK
  <2>2. Mapped /\ Swept /\ Employed /\ Emptied
    BY DEF Init, Mapped, Swept, Employed, Emptied
  <2> QED BY <2>1, <2>2 DEF Shape
<1>2. Shape /\ [Next]_vars => Shape'
  <2> SUFFICES ASSUME Shape, [Next]_vars PROVE Shape'
    OBVIOUS
  <2>1. CASE Read
    BY <2>1, ResumeEndsShape, ResumeShape, ReadNewShape DEF Read
  <2>2. CASE Dispatch
    BY <2>2, LaneForShape, ReserveShape, PublishShape DEF Dispatch
  <2>3. CASE Cancel \/ Break \/ Start
    BY <2>3, CancelShape, BreakShape, StartShape
  <2>4. CASE Exit
    <3>1. stops' \in 0..MaxStops
      BY <2>4 DEF Exit, Shape, TypeOK
    <3> QED BY <2>4, <3>1, GoDownShape DEF Exit
  <2>5. CASE Crash
    <3>1. stops' \in 0..MaxStops
      BY <2>5, LanesAssumption DEF Crash, Shape, TypeOK
    <3> QED BY <2>5, <3>1, GoDownShape DEF Crash
  <2>6. ASSUME NEW c \in Channels, RunLane(c)  PROVE Shape'
    BY <2>6, TakeNextShape, TakeOrRetireShape, StopLaneShape, PostShape, WakeShape, AckShape DEF RunLane
  <2>7. ASSUME NEW c \in Channels, AcquirePermit(c)  PROVE Shape'
    BY <2>7, AcquirePermitShape
  <2>8. CASE UNCHANGED vars
    BY <2>8 DEF Shape, TypeOK, Mapped, Swept, Employed, Emptied, vars, streamVars, dispatchVars, laneVars
  <2> QED BY <2>1, <2>2, <2>3, <2>4, <2>5, <2>6, <2>7, <2>8 DEF Next
<1> QED BY <1>1, <1>2, PTL DEF Spec

\* Every variable keeps its type, whatever the entries decode to and whenever the
\* worker stops.
THEOREM TypeCorrect == Spec => []TypeOK
<1>1. Shape => TypeOK
  BY DEF Shape
<1> QED BY <1>1, ShapeHolds, PTL

\* The entry guard of lane_for and take_or_retire leaves a destination one lane at a
\* time, for every number of lanes and every place a dispatch may stand at.
THEOREM OneLane == Spec => []OneLaneEach
<1>1. Shape => OneLaneEach
  BY DEF Shape, Mapped, OneLaneEach, Alive
<1> QED BY <1>1, ShapeHolds, PTL

\* Reserve, publish and the second look of a retiring lane never leave an entry in a
\* channel nobody reads, until the worker is cancelled.
THEOREM NoneStranded == Spec => []NothingStranded
<1>1. Shape => NothingStranded
  BY DEF Shape, Emptied, NothingStranded
<1> QED BY <1>1, ShapeHolds, PTL

-----------------------------------------------------------------------------
(* Each step keeps the line, whatever the entries decode to. *)

LEMMA ResumeEndsLine ==
    ASSUME Shape, Line, ResumeEnds
    PROVE  Line'
<1>1. Addressed'
  BY LanesAssumption DEF Shape, TypeOK, Line, Employed, Addressed, Has, ResumeEnds, Reading, dispatchVars, laneVars
<1>2. Suffix'
  BY LanesAssumption DEF Shape, TypeOK, Line, Suffix, ResumeEnds, Reading, dispatchVars, laneVars
<1>3. Ascending'
  BY LanesAssumption DEF Shape, TypeOK, Line, Employed, Ascending, ResumeEnds, Reading, dispatchVars, laneVars
<1>4. Before'
  BY LanesAssumption DEF Shape, TypeOK, Line, Employed, Suffix, Before, Has, ResumeEnds, Reading, dispatchVars, laneVars
<1>5. Ended'
  BY LanesAssumption DEF Shape, TypeOK, Line, Employed, Ended, ResumeEnds, Reading, dispatchVars, laneVars
<1>6. AckedWasSettled'
  BY LanesAssumption DEF Shape, TypeOK, Line, Ended, AckedWasSettled, ResumeEnds, Reading, dispatchVars, laneVars
<1> QED BY <1>1, <1>2, <1>3, <1>4, <1>5, <1>6 DEF Line

LEMMA ResumeLine ==
    ASSUME Shape, Line, NEW e \in Entries, Resume(e)
    PROVE  Line'
<1>1. Addressed'
  BY LanesAssumption DEF Shape, TypeOK, Line, Employed, Addressed, Has, Resume, Reading, Least, Hand, XAck, dispatchVars, laneVars
<1>2. Suffix'
  BY LanesAssumption DEF Shape, TypeOK, Line, Suffix, Resume, Reading, Least, Hand, XAck, dispatchVars, laneVars
<1>3. Ascending'
  BY LanesAssumption DEF Shape, TypeOK, Line, Employed, Ascending, Resume, Reading, Least, Hand, XAck, dispatchVars, laneVars
<1>4. Before'
  <2>1. CASE e \in Poison
    BY <2>1 DEF Line, Before, Has, Resume, dispatchVars, laneVars
  <2>2. CASE e \notin Poison
    <3>1. /\ cursor' = e /\ hand' = e /\ e \in pending /\ cursor < e
          /\ UNCHANGED <<unread, resuming, queue, job>> /\ resuming /\ e \notin unread
      BY <2>2 DEF Line, Suffix, Resume, Reading, Least, Hand, laneVars
    <3>2. ASSUME NEW f \in Entries, NEW c \in Channels, Has(c, f)'
          PROVE  f \notin unread /\ f < e /\ f <= e
      <4>1. Has(c, f)
        BY <3>1, <3>2 DEF Has
      <4>2. f \notin unread /\ f <= cursor
        BY <3>1, <4>1 DEF Line, Before
      <4>3. f \in Nat /\ cursor \in Nat /\ e \in Nat
        BY LanesAssumption DEF Shape, TypeOK
      <4> QED BY <3>1, <4>2, <4>3
    <3> QED BY <3>1, <3>2 DEF Before
  <2> QED BY <2>1, <2>2
<1>5. Ended'
  BY LanesAssumption DEF Shape, TypeOK, Line, Employed, Ended, Resume, Reading, Least, Hand, XAck, dispatchVars, laneVars
<1>6. AckedWasSettled'
  BY LanesAssumption DEF Shape, TypeOK, Line, Ended, AckedWasSettled, Resume, Reading, Least, Hand, XAck, dispatchVars, laneVars
<1> QED BY <1>1, <1>2, <1>3, <1>4, <1>5, <1>6 DEF Line

LEMMA ReadNewLine ==
    ASSUME Shape, Line, NEW e \in Entries, ReadNew(e)
    PROVE  Line'
<1>1. Addressed'
  BY LanesAssumption DEF Shape, TypeOK, Line, Employed, Addressed, Has, ReadNew, Reading, Least, Hand, dispatchVars, laneVars
<1>2. Suffix'
  <2>1. /\ e \in unread /\ unread' = unread \ {e} /\ pending' \subseteq pending \cup {e}
        /\ \A f \in unread : e <= f
    BY DEF ReadNew, Least
  <2>2. ASSUME NEW g \in unread', NEW f \in Entries \ unread'  PROVE f < g
    <3>1. g \in unread /\ g # e /\ e <= g /\ g \in Nat /\ f \in Nat /\ e \in Nat
      BY <2>1, <2>2, LanesAssumption DEF Shape, TypeOK
    <3>2. CASE f = e
      BY <3>1, <3>2
    <3>3. CASE f # e
      BY <2>1, <2>2, <3>1, <3>3 DEF Line, Suffix
    <3> QED BY <3>2, <3>3
  <2> QED BY <2>1, <2>2 DEF Line, Suffix
<1>3. Ascending'
  BY LanesAssumption DEF Shape, TypeOK, Line, Employed, Ascending, ReadNew, Reading, Least, Hand, dispatchVars, laneVars
<1>4. Before'
  BY LanesAssumption DEF Shape, TypeOK, Line, Employed, Suffix, Before, Has, ReadNew, Reading, Least, Hand, dispatchVars, laneVars
<1>5. Ended'
  BY LanesAssumption DEF Shape, TypeOK, Line, Employed, Ended, ReadNew, Reading, Least, Hand, dispatchVars, laneVars
<1>6. AckedWasSettled'
  BY LanesAssumption DEF Shape, TypeOK, Line, Ended, AckedWasSettled, ReadNew, Reading, Least, Hand, dispatchVars, laneVars
<1> QED BY <1>1, <1>2, <1>3, <1>4, <1>5, <1>6 DEF Line

LEMMA LaneForLine ==
    ASSUME Shape, Line, LaneFor
    PROVE  Line'
<1>0. UNCHANGED <<to, unread, pending, resuming, cursor, hand, settled, job>>
  BY DEF LaneFor, Found, Spawned, streamVars, laneVars
<1>1. \/ UNCHANGED <<lanes, queue, task>>
      \/ \E c \in Channels :
            /\ task[c] = "gone" /\ lanes[to[hand]] = None
            /\ lanes' = [lanes EXCEPT ![to[hand]] = c]
            /\ queue' = [queue EXCEPT ![c] = <<>>]
            /\ task' = [task EXCEPT ![c] = "take"]
  BY DEF LaneFor, Found, Spawned, laneVars
<1>2. CASE UNCHANGED <<lanes, queue, task>>
  BY <1>0, <1>2 DEF Line, Addressed, Has, Suffix, Ascending, Before, Ended, AckedWasSettled
<1>3. ASSUME NEW c \in Channels, task[c] = "gone", lanes[to[hand]] = None,
             lanes' = [lanes EXCEPT ![to[hand]] = c],
             queue' = [queue EXCEPT ![c] = <<>>],
             task' = [task EXCEPT ![c] = "take"]
      PROVE  Line'
  <2>1. queue'[c] = <<>> /\ job[c] = None /\ \A x \in Channels : x # c => queue'[x] = queue[x]
    BY <1>3 DEF Shape, TypeOK, Employed
  <2>2. ASSUME NEW x \in Channels, NEW e \in Entries, Has(x, e)'  PROVE x # c /\ Has(x, e)
    <3>1. x # c
      <4> SUFFICES ASSUME x = c PROVE FALSE
        OBVIOUS
      <4>1. job'[c] # e
        BY <1>0, <2>1, LanesAssumption
      <4>2. \A i \in DOMAIN queue'[c] : queue'[c][i] # e
        BY <2>1
      <4> QED BY <2>2, <4>1, <4>2 DEF Has
    <3> QED BY <1>0, <2>1, <2>2, <3>1 DEF Has
  <2>3. Addressed'
    <3> SUFFICES ASSUME NEW e \in Entries, NEW x \in Channels, Has(x, e)'  PROVE lanes'[to'[e]] = x
      BY DEF Addressed
    <3>1. lanes[to[e]] = x
      BY <2>2 DEF Line, Addressed
    <3>2. x # None
      BY LanesAssumption
    <3> QED BY <1>0, <1>3, <3>1, <3>2 DEF Shape, TypeOK
  <2>4. Ascending'
    <3> SUFFICES ASSUME NEW x \in Channels
                 PROVE  /\ \A i, k \in DOMAIN queue'[x] : i < k => queue'[x][i] < queue'[x][k]
                        /\ job[x] # None => \A i \in DOMAIN queue'[x] : job[x] < queue'[x][i]
      BY <1>0 DEF Ascending
    <3>1. CASE x = c
      BY <2>1, <3>1
    <3>2. CASE x # c
      BY <2>1, <3>2 DEF Line, Ascending
    <3> QED BY <3>1, <3>2
  <2>5. Before'
    BY <1>0, <2>2 DEF Line, Before
  <2>6. Ended'
    BY <1>0, <1>3 DEF Shape, TypeOK, Line, Ended
  <2>7. Suffix' /\ AckedWasSettled'
    BY <1>0 DEF Line, Suffix, AckedWasSettled
  <2> QED BY <2>3, <2>4, <2>5, <2>6, <2>7 DEF Line
<1> QED BY <1>1, <1>2, <1>3

LEMMA ReserveLine ==
    ASSUME Shape, Line, Reserve
    PROVE  Line'
<1>1. Addressed'
  BY LanesAssumption DEF Shape, TypeOK, Line, Employed, Addressed, Has, Reserve, streamVars, laneVars
<1>2. Suffix'
  BY LanesAssumption DEF Shape, TypeOK, Line, Suffix, Reserve, streamVars, laneVars
<1>3. Ascending'
  BY LanesAssumption DEF Shape, TypeOK, Line, Employed, Ascending, Reserve, streamVars, laneVars
<1>4. Before'
  BY LanesAssumption DEF Shape, TypeOK, Line, Employed, Suffix, Before, Has, Reserve, streamVars, laneVars
<1>5. Ended'
  BY LanesAssumption DEF Shape, TypeOK, Line, Employed, Ended, Reserve, streamVars, laneVars
<1>6. AckedWasSettled'
  BY LanesAssumption DEF Shape, TypeOK, Line, Ended, AckedWasSettled, Reserve, streamVars, laneVars
<1> QED BY <1>1, <1>2, <1>3, <1>4, <1>5, <1>6 DEF Line

LEMMA PublishLine ==
    ASSUME Shape, Line, Publish
    PROVE  Line'
<1>0. /\ UNCHANGED <<to, unread, pending, resuming, cursor, lanes, task, job, settled>>
      /\ sender \in Channels /\ hand \in Entries /\ hand # None
  BY LanesAssumption DEF Shape, TypeOK, Employed, Publish, streamVars
<1>1. CASE UNCHANGED <<queue, hand>>
  BY <1>0, <1>1 DEF Line, Addressed, Has, Suffix, Ascending, Before, Ended, AckedWasSettled
<1>2. CASE /\ lanes[to[hand]] = sender /\ hand' = None
           /\ queue' = [queue EXCEPT ![sender] = Append(@, hand)]
  <2> DEFINE q == queue[sender]
             r == queue'[sender]
  <2>1. /\ q \in Seq(Entries) /\ r = Append(q, hand)
        /\ \A x \in Channels : x # sender => queue'[x] = queue[x]
    BY <1>0, <1>2 DEF Shape, TypeOK
  <2>2. /\ Len(q) \in Nat /\ DOMAIN q = 1 .. Len(q) /\ DOMAIN r = 1 .. (Len(q) + 1)
        /\ \A i \in 1 .. Len(q) : r[i] = q[i]
        /\ r[Len(q) + 1] = hand
    BY <1>0, <2>1, AppendProperties, LenProperties
  <2>3. ASSUME NEW x \in Channels, NEW e \in Entries, Has(x, e)'
        PROVE  Has(x, e) \/ (x = sender /\ e = hand)
    <3>1. CASE x # sender
      BY <1>0, <2>1, <2>3, <3>1 DEF Has
    <3>2. CASE x = sender /\ job[x] = e
      BY <3>2 DEF Has
    <3>3. CASE x = sender /\ \E i \in DOMAIN r : r[i] = e
      <4>1. PICK i \in 1 .. (Len(q) + 1) : r[i] = e
        BY <2>2, <3>3
      <4>2. CASE i = Len(q) + 1
        BY <2>2, <3>3, <4>1, <4>2
      <4>3. CASE i # Len(q) + 1
        BY <2>2, <3>3, <4>1, <4>3 DEF Has
      <4> QED BY <4>2, <4>3
    <3> QED BY <1>0, <2>3, <3>1, <3>2, <3>3 DEF Has
  <2>4. \A i \in 1 .. Len(q) : q[i] < hand
    <3> SUFFICES ASSUME NEW i \in 1 .. Len(q) PROVE q[i] < hand
      OBVIOUS
    <3>1. q[i] \in Entries
      BY <2>1, ElementOfSeq
    <3>2. Has(sender, q[i])
      BY <2>2 DEF Has
    <3> QED BY <1>0, <3>1, <3>2 DEF Line, Before
  <2>5. job[sender] # None => job[sender] < hand
    <3> SUFFICES ASSUME job[sender] # None PROVE job[sender] < hand
      OBVIOUS
    <3>1. job[sender] \in Entries /\ Has(sender, job[sender])
      BY <1>0 DEF Shape, TypeOK, Has
    <3> QED BY <1>0, <3>1 DEF Line, Before
  <2>6. Addressed'
    BY <1>0, <1>2, <2>3 DEF Line, Addressed
  <2>7. Ascending'
    <3> SUFFICES ASSUME NEW x \in Channels
                 PROVE  /\ \A i, k \in DOMAIN queue'[x] : i < k => queue'[x][i] < queue'[x][k]
                        /\ job[x] # None => \A i \in DOMAIN queue'[x] : job[x] < queue'[x][i]
      BY <1>0 DEF Ascending
    <3>1. CASE x # sender
      BY <2>1, <3>1 DEF Line, Ascending
    <3>2. CASE x = sender
      <4>1. ASSUME NEW i \in DOMAIN r, NEW k \in DOMAIN r, i < k  PROVE r[i] < r[k]
        <5>1. i \in 1 .. Len(q) /\ r[i] = q[i]
          BY <2>2, <4>1
        <5>2. CASE k = Len(q) + 1
          BY <2>2, <2>4, <5>1, <5>2
        <5>3. CASE k # Len(q) + 1
          <6>1. k \in 1 .. Len(q) /\ r[k] = q[k]
            BY <2>2, <5>3
          <6> QED BY <1>0, <2>2, <4>1, <5>1, <6>1 DEF Line, Ascending
        <5> QED BY <5>2, <5>3
      <4>2. ASSUME job[sender] # None, NEW i \in DOMAIN r  PROVE job[sender] < r[i]
        <5>1. CASE i = Len(q) + 1
          BY <2>2, <2>5, <4>2, <5>1
        <5>2. CASE i # Len(q) + 1
          <6>1. i \in 1 .. Len(q) /\ r[i] = q[i]
            BY <2>2, <5>2
          <6> QED BY <1>0, <2>2, <4>2, <6>1 DEF Line, Ascending
        <5> QED BY <5>1, <5>2
      <4> QED BY <3>2, <4>1, <4>2
    <3> QED BY <3>1, <3>2
  <2>8. Before'
    <3> SUFFICES ASSUME NEW e \in Entries, NEW x \in Channels, Has(x, e)'
                 PROVE  e \notin unread /\ (resuming => e <= cursor)
      BY <1>0, <1>2 DEF Before
    <3>1. CASE Has(x, e)
      BY <3>1 DEF Line, Before
    <3>2. CASE e = hand
      BY <1>0, <3>2, LanesAssumption DEF Line, Before
    <3> QED BY <2>3, <3>1, <3>2
  <2>9. Suffix' /\ Ended' /\ AckedWasSettled'
    BY <1>0 DEF Line, Suffix, Ended, AckedWasSettled
  <2> QED BY <2>6, <2>7, <2>8, <2>9 DEF Line
<1> QED BY <1>1, <1>2 DEF Publish

\* Taking the oldest entry of a channel keeps what it has, in its order.
LEMMA TakesLine ==
    ASSUME Shape, Line, NEW c \in Channels, Takes(c), task[c] \in {"take", "retire"}, UNCHANGED settled
    PROVE  /\ \A x \in Channels, e \in Entries : Has(x, e)' <=> Has(x, e)
           /\ Ascending' /\ Ended'
<1> DEFINE q == queue[c]
           r == queue'[c]
<1>0. /\ q \in Seq(Entries) /\ q # << >> /\ job[c] = None /\ r = Tail(q) /\ job'[c] = Head(q)
      /\ \A x \in Channels : x # c => queue'[x] = queue[x] /\ job'[x] = job[x]
      /\ task' = [task EXCEPT ![c] = "held"]
  BY DEF Shape, TypeOK, Employed, Takes
<1>1. /\ Len(q) \in Nat \ {0} /\ DOMAIN q = 1 .. Len(q) /\ DOMAIN r = 1 .. (Len(q) - 1)
      /\ Head(q) = q[1] /\ \A i \in 1 .. (Len(q) - 1) : r[i] = q[i + 1]
  <2>1. Len(q) \in Nat /\ DOMAIN q = 1 .. Len(q) /\ Len(q) # 0
    BY <1>0, LenProperties, EmptySeq
  <2>2. r \in Seq(Entries) /\ Len(r) = Len(q) - 1 /\ Head(q) = q[1]
        /\ \A i \in 1 .. (Len(q) - 1) : r[i] = q[i + 1]
    BY <1>0, <2>1, HeadTailProperties
  <2>3. DOMAIN r = 1 .. Len(r)
    BY <2>2, LenProperties
  <2> QED BY <2>1, <2>2, <2>3
<1>2. ASSUME NEW x \in Channels, NEW e \in Entries  PROVE Has(x, e)' <=> Has(x, e)
  <2>1. CASE x # c
    BY <1>0, <2>1 DEF Has
  <2>2. CASE x = c
    <3>1. ASSUME Has(c, e)'  PROVE Has(c, e)
      <4>1. CASE job'[c] = e
        BY <1>0, <1>1, <4>1 DEF Has
      <4>2. CASE \E i \in DOMAIN r : r[i] = e
        <5>1. PICK i \in 1 .. (Len(q) - 1) : r[i] = e
          BY <1>1, <4>2
        <5>2. i + 1 \in DOMAIN q /\ q[i + 1] = e
          BY <1>1, <5>1
        <5> QED BY <5>2 DEF Has
      <4> QED BY <3>1, <4>1, <4>2 DEF Has
    <3>2. ASSUME Has(c, e)  PROVE Has(c, e)'
      <4>1. PICK i \in 1 .. Len(q) : q[i] = e
        BY <1>0, <1>1, <3>2, LanesAssumption DEF Has
      <4>2. CASE i = 1
        BY <1>0, <1>1, <4>1, <4>2 DEF Has
      <4>3. CASE i # 1
        <5>1. i - 1 \in DOMAIN r /\ r[i - 1] = e
          BY <1>1, <4>1, <4>3
        <5> QED BY <5>1 DEF Has
      <4> QED BY <4>2, <4>3
    <3> QED BY <2>2, <3>1, <3>2
  <2> QED BY <2>1, <2>2
<1>3. Ascending'
  <2> SUFFICES ASSUME NEW x \in Channels
               PROVE  /\ \A i, k \in DOMAIN queue'[x] : i < k => queue'[x][i] < queue'[x][k]
                      /\ job'[x] # None => \A i \in DOMAIN queue'[x] : job'[x] < queue'[x][i]
    BY DEF Ascending
  <2>1. CASE x # c
    BY <1>0, <2>1 DEF Line, Ascending
  <2>2. CASE x = c
    <3>1. ASSUME NEW i \in DOMAIN r, NEW k \in DOMAIN r, i < k  PROVE r[i] < r[k]
      <4>1. i + 1 \in DOMAIN q /\ k + 1 \in DOMAIN q /\ i + 1 < k + 1 /\ r[i] = q[i + 1] /\ r[k] = q[k + 1]
        BY <1>1, <3>1
      <4> QED BY <4>1 DEF Line, Ascending
    <3>2. ASSUME NEW i \in DOMAIN r  PROVE job'[c] < r[i]
      <4>1. 1 \in DOMAIN q /\ i + 1 \in DOMAIN q /\ 1 < i + 1 /\ r[i] = q[i + 1] /\ job'[c] = q[1]
        BY <1>0, <1>1, <3>2
      <4> QED BY <4>1 DEF Line, Ascending
    <3> QED BY <2>2, <3>1, <3>2
  <2> QED BY <2>1, <2>2
<1>4. Ended'
  <2> SUFFICES ASSUME NEW x \in Channels, task'[x] = "ack"  PROVE job'[x] \in settled'
    BY DEF Ended
  <2>1. x # c /\ task[x] = "ack"
    BY <1>0 DEF Shape, TypeOK
  <2> QED BY <1>0, <2>1 DEF Line, Ended
<1> QED BY <1>2, <1>3, <1>4

LEMMA TakeNextLine ==
    ASSUME Shape, Line, NEW c \in Channels, TakeNext(c)
    PROVE  Line'
<1>0. UNCHANGED <<to, unread, pending, resuming, cursor, hand, lanes, settled>>
  BY DEF TakeNext, Takes, streamVars, dispatchVars
<1>1. CASE Takes(c)
  <2>1. (\A x \in Channels, e \in Entries : Has(x, e)' <=> Has(x, e)) /\ Ascending' /\ Ended'
    BY <1>0, <1>1, TakesLine DEF TakeNext
  <2> QED BY <1>0, <2>1 DEF Line, Addressed, Suffix, Before, AckedWasSettled
<1>2. CASE UNCHANGED <<queue, job>> /\ task' = [task EXCEPT ![c] = "retire"]
  <2>1. Ended'
    BY <1>0, <1>2 DEF Shape, TypeOK, Line, Ended
  <2> QED BY <1>0, <1>2, <2>1 DEF Line, Addressed, Has, Suffix, Ascending, Before, AckedWasSettled
<1> QED BY <1>1, <1>2 DEF TakeNext

LEMMA TakeOrRetireLine ==
    ASSUME Shape, Line, NEW c \in Channels, TakeOrRetire(c)
    PROVE  Line'
<1>0. /\ UNCHANGED <<to, unread, pending, resuming, cursor, hand, settled>>
      /\ lanes[home[c]] = c /\ home[c] \in Destinations /\ job[c] = None
  BY DEF Shape, TypeOK, Mapped, Employed, TakeOrRetire, streamVars, dispatchVars
<1>1. CASE Takes(c)
  <2>1. (\A x \in Channels, e \in Entries : Has(x, e)' <=> Has(x, e)) /\ Ascending' /\ Ended'
    BY <1>0, <1>1, TakesLine DEF TakeOrRetire
  <2>2. UNCHANGED lanes
    BY <1>1 DEF Takes
  <2> QED BY <1>0, <2>1, <2>2 DEF Line, Addressed, Suffix, Before, AckedWasSettled
<1>2. CASE /\ queue[c] = <<>> /\ UNCHANGED <<queue, job>> /\ task' = [task EXCEPT ![c] = "gone"]
           /\ lanes' = [lanes EXCEPT ![home[c]] = None]
  <2>1. Ended'
    BY <1>0, <1>2 DEF Shape, TypeOK, Line, Ended
  <2>2. Addressed'
    <3> SUFFICES ASSUME NEW e \in Entries, NEW x \in Channels, Has(x, e)'  PROVE lanes'[to'[e]] = x
      BY DEF Addressed
    <3>1. Has(x, e)
      BY <1>2 DEF Has
    <3>2. x # c
      BY <1>0, <1>2, <3>1, LanesAssumption DEF Has
    <3>3. lanes[to[e]] = x
      BY <3>1 DEF Line, Addressed
    <3> QED BY <1>0, <1>2, <3>2, <3>3 DEF Shape, TypeOK
  <2> QED BY <1>0, <1>2, <2>1, <2>2 DEF Line, Has, Suffix, Ascending, Before, AckedWasSettled
<1> QED BY <1>0, <1>1, <1>2 DEF TakeOrRetire

LEMMA StopLaneLine ==
    ASSUME Shape, Line, NEW c \in Channels, StopLane(c)
    PROVE  Line'
<1>1. Addressed'
  BY LanesAssumption DEF Shape, TypeOK, Line, Employed, Addressed, Has, StopLane, streamVars, dispatchVars
<1>2. Suffix'
  BY LanesAssumption DEF Shape, TypeOK, Line, Suffix, StopLane, streamVars, dispatchVars
<1>3. Ascending'
  BY LanesAssumption DEF Shape, TypeOK, Line, Employed, Ascending, StopLane, streamVars, dispatchVars
<1>4. Before'
  BY LanesAssumption DEF Shape, TypeOK, Line, Employed, Suffix, Before, Has, StopLane, streamVars, dispatchVars
<1>5. Ended'
  BY LanesAssumption DEF Shape, TypeOK, Line, Employed, Ended, StopLane, streamVars, dispatchVars
<1>6. AckedWasSettled'
  BY LanesAssumption DEF Shape, TypeOK, Line, Ended, AckedWasSettled, StopLane, streamVars, dispatchVars
<1> QED BY <1>1, <1>2, <1>3, <1>4, <1>5, <1>6 DEF Line

LEMMA AcquirePermitLine ==
    ASSUME Shape, Line, NEW c \in Channels, AcquirePermit(c)
    PROVE  Line'
<1>1. Addressed'
  BY LanesAssumption DEF Shape, TypeOK, Line, Employed, Addressed, Has, AcquirePermit, streamVars, dispatchVars
<1>2. Suffix'
  BY LanesAssumption DEF Shape, TypeOK, Line, Suffix, AcquirePermit, streamVars, dispatchVars
<1>3. Ascending'
  BY LanesAssumption DEF Shape, TypeOK, Line, Employed, Ascending, AcquirePermit, streamVars, dispatchVars
<1>4. Before'
  BY LanesAssumption DEF Shape, TypeOK, Line, Employed, Suffix, Before, Has, AcquirePermit, streamVars, dispatchVars
<1>5. Ended'
  BY LanesAssumption DEF Shape, TypeOK, Line, Employed, Ended, AcquirePermit, streamVars, dispatchVars
<1>6. AckedWasSettled'
  BY LanesAssumption DEF Shape, TypeOK, Line, Ended, AckedWasSettled, AcquirePermit, streamVars, dispatchVars
<1> QED BY <1>1, <1>2, <1>3, <1>4, <1>5, <1>6 DEF Line

LEMMA PostLine ==
    ASSUME Shape, Line, NEW c \in Channels, Post(c)
    PROVE  Line'
<1>1. Addressed'
  BY LanesAssumption DEF Shape, TypeOK, Line, Employed, Addressed, Has, Post, Concluded, PostAgain, HandBack, streamVars, dispatchVars
<1>2. Suffix'
  BY LanesAssumption DEF Shape, TypeOK, Line, Suffix, Post, Concluded, PostAgain, HandBack, streamVars, dispatchVars
<1>3. Ascending'
  BY LanesAssumption DEF Shape, TypeOK, Line, Employed, Ascending, Post, Concluded, PostAgain, HandBack, streamVars, dispatchVars
<1>4. Before'
  BY LanesAssumption DEF Shape, TypeOK, Line, Employed, Suffix, Before, Has, Post, Concluded, PostAgain, HandBack, streamVars, dispatchVars
<1>5. Ended'
  BY LanesAssumption DEF Shape, TypeOK, Line, Employed, Ended, Post, Concluded, PostAgain, HandBack, streamVars, dispatchVars
<1>6. AckedWasSettled'
  BY LanesAssumption DEF Shape, TypeOK, Line, Ended, AckedWasSettled, Post, Concluded, PostAgain, HandBack, streamVars, dispatchVars
<1> QED BY <1>1, <1>2, <1>3, <1>4, <1>5, <1>6 DEF Line

LEMMA WakeLine ==
    ASSUME Shape, Line, NEW c \in Channels, Wake(c)
    PROVE  Line'
<1>1. Addressed'
  BY LanesAssumption DEF Shape, TypeOK, Line, Employed, Addressed, Has, Wake, streamVars, dispatchVars
<1>2. Suffix'
  BY LanesAssumption DEF Shape, TypeOK, Line, Suffix, Wake, streamVars, dispatchVars
<1>3. Ascending'
  BY LanesAssumption DEF Shape, TypeOK, Line, Employed, Ascending, Wake, streamVars, dispatchVars
<1>4. Before'
  BY LanesAssumption DEF Shape, TypeOK, Line, Employed, Suffix, Before, Has, Wake, streamVars, dispatchVars
<1>5. Ended'
  BY LanesAssumption DEF Shape, TypeOK, Line, Employed, Ended, Wake, streamVars, dispatchVars
<1>6. AckedWasSettled'
  BY LanesAssumption DEF Shape, TypeOK, Line, Ended, AckedWasSettled, Wake, streamVars, dispatchVars
<1> QED BY <1>1, <1>2, <1>3, <1>4, <1>5, <1>6 DEF Line

LEMMA AckLine ==
    ASSUME Shape, Line, NEW c \in Channels, Ack(c)
    PROVE  Line'
<1>1. Addressed'
  BY LanesAssumption DEF Shape, TypeOK, Line, Employed, Addressed, Has, Ack, XAck, dispatchVars
<1>2. Suffix'
  BY LanesAssumption DEF Shape, TypeOK, Line, Suffix, Ack, XAck, dispatchVars
<1>3. Ascending'
  BY LanesAssumption DEF Shape, TypeOK, Line, Employed, Ascending, Ack, XAck, dispatchVars
<1>4. Before'
  BY LanesAssumption DEF Shape, TypeOK, Line, Employed, Suffix, Before, Has, Ack, XAck, dispatchVars
<1>5. Ended'
  BY LanesAssumption DEF Shape, TypeOK, Line, Employed, Ended, Ack, XAck, dispatchVars
<1>6. AckedWasSettled'
  BY LanesAssumption DEF Shape, TypeOK, Line, Ended, AckedWasSettled, Ack, XAck, dispatchVars
<1> QED BY <1>1, <1>2, <1>3, <1>4, <1>5, <1>6 DEF Line

LEMMA CancelLine ==
    ASSUME Shape, Line, Cancel
    PROVE  Line'
<1>1. Addressed'
  BY LanesAssumption DEF Shape, TypeOK, Line, Employed, Addressed, Has, Cancel, streamVars, dispatchVars, laneVars
<1>2. Suffix'
  BY LanesAssumption DEF Shape, TypeOK, Line, Suffix, Cancel, streamVars, dispatchVars, laneVars
<1>3. Ascending'
  BY LanesAssumption DEF Shape, TypeOK, Line, Employed, Ascending, Cancel, streamVars, dispatchVars, laneVars
<1>4. Before'
  BY LanesAssumption DEF Shape, TypeOK, Line, Employed, Suffix, Before, Has, Cancel, streamVars, dispatchVars, laneVars
<1>5. Ended'
  BY LanesAssumption DEF Shape, TypeOK, Line, Employed, Ended, Cancel, streamVars, dispatchVars, laneVars
<1>6. AckedWasSettled'
  BY LanesAssumption DEF Shape, TypeOK, Line, Ended, AckedWasSettled, Cancel, streamVars, dispatchVars, laneVars
<1> QED BY <1>1, <1>2, <1>3, <1>4, <1>5, <1>6 DEF Line

LEMMA BreakLine ==
    ASSUME Shape, Line, Break
    PROVE  Line'
<1>1. Addressed'
  BY LanesAssumption DEF Shape, TypeOK, Line, Employed, Addressed, Has, Break, Least, laneVars
<1>2. Suffix'
  <2>1. CASE UNCHANGED <<unread, pending>>
    BY <2>1 DEF Line, Suffix
  <2>2. CASE \E e \in unread : /\ Least(unread, e)
                               /\ unread' = unread \ {e} /\ pending' = pending \cup {e}
    <3>1. PICK e \in unread : /\ Least(unread, e)
                              /\ unread' = unread \ {e} /\ pending' = pending \cup {e}
      BY <2>2
    <3>2. ASSUME NEW g \in unread', NEW f \in Entries \ unread'  PROVE f < g
      <4>1. g \in unread /\ g # e /\ e <= g /\ g \in Nat /\ f \in Nat /\ e \in Nat
        BY <3>1, <3>2, LanesAssumption DEF Shape, TypeOK, Least
      <4>2. CASE f = e
        BY <4>1, <4>2
      <4>3. CASE f # e
        BY <3>1, <3>2, <4>1, <4>3 DEF Line, Suffix
      <4> QED BY <4>2, <4>3
    <3> QED BY <3>1, <3>2 DEF Line, Suffix
  <2> QED BY <2>1, <2>2 DEF Break
<1>3. Ascending'
  BY LanesAssumption DEF Shape, TypeOK, Line, Employed, Ascending, Break, Least, laneVars
<1>4. Before'
  BY LanesAssumption DEF Shape, TypeOK, Line, Employed, Suffix, Before, Has, Break, Least, laneVars
<1>5. Ended'
  BY LanesAssumption DEF Shape, TypeOK, Line, Employed, Ended, Break, Least, laneVars
<1>6. AckedWasSettled'
  BY LanesAssumption DEF Shape, TypeOK, Line, Ended, AckedWasSettled, Break, Least, laneVars
<1> QED BY <1>1, <1>2, <1>3, <1>4, <1>5, <1>6 DEF Line

LEMMA GoDownLine ==
    ASSUME Shape, Line, GoDown
    PROVE  Line'
<1>1. Addressed'
  BY LanesAssumption DEF Shape, TypeOK, Line, Employed, Addressed, Has, GoDown
<1>2. Suffix'
  BY LanesAssumption DEF Shape, TypeOK, Line, Suffix, GoDown
<1>3. Ascending'
  BY LanesAssumption DEF Shape, TypeOK, Line, Employed, Ascending, GoDown
<1>4. Before'
  BY LanesAssumption DEF Shape, TypeOK, Line, Employed, Suffix, Before, Has, GoDown
<1>5. Ended'
  BY LanesAssumption DEF Shape, TypeOK, Line, Employed, Ended, GoDown
<1>6. AckedWasSettled'
  BY LanesAssumption DEF Shape, TypeOK, Line, Ended, AckedWasSettled, GoDown
<1> QED BY <1>1, <1>2, <1>3, <1>4, <1>5, <1>6 DEF Line

LEMMA StartLine ==
    ASSUME Shape, Line, Start
    PROVE  Line'
<1>1. Addressed'
  BY LanesAssumption DEF Shape, TypeOK, Line, Employed, Addressed, Has, Start, streamVars, dispatchVars, laneVars
<1>2. Suffix'
  BY LanesAssumption DEF Shape, TypeOK, Line, Suffix, Start, streamVars, dispatchVars, laneVars
<1>3. Ascending'
  BY LanesAssumption DEF Shape, TypeOK, Line, Employed, Ascending, Start, streamVars, dispatchVars, laneVars
<1>4. Before'
  BY LanesAssumption DEF Shape, TypeOK, Line, Employed, Suffix, Before, Has, Start, streamVars, dispatchVars, laneVars
<1>5. Ended'
  BY LanesAssumption DEF Shape, TypeOK, Line, Employed, Ended, Start, streamVars, dispatchVars, laneVars
<1>6. AckedWasSettled'
  BY LanesAssumption DEF Shape, TypeOK, Line, Ended, AckedWasSettled, Start, streamVars, dispatchVars, laneVars
<1> QED BY <1>1, <1>2, <1>3, <1>4, <1>5, <1>6 DEF Line

LEMMA LineHolds == Spec => []Line
<1>1. Init => Line
  <2> SUFFICES ASSUME Init PROVE Line
    OBVIOUS
  <2>1. ASSUME NEW c \in Channels, NEW e \in Entries, Has(c, e)  PROVE FALSE
    BY <2>1, LanesAssumption DEF Init, Has
  <2>2. Addressed /\ Ascending /\ Ended
    BY <2>1 DEF Init, Addressed, Ascending, Ended
  <2>3. Suffix /\ AckedWasSettled
    BY LanesAssumption DEF Init, Suffix, AckedWasSettled
  <2>4. Before
    BY <2>1 DEF Init, Before
  <2> QED BY <2>2, <2>3, <2>4 DEF Line
<1>2. Shape /\ Line /\ [Next]_vars => Line'
  <2> SUFFICES ASSUME Shape, Line, [Next]_vars PROVE Line'
    OBVIOUS
  <2>1. CASE Read
    BY <2>1, ResumeEndsLine, ResumeLine, ReadNewLine DEF Read
  <2>2. CASE Dispatch
    BY <2>2, LaneForLine, ReserveLine, PublishLine DEF Dispatch
  <2>3. CASE Cancel \/ Break \/ Start
    BY <2>3, CancelLine, BreakLine, StartLine
  <2>4. CASE Exit \/ Crash
    BY <2>4, GoDownLine DEF Exit, Crash
  <2>5. ASSUME NEW c \in Channels, RunLane(c)  PROVE Line'
    BY <2>5, TakeNextLine, TakeOrRetireLine, StopLaneLine, PostLine, WakeLine, AckLine DEF RunLane
  <2>6. ASSUME NEW c \in Channels, AcquirePermit(c)  PROVE Line'
    BY <2>6, AcquirePermitLine
  <2>7. CASE UNCHANGED vars
    BY <2>7 DEF Line, Addressed, Has, Suffix, Ascending, Before, Ended, AckedWasSettled,
                vars, streamVars, dispatchVars, laneVars
  <2> QED BY <2>1, <2>2, <2>3, <2>4, <2>5, <2>6, <2>7 DEF Next
<1> QED BY <1>1, <1>2, ShapeHolds, PTL DEF Spec

\* What lanes/mod.rs acknowledges was delivered or given up on: an entry that decodes
\* leaves the pending list in no other way, whatever stops or fails.
THEOREM AckedSettled == Spec => []AckedWasSettled
<1>1. Line => AckedWasSettled
  BY DEF Line
<1> QED BY <1>1, LineHolds, PTL

\* The reader's cursor and the order of the channels keep an entry in one place: no
\* dispatch hands a lane what this process already holds.
THEOREM OnePlace == Spec => []InOnePlace
<1>1. Shape /\ Line => InOnePlace
  <2> SUFFICES ASSUME Shape, Line, NEW e \in Entries, NEW c \in Channels
               PROVE  /\ Has(c, e) => hand # e
                      /\ \A x \in Channels : \A i \in DOMAIN queue[x] :
                            queue[x][i] = e => /\ job[c] # e
                                               /\ \A k \in DOMAIN queue[c] : queue[c][k] = e => c = x /\ k = i
                      /\ \A x \in Channels : job[c] = e /\ job[x] = e => c = x
    BY DEF InOnePlace, Has
  <2>0. e # None /\ e \in Nat
    BY LanesAssumption
  <2>1. ASSUME Has(c, e)  PROVE hand # e
    BY <2>0, <2>1 DEF Line, Before
  <2>2. ASSUME NEW x \in Channels, Has(x, e), Has(c, e)  PROVE c = x
    BY <2>2 DEF Line, Addressed
  <2>3. ASSUME NEW x \in Channels, NEW i \in DOMAIN queue[x], queue[x][i] = e
        PROVE  /\ job[c] # e
               /\ \A k \in DOMAIN queue[c] : queue[c][k] = e => c = x /\ k = i
    <3>1. Has(x, e)
      BY <2>3 DEF Has
    <3>2. job[c] # e
      <4> SUFFICES ASSUME job[c] = e PROVE FALSE
        OBVIOUS
      <4>1. c = x
        BY <2>2, <3>1 DEF Has
      <4> QED BY <2>0, <2>3, <4>1 DEF Line, Ascending
    <3>3. ASSUME NEW k \in DOMAIN queue[c], queue[c][k] = e  PROVE c = x /\ k = i
      <4>1. c = x
        BY <2>2, <3>1, <3>3 DEF Has
      <4>2. queue[x] \in Seq(Entries)
        BY DEF Shape, TypeOK
      <4>3. i \in Nat /\ k \in Nat
        BY <2>3, <3>3, <4>1, <4>2, LenProperties
      <4>4. ~(i < k) /\ ~(k < i)
        BY <2>0, <2>3, <3>3, <4>1 DEF Line, Ascending
      <4> QED BY <4>1, <4>3, <4>4
    <3> QED BY <3>2, <3>3
  <2>4. ASSUME NEW x \in Channels, job[c] = e, job[x] = e  PROVE c = x
    BY <2>2, <2>4 DEF Has
  <2> QED BY <2>1, <2>3, <2>4
<1> QED BY <1>1, ShapeHolds, LineHolds, PTL

-----------------------------------------------------------------------------
(* Each step keeps the order, when every entry decodes. *)

LEMMA ResumeEndsOrder ==
    ASSUME Poison = {}, Shape, Line, Order, ResumeEnds
    PROVE  Order'
<1>1. Covered'
  BY LanesAssumption DEF Shape, TypeOK, Order, Employed, Line, Ended, Covered, Ahead, Has, ResumeEnds, Reading, dispatchVars, laneVars
<1>2. Oldest'
  BY LanesAssumption DEF Shape, TypeOK, Order, Oldest, ResumeEnds, Reading, dispatchVars, laneVars
<1>3. InOrder'
  BY LanesAssumption DEF Shape, TypeOK, Order, Oldest, InOrder, ResumeEnds, Reading, dispatchVars, laneVars
<1> QED BY <1>1, <1>2, <1>3 DEF Order

LEMMA ResumeOrder ==
    ASSUME Poison = {}, Shape, Line, Order, NEW e \in Entries, Resume(e)
    PROVE  Order'
<1>1. Covered'
  BY LanesAssumption DEF Shape, TypeOK, Order, Employed, Line, Ended, Covered, Ahead, Has, Resume, Reading, Least, Hand, XAck, laneVars
<1>2. Oldest'
  BY LanesAssumption DEF Shape, TypeOK, Order, Oldest, Resume, Reading, Least, Hand, XAck, laneVars
<1>3. InOrder'
  BY LanesAssumption DEF Shape, TypeOK, Order, Oldest, InOrder, Resume, Reading, Least, Hand, XAck, laneVars
<1> QED BY <1>1, <1>2, <1>3 DEF Order

LEMMA ReadNewOrder ==
    ASSUME Poison = {}, Shape, Line, Order, NEW e \in Entries, ReadNew(e)
    PROVE  Order'
<1>1. Covered'
  BY LanesAssumption DEF Shape, TypeOK, Order, Employed, Line, Ended, Covered, Ahead, Has, ReadNew, Reading, Least, Hand, laneVars
<1>2. Oldest'
  BY LanesAssumption DEF Shape, TypeOK, Order, Oldest, ReadNew, Reading, Least, Hand, laneVars
<1>3. InOrder'
  BY LanesAssumption DEF Shape, TypeOK, Order, Oldest, InOrder, ReadNew, Reading, Least, Hand, laneVars
<1> QED BY <1>1, <1>2, <1>3 DEF Order

LEMMA LaneForOrder ==
    ASSUME Poison = {}, Shape, Line, Order, LaneFor
    PROVE  Order'
<1>1. Covered'
  BY LanesAssumption DEF Shape, TypeOK, Order, Employed, Line, Ended, Covered, Ahead, Has, LaneFor, Found, Spawned, streamVars, laneVars
<1>2. Oldest'
  BY LanesAssumption DEF Shape, TypeOK, Order, Oldest, LaneFor, Found, Spawned, streamVars, laneVars
<1>3. InOrder'
  BY LanesAssumption DEF Shape, TypeOK, Order, Oldest, InOrder, LaneFor, Found, Spawned, streamVars, laneVars
<1> QED BY <1>1, <1>2, <1>3 DEF Order

LEMMA ReserveOrder ==
    ASSUME Poison = {}, Shape, Line, Order, Reserve
    PROVE  Order'
<1>1. Covered'
  BY LanesAssumption DEF Shape, TypeOK, Order, Employed, Line, Ended, Covered, Ahead, Has, Reserve, streamVars, laneVars
<1>2. Oldest'
  BY LanesAssumption DEF Shape, TypeOK, Order, Oldest, Reserve, streamVars, laneVars
<1>3. InOrder'
  BY LanesAssumption DEF Shape, TypeOK, Order, Oldest, InOrder, Reserve, streamVars, laneVars
<1> QED BY <1>1, <1>2, <1>3 DEF Order

LEMMA PublishOrder ==
    ASSUME Poison = {}, Shape, Line, Order, Publish
    PROVE  Order'
<1>1. Covered'
  <2>0. /\ UNCHANGED <<to, unread, pending, resuming, cursor, lanes, job, settled, cancelled>>
        /\ sender \in Channels /\ hand \in Entries /\ hand # None
    BY LanesAssumption DEF Shape, TypeOK, Employed, Publish, streamVars
  <2>1. CASE UNCHANGED <<queue, hand>>
    BY <2>0, <2>1 DEF Order, Covered, Ahead, Has
  <2>2. CASE /\ lanes[to[hand]] = sender /\ hand' = None
             /\ queue' = [queue EXCEPT ![sender] = Append(@, hand)]
    <3> DEFINE q == queue[sender]
               r == queue'[sender]
    <3>1. /\ q \in Seq(Entries) /\ r = Append(q, hand)
          /\ \A x \in Channels : x # sender => queue'[x] = queue[x]
      BY <2>0, <2>2 DEF Shape, TypeOK
    <3>2. /\ Len(q) \in Nat /\ DOMAIN q = 1 .. Len(q) /\ DOMAIN r = 1 .. (Len(q) + 1)
          /\ \A i \in 1 .. Len(q) : r[i] = q[i]
          /\ r[Len(q) + 1] = hand
      BY <2>0, <3>1, AppendProperties, LenProperties
    <3>3. \E i \in DOMAIN r : r[i] = hand
      <4>1. Len(q) + 1 \in DOMAIN r
        BY <3>2
      <4> QED BY <3>2, <4>1
    <3>4. ASSUME NEW x \in Channels, NEW e \in Entries, Has(x, e)  PROVE Has(x, e)'
      <4>1. CASE x # sender
        BY <2>0, <3>1, <3>4, <4>1 DEF Has
      <4>2. CASE x = sender
        BY <2>0, <3>2, <3>4, <4>2 DEF Has
      <4> QED BY <4>1, <4>2
    <3>5. ASSUME ~cancelled, NEW e \in Entries \ settled
          PROVE  Ahead(e)' \/ hand' = e \/ (lanes'[to'[e]] # None /\ Has(lanes[to[e]], e)')
      <4>1. CASE Ahead(e)
        BY <2>0, <4>1 DEF Ahead
      <4>2. CASE hand = e
        <5>1. lanes'[to'[e]] = sender /\ sender # None
          BY <2>0, <2>2, <4>2, LanesAssumption
        <5> QED BY <3>3, <4>2, <5>1 DEF Has
      <4>3. CASE lanes[to[e]] # None /\ Has(lanes[to[e]], e)
        <5>1. lanes[to[e]] \in Channels
          BY <4>3 DEF Shape, TypeOK
        <5> QED BY <2>0, <3>4, <4>3, <5>1
      <4> QED BY <3>5, <4>1, <4>2, <4>3 DEF Order, Covered
    <3>6. ASSUME NEW e \in Entries, Has(lanes[to[e]], e)'  PROVE Has(lanes[to[e]], e)' /\ lanes' = lanes /\ to' = to
      BY <2>0, <3>6
    <3> QED BY <2>0, <3>5, <3>6 DEF Covered, Has
  <2> QED BY <2>1, <2>2 DEF Publish
<1>2. Oldest'
  BY LanesAssumption DEF Shape, TypeOK, Order, Oldest, Publish, streamVars
<1>3. InOrder'
  BY LanesAssumption DEF Shape, TypeOK, Order, Oldest, InOrder, Publish, streamVars
<1> QED BY <1>1, <1>2, <1>3 DEF Order

LEMMA TakeNextOrder ==
    ASSUME Poison = {}, Shape, Line, Order, NEW c \in Channels, TakeNext(c)
    PROVE  Order'
<1>1. Covered'
  <2>0. UNCHANGED <<to, unread, pending, resuming, cursor, hand, settled, cancelled>>
    BY DEF TakeNext, Takes, streamVars, dispatchVars
  <2>1. CASE Takes(c)
    <3>1. \A x \in Channels, e \in Entries : Has(x, e)' <=> Has(x, e)
      BY <2>0, <2>1, TakesLine DEF TakeNext
    <3>2. UNCHANGED lanes
      BY <2>1 DEF Takes
    <3> SUFFICES ASSUME ~cancelled, NEW e \in Entries \ settled
                 PROVE  Ahead(e)' \/ hand' = e \/ (lanes'[to'[e]] # None /\ Has(lanes[to[e]], e)')
      BY <2>0, <3>2 DEF Covered, Has
    <3>3. Ahead(e)' <=> Ahead(e)
      BY <2>0 DEF Ahead
    <3>4. lanes[to[e]] \in Channels \cup {None}
      BY DEF Shape, TypeOK
    <3> QED BY <2>0, <3>1, <3>2, <3>3, <3>4 DEF Order, Covered
  <2>2. CASE UNCHANGED <<queue, job, lanes>>
    BY <2>0, <2>2 DEF Order, Covered, Ahead, Has
  <2> QED BY <2>1, <2>2 DEF TakeNext
<1>2. Oldest'
  <2>1. UNCHANGED <<to, settled>> /\ \A x \in Channels : x # c => task'[x] = task[x] /\ job'[x] = job[x]
    BY DEF Shape, TypeOK, TakeNext, Takes, streamVars
  <2>2. task'[c] \notin {"post", "pause"}
    BY DEF Shape, TypeOK, TakeNext, Takes
  <2> QED BY <2>1, <2>2 DEF Order, Oldest
<1>3. InOrder'
  BY LanesAssumption DEF Shape, TypeOK, Order, Oldest, InOrder, TakeNext, streamVars, dispatchVars
<1> QED BY <1>1, <1>2, <1>3 DEF Order

LEMMA TakeOrRetireOrder ==
    ASSUME Poison = {}, Shape, Line, Order, NEW c \in Channels, TakeOrRetire(c)
    PROVE  Order'
<1>1. Covered'
  <2>0. UNCHANGED <<to, unread, pending, resuming, cursor, hand, settled, cancelled>>
    BY DEF TakeOrRetire, Takes, streamVars, dispatchVars
  <2>1. CASE Takes(c)
    <3>1. \A x \in Channels, e \in Entries : Has(x, e)' <=> Has(x, e)
      BY <2>0, <2>1, TakesLine DEF TakeOrRetire
    <3>2. UNCHANGED lanes
      BY <2>1 DEF Takes
    <3> SUFFICES ASSUME ~cancelled, NEW e \in Entries \ settled
                 PROVE  Ahead(e)' \/ hand' = e \/ (lanes'[to'[e]] # None /\ Has(lanes[to[e]], e)')
      BY <2>0, <3>2 DEF Covered, Has
    <3>3. Ahead(e)' <=> Ahead(e)
      BY <2>0 DEF Ahead
    <3>4. lanes[to[e]] \in Channels \cup {None}
      BY DEF Shape, TypeOK
    <3> QED BY <2>0, <3>1, <3>2, <3>3, <3>4 DEF Order, Covered
  <2>2. CASE /\ queue[c] = <<>> /\ UNCHANGED <<queue, job>>
             /\ lanes' = [lanes EXCEPT ![home[c]] = None]
    <3>1. lanes[home[c]] = c /\ home[c] \in Destinations /\ job[c] = None
      BY DEF Shape, TypeOK, Mapped, Employed, TakeOrRetire
    <3> SUFFICES ASSUME ~cancelled, NEW e \in Entries \ settled, lanes[to[e]] # None, Has(lanes[to[e]], e)
                 PROVE  lanes'[to[e]] = lanes[to[e]]
      BY <2>0, <2>2 DEF Order, Covered, Ahead, Has
    <3>2. lanes[to[e]] # c
      BY <2>2, <3>1, LanesAssumption DEF Has
    <3> QED BY <2>2, <3>1, <3>2 DEF Shape, TypeOK
  <2> QED BY <2>1, <2>2 DEF TakeOrRetire, Shape, TypeOK, Mapped
<1>2. Oldest'
  <2>1. UNCHANGED <<to, settled>> /\ \A x \in Channels : x # c => task'[x] = task[x] /\ job'[x] = job[x]
    BY DEF Shape, TypeOK, TakeOrRetire, Takes, streamVars
  <2>2. task'[c] \notin {"post", "pause"}
    BY DEF Shape, TypeOK, TakeOrRetire, Takes
  <2> QED BY <2>1, <2>2 DEF Order, Oldest
<1>3. InOrder'
  BY LanesAssumption DEF Shape, TypeOK, Order, Oldest, InOrder, TakeOrRetire, streamVars, dispatchVars
<1> QED BY <1>1, <1>2, <1>3 DEF Order

LEMMA StopLaneOrder ==
    ASSUME Poison = {}, Shape, Line, Order, NEW c \in Channels, StopLane(c)
    PROVE  Order'
<1>1. Covered'
  BY LanesAssumption DEF Shape, TypeOK, Order, Employed, Line, Ended, Covered, Ahead, Has, StopLane, streamVars, dispatchVars
<1>2. Oldest'
  BY LanesAssumption DEF Shape, TypeOK, Order, Oldest, StopLane, streamVars, dispatchVars
<1>3. InOrder'
  BY LanesAssumption DEF Shape, TypeOK, Order, Oldest, InOrder, StopLane, streamVars, dispatchVars
<1> QED BY <1>1, <1>2, <1>3 DEF Order

LEMMA AcquirePermitOrder ==
    ASSUME Poison = {}, Shape, Line, Order, NEW c \in Channels, AcquirePermit(c)
    PROVE  Order'
<1>1. Covered'
  BY LanesAssumption DEF Shape, TypeOK, Order, Employed, Line, Ended, Covered, Ahead, Has, AcquirePermit, streamVars, dispatchVars
<1>2. Oldest'
  <2>0. /\ UNCHANGED <<to, settled, job>> /\ ~cancelled
        /\ \A x \in Channels : x # c => task'[x] = task[x]
        /\ job[c] \in Entries /\ Has(c, job[c])
    BY DEF Shape, TypeOK, Employed, Has, AcquirePermit
  <2>1. ASSUME NEW f \in Entries, f < job[c], to[f] = to[job[c]], f \notin settled  PROVE FALSE
    <3>0. f \in Nat /\ job[c] \in Nat /\ cursor \in Nat
      <4>1. Entries \subseteq Nat /\ cursor \in Entries \cup {0}
        BY LanesAssumption DEF Shape, TypeOK
      <4>2. job[c] \in Nat
        BY <2>0, <4>1
      <4>3. f \in Nat
        BY <4>1
      <4>4. cursor \in Nat
        BY <4>1
      <4> QED BY <4>2, <4>3, <4>4
    <3>1. /\ job[c] \notin unread /\ (hand # None => job[c] < hand) /\ (resuming => job[c] <= cursor)
          /\ lanes[to[job[c]]] = c
      BY <2>0 DEF Line, Before, Addressed
    <3>2. f \notin unread
      BY <2>0, <2>1, <3>0, <3>1 DEF Line, Suffix
    <3>3. ~Ahead(f)
      BY <2>1, <3>0, <3>1, <3>2 DEF Ahead
    <3>4. hand # f
      BY <2>0, <2>1, <3>1, LanesAssumption
    <3>5. ~Has(c, f)
      <4>1. job[c] # f
        BY <2>0, <2>1, LanesAssumption
      <4>2. ASSUME NEW i \in DOMAIN queue[c], queue[c][i] = f  PROVE FALSE
        <5>1. job[c] < f
          BY <2>0, <4>2, LanesAssumption DEF Line, Ascending
        <5> QED BY <2>1, <3>0, <5>1
      <4> QED BY <4>1, <4>2 DEF Has
    <3> QED BY <2>0, <2>1, <3>1, <3>3, <3>4, <3>5 DEF Order, Covered
  <2>2. ASSUME NEW x \in Channels, task'[x] \in {"post", "pause"},
               NEW f \in Entries, f < job[x], to[f] = to[job[x]]
        PROVE  f \in settled
    BY <2>0, <2>1, <2>2 DEF Order, Oldest
  <2> QED BY <2>0, <2>2 DEF Oldest
<1>3. InOrder'
  BY LanesAssumption DEF Shape, TypeOK, Order, Oldest, InOrder, AcquirePermit, streamVars, dispatchVars
<1> QED BY <1>1, <1>2, <1>3 DEF Order

\* The entry that ends is the oldest its destination is owed.
LEMMA PostOrder ==
    ASSUME Poison = {}, Shape, Line, Order, NEW c \in Channels, Post(c)
    PROVE  Order'
<1>0. /\ UNCHANGED <<to, unread, pending, resuming, cursor, hand, lanes, queue, cancelled>>
      /\ job[c] \in Entries /\ task[c] = "post"
      /\ \A x \in Channels : x # c => task'[x] = task[x] /\ job'[x] = job[x]
  BY DEF Shape, TypeOK, Employed, Post, Concluded, PostAgain, HandBack, streamVars, dispatchVars
<1>1. Covered'
  BY LanesAssumption DEF Shape, TypeOK, Order, Employed, Line, Ended, Covered, Ahead, Has, Post, Concluded, PostAgain, HandBack, streamVars, dispatchVars
<1>2. CASE Concluded(c)
  <2>1. settled' = settled \cup {job[c]} /\ task'[c] = "ack" /\ job' = job
    BY <1>2 DEF Concluded, Shape, TypeOK
  <2>2. Oldest'
    BY <1>0, <2>1 DEF Order, Oldest
  <2>3. InOrder'
    BY <1>0, <2>1 DEF Order, Oldest, InOrder
  <2> QED BY <1>1, <2>2, <2>3 DEF Order
<1>3. CASE PostAgain(c) \/ HandBack(c)
  <2>1. (task'[c] = "pause" /\ job' = job) \/ task'[c] = "take"
    BY <1>3 DEF PostAgain, HandBack, Shape, TypeOK
  <2>2. UNCHANGED settled
    BY <1>3 DEF PostAgain, HandBack
  <2>3. Oldest'
    BY <1>0, <2>1, <2>2 DEF Order, Oldest
  <2>4. InOrder'
    BY <1>0, <2>2 DEF Order, InOrder
  <2> QED BY <1>1, <2>3, <2>4 DEF Order
<1> QED BY <1>2, <1>3 DEF Post

LEMMA WakeOrder ==
    ASSUME Poison = {}, Shape, Line, Order, NEW c \in Channels, Wake(c)
    PROVE  Order'
<1>1. Covered'
  BY LanesAssumption DEF Shape, TypeOK, Order, Employed, Line, Ended, Covered, Ahead, Has, Wake, streamVars, dispatchVars
<1>2. Oldest'
  BY LanesAssumption DEF Shape, TypeOK, Order, Oldest, Wake, streamVars, dispatchVars
<1>3. InOrder'
  BY LanesAssumption DEF Shape, TypeOK, Order, Oldest, InOrder, Wake, streamVars, dispatchVars
<1> QED BY <1>1, <1>2, <1>3 DEF Order

LEMMA AckOrder ==
    ASSUME Poison = {}, Shape, Line, Order, NEW c \in Channels, Ack(c)
    PROVE  Order'
<1>1. Covered'
  BY LanesAssumption DEF Shape, TypeOK, Order, Employed, Line, Ended, Covered, Ahead, Has, Ack, XAck, dispatchVars
<1>2. Oldest'
  BY LanesAssumption DEF Shape, TypeOK, Order, Oldest, Ack, XAck, dispatchVars
<1>3. InOrder'
  BY LanesAssumption DEF Shape, TypeOK, Order, Oldest, InOrder, Ack, XAck, dispatchVars
<1> QED BY <1>1, <1>2, <1>3 DEF Order

LEMMA CancelOrder ==
    ASSUME Poison = {}, Shape, Line, Order, Cancel
    PROVE  Order'
<1>1. Covered'
  BY LanesAssumption DEF Shape, TypeOK, Order, Employed, Line, Ended, Covered, Ahead, Has, Cancel, streamVars, dispatchVars, laneVars
<1>2. Oldest'
  BY LanesAssumption DEF Shape, TypeOK, Order, Oldest, Cancel, streamVars, dispatchVars, laneVars
<1>3. InOrder'
  BY LanesAssumption DEF Shape, TypeOK, Order, Oldest, InOrder, Cancel, streamVars, dispatchVars, laneVars
<1> QED BY <1>1, <1>2, <1>3 DEF Order

LEMMA BreakOrder ==
    ASSUME Poison = {}, Shape, Line, Order, Break
    PROVE  Order'
<1>1. Covered'
  BY LanesAssumption DEF Shape, TypeOK, Order, Employed, Line, Ended, Covered, Ahead, Has, Break, Least, laneVars
<1>2. Oldest'
  BY LanesAssumption DEF Shape, TypeOK, Order, Oldest, Break, Least, laneVars
<1>3. InOrder'
  BY LanesAssumption DEF Shape, TypeOK, Order, Oldest, InOrder, Break, Least, laneVars
<1> QED BY <1>1, <1>2, <1>3 DEF Order

LEMMA GoDownOrder ==
    ASSUME Poison = {}, Shape, Line, Order, GoDown
    PROVE  Order'
<1>1. Covered'
  <2> SUFFICES ASSUME NEW e \in Entries \ settled'  PROVE Ahead(e)'
    BY DEF Covered
  <2>1. e \in unread \/ e \in pending
    BY DEF GoDown, Line, AckedWasSettled
  <2>2. e > 0
    BY LanesAssumption
  <2> QED BY <2>1, <2>2 DEF GoDown, Ahead
<1>2. Oldest'
  BY LanesAssumption DEF Shape, TypeOK, Order, Oldest, GoDown
<1>3. InOrder'
  BY LanesAssumption DEF Shape, TypeOK, Order, Oldest, InOrder, GoDown
<1> QED BY <1>1, <1>2, <1>3 DEF Order

LEMMA StartOrder ==
    ASSUME Poison = {}, Shape, Line, Order, Start
    PROVE  Order'
<1>1. Covered'
  BY LanesAssumption DEF Shape, TypeOK, Order, Employed, Line, Ended, Covered, Ahead, Has, Start, streamVars, dispatchVars, laneVars
<1>2. Oldest'
  BY LanesAssumption DEF Shape, TypeOK, Order, Oldest, Start, streamVars, dispatchVars, laneVars
<1>3. InOrder'
  BY LanesAssumption DEF Shape, TypeOK, Order, Oldest, InOrder, Start, streamVars, dispatchVars, laneVars
<1> QED BY <1>1, <1>2, <1>3 DEF Order

LEMMA OrderHolds ==
    ASSUME Poison = {}
    PROVE  Spec => []Order
<1>1. Init => Order
  <2> SUFFICES ASSUME Init PROVE Order
    OBVIOUS
  <2>1. Covered
    <3> SUFFICES ASSUME NEW e \in Entries PROVE Ahead(e)
      BY DEF Covered
    <3>1. e > 0
      BY LanesAssumption
    <3> QED BY <3>1 DEF Init, Ahead
  <2>2. Oldest /\ InOrder
    BY DEF Init, Oldest, InOrder
  <2> QED BY <2>1, <2>2 DEF Order
<1>2. Shape /\ Line /\ Order /\ [Next]_vars => Order'
  <2> SUFFICES ASSUME Shape, Line, Order, [Next]_vars PROVE Order'
    OBVIOUS
  <2>1. CASE Read
    BY <2>1, ResumeEndsOrder, ResumeOrder, ReadNewOrder DEF Read
  <2>2. CASE Dispatch
    BY <2>2, LaneForOrder, ReserveOrder, PublishOrder DEF Dispatch
  <2>3. CASE Cancel \/ Break \/ Start
    BY <2>3, CancelOrder, BreakOrder, StartOrder
  <2>4. CASE Exit \/ Crash
    BY <2>4, GoDownOrder DEF Exit, Crash
  <2>5. ASSUME NEW c \in Channels, RunLane(c)  PROVE Order'
    BY <2>5, TakeNextOrder, TakeOrRetireOrder, StopLaneOrder, PostOrder, WakeOrder, AckOrder DEF RunLane
  <2>6. ASSUME NEW c \in Channels, AcquirePermit(c)  PROVE Order'
    BY <2>6, AcquirePermitOrder
  <2>7. CASE UNCHANGED vars
    BY <2>7 DEF Order, Covered, Ahead, Has, Oldest, InOrder, vars, streamVars, dispatchVars, laneVars
  <2> QED BY <2>1, <2>2, <2>3, <2>4, <2>5, <2>6, <2>7 DEF Next
<1> QED BY <1>1, <1>2, ShapeHolds, LineHolds, PTL DEF Spec

\* When every entry decodes, one destination's answers end in the order they were
\* queued, across lanes that retire, entries handed back, shutdowns and crashes.  A
\* pending entry that does not decode ends the resume early and breaks it.
THEOREM EndsInOrder ==
    ASSUME Poison = {}
    PROVE  Spec => []InOrder
<1>1. Order => InOrder
  BY DEF Order
<1> QED BY <1>1, OrderHolds, PTL

-----------------------------------------------------------------------------
(* The worker implements OrderedDelivery. *)

\* Only the end of a delivery changes what a destination is owed.
LEMMA SettlesAlone ==
    ASSUME [Next]_vars
    PROVE  \/ UNCHANGED <<to, settled>>
           \/ \E c \in Channels : Post(c) /\ Concluded(c) /\ UNCHANGED to
<1>1. CASE Read \/ Dispatch
  BY <1>1 DEF Read, ResumeEnds, Resume, ReadNew, Dispatch, LaneFor, Reserve, Publish
<1>2. CASE Cancel \/ Break \/ Exit \/ Crash \/ Start
  BY <1>2 DEF Cancel, Break, Exit, Crash, GoDown, Start
<1>3. ASSUME NEW c \in Channels, RunLane(c) \/ AcquirePermit(c)
      PROVE  \/ UNCHANGED <<to, settled>>
             \/ Post(c) /\ Concluded(c) /\ UNCHANGED to
  BY <1>3 DEF RunLane, TakeNext, TakeOrRetire, StopLane, Post, PostAgain, HandBack, Wake, Ack, AcquirePermit
<1>4. CASE UNCHANGED vars
  BY <1>4 DEF vars
<1> QED BY <1>1, <1>2, <1>3, <1>4 DEF Next

\* When every entry decodes, each step of the worker settles the oldest entry owed to
\* one destination or nothing: deliver_with_retry concludes in stream order.
THEOREM ImplementsOrdered ==
    ASSUME Poison = {}
    PROVE  Spec => DeliversInOrder
<1>0. Entries \in SUBSET Nat
  BY LanesAssumption
<1>1. Init => Ordered!Init
  BY DEF Init, Ordered!Init, Owed
<1>2. Shape /\ Order /\ [Next]_vars => [Ordered!Next]_Owed
  <2> SUFFICES ASSUME Shape, Order, [Next]_vars PROVE [Ordered!Next]_Owed
    OBVIOUS
  <2>1. CASE UNCHANGED <<to, settled>>
    BY <2>1 DEF Owed
  <2>2. ASSUME NEW c \in Channels, Post(c), Concluded(c), UNCHANGED to
        PROVE  [Ordered!Next]_Owed
    <3> DEFINE e == job[c]
               d == to[e]
    <3>1. e \in Entries /\ d \in Destinations /\ settled' = settled \cup {e}
      BY <2>2 DEF Shape, TypeOK, Employed, Post, Concluded
    <3>2. CASE e \in settled
      BY <2>2, <3>1, <3>2 DEF Owed
    <3>3. CASE e \notin settled
      <4>1. Owed[d] = {f \in Entries \ settled : to[f] = d}
        BY <3>1 DEF Owed
      <4>2. e \in Owed[d]
        BY <3>1, <3>3, <4>1
      <4>3. ASSUME NEW f \in Owed[d]  PROVE e <= f
        <5>1. f \in Entries \ settled /\ to[f] = to[job[c]] /\ f \in Nat /\ e \in Nat
          BY <1>0, <3>1, <4>1, <4>3
        <5>2. ~(f < e)
          BY <2>2, <5>1 DEF Order, Oldest, Post
        <5> QED BY <5>1, <5>2
      <4>4. Owed' = [Owed EXCEPT ![d] = @ \ {e}]
        BY <2>2, <3>1 DEF Owed
      <4>5. Ordered!Settle(d)
        BY <4>2, <4>3, <4>4 DEF Ordered!Settle
      <4> QED BY <3>1, <4>5 DEF Ordered!Next
    <3> QED BY <3>2, <3>3
  <2> QED BY <2>1, <2>2, SettlesAlone
<1> QED BY <1>1, <1>2, ShapeHolds, OrderHolds, PTL DEF Spec, DeliversInOrder, Ordered!Spec

=============================================================================
