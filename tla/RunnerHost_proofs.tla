--------------------------- MODULE RunnerHost_proofs ---------------------------
(***************************************************************************)
(* Proofs about RunnerHost for every number of leases, fleets, workers and *)
(* lapses: the keeper stays within its limits, a lease thaws only what the *)
(* daemon told it to resume, a late request never ends a hold the daemon   *)
(* counts on, and every sandbox is in one place until it is torn down.     *)
(*                                                                         *)
(* The argument is about order.  Leases of a fleet take their turns in the *)
(* order they were issued, they freeze in that order too, and the mailbox  *)
(* is first in, first out: what a lease asks for before it parks reaches   *)
(* the keeper before any later lease of its fleet has parked.              *)
(***************************************************************************)
EXTENDS RunnerHost, FiniteSetTheorems, TLAPS

-----------------------------------------------------------------------------
(* The invariant. *)

\* j is an earlier lease of k's fleet.
Before(j, k) == j \in DOMAIN of /\ k \in DOMAIN of /\ of[j] = of[k] /\ j < k

\* l is in line for its fleet's turn, or has it.
Standing == {"turn", "take", "thaw", "run"}
InLine(l) == pc[l] \in Standing

\* Leases are issued in order, and the daemon's latest is the last one issued.
Issued ==
    /\ \A l \in Leases : pc[l] # "none" => l \in DOMAIN of
    /\ \A k, l \in Leases : k < l /\ pc[l] # "none" => pc[k] # "none"
    /\ \A f \in Fleets : latest[f] \in Leases => pc[latest[f]] # "none" /\ of[latest[f]] = f
    /\ \A l \in Leases : pc[l] # "none" => /\ latest[of[l]] # None
                                           /\ latest[of[l]] \in Leases => l <= latest[of[l]]

\* The leases of a fleet stand in line in the order they were issued.
Lines ==
    /\ \A f \in Fleets : \A i \in DOMAIN turn[f] :
          /\ InLine(turn[f][i]) /\ turn[f][i] \in DOMAIN of /\ of[turn[f][i]] = f
          /\ \A k \in DOMAIN turn[f] : i < k => turn[f][i] < turn[f][k]
    /\ \A l \in Leases : InLine(l) =>
          \E i \in DOMAIN turn[of[l]] : turn[of[l]][i] = l /\ (pc[l] # "turn" => i = 1)

\* What a lease asks of the keeper during its turn, or parks after it.
Asks == {"take", "release", "park"}
Asked(k) == \E i \in DOMAIN mail : mail[i].kind \in Asks /\ mail[i].lease = k

\* k had its fleet's turn and still counts with the keeper.
Turned(k) == pc[k] \in {"take", "thaw", "run", "freeze", "park"} \/ k \in parked \/ Asked(k)

\* The turns of the earlier leases of its fleet are over, and once k parks they
\* are past their own freeze.
Ordered ==
    \A j, k \in Leases : Before(j, k) =>
        /\ Turned(k) => pc[j] \in {"freeze", "park", "report", "done"}
        /\ pc[k] = "park" \/ k \in parked => pc[j] \in {"park", "report", "done"}

\* A request is of a lease that waits for its answer; a lease waits for one; and
\* what waits in the mailbox is of leases after those that parked, in turn.
Mailed ==
    \A i \in DOMAIN mail :
        /\ IF mail[i].kind \in {"close", "shutdown"} THEN mail[i].lease = None
                                                     ELSE mail[i].lease \in DOMAIN of
        /\ mail[i].kind \in {"take", "park"} => pc[mail[i].lease] = mail[i].kind
        /\ mail[i].box # None <=> mail[i].kind \in {"park", "discard"}
        /\ \A k \in DOMAIN mail :
              mail[i].kind \in {"take", "park"} /\ mail[k].kind = mail[i].kind
              /\ mail[k].lease = mail[i].lease => k = i
        /\ mail[i].kind \in Asks =>
              /\ \A k \in parked : of[k] = of[mail[i].lease] => k < mail[i].lease
              /\ \A k \in 1..(i - 1) :
                    mail[k].kind = "park" /\ of[mail[k].lease] = of[mail[i].lease]
                    => mail[k].lease < mail[i].lease

\* The lease to resume is the one before it, and it parked.
Resumes ==
    \A l \in Leases :
        /\ pc[l] = "take" => resume[l] # None
        /\ pc[l] \in {"turn", "take"} /\ resume[l] # None =>
              /\ resume[l] \in parked /\ Before(resume[l], l)
              /\ \A k \in DOMAIN of : Before(k, l) => k <= resume[l]

\* A hold is of the last lease of its fleet that parked.
Holding ==
    /\ keeps \subseteq parked /\ \A l \in parked : pc[l] \in {"report", "done"} /\ l \in DOMAIN of
    /\ \A l \in spooled \cup recorded : pc[l] = "done"
    /\ \A i \in DOMAIN held :
          /\ held[i].lease \in parked
          /\ \A k \in parked : of[k] = of[held[i].lease] => k <= held[i].lease

\* The lease that holds a sandbox or parked it ran in it last.
RanLast ==
    /\ \A i \in DOMAIN held : ran[held[i].box] = held[i].lease
    /\ \A i \in DOMAIN mail : mail[i].kind = "park" => ran[mail[i].box] = mail[i].lease
    /\ \A l \in Leases : pc[l] \in {"run", "freeze"} /\ hand[l] # None => ran[hand[l]] = l

Safe == TypeOK /\ Issued /\ Lines /\ Ordered /\ Mailed /\ Resumes /\ Holding

\* Only issued leases send, and a refused report is refused for good.
Refusals ==
    \A i \in DOMAIN mail :
        /\ mail[i].lease # None => pc[mail[i].lease] # "none"
        /\ mail[i].kind = "supersede" =>
              halted # "no" \/ (/\ mail[i].lease \notin recorded \cup spooled
                                /\ pc[mail[i].lease] = "done")

\* Who has a sandbox.
InHand(b) == \E l \in Leases : hand[l] = b
InMail(b) == \E i \in DOMAIN mail : mail[i].box = b
InHeld(b) == \E i \in DOMAIN held : held[i].box = b

\* No two have the same sandbox.
Single ==
    /\ \A k, l \in Leases : hand[k] # None /\ hand[k] = hand[l] => k = l
    /\ \A i, k \in DOMAIN mail : mail[i].box # None /\ mail[i].box = mail[k].box => i = k
    /\ \A i, k \in DOMAIN held : held[i].box = held[k].box => i = k

\* A sandbox that was built is in one place, and one that was not is in none.
OnePlace ==
    \A b \in Leases :
        /\ InHand(b) => ~InMail(b) /\ ~InHeld(b) /\ b \notin destroying /\ b \notin gone
        /\ InMail(b) => ~InHeld(b) /\ b \notin destroying /\ b \notin gone
        /\ InHeld(b) => b \notin destroying /\ b \notin gone
        /\ b \in destroying => b \notin gone
        /\ ran[b] # None <=> InHand(b) \/ InMail(b) \/ InHeld(b) \/ b \in destroying \/ b \in gone

\* A lease has a sandbox while it runs, and built none before.
Readied ==
    \A l \in Leases :
        /\ pc[l] \in {"none", "turn", "take", "thaw"} => ran[l] = None
        /\ pc[l] \in {"none", "turn", "take", "park", "done"} => hand[l] = None
        /\ pc[l] = "freeze" => hand[l] # None

Placed == Single /\ OnePlace /\ Readied

\* A keeper told to finish has nothing left to hear of.
Closing ==
    /\ keeper # "open" => held = <<>>
    /\ keeper \in {"finishing", "gone"} \/ Told("shutdown") => halted = "serving" /\ Active = {}
    /\ \A i \in DOMAIN mail : mail[i].box # None =>
          /\ keeper \notin {"finishing", "gone"}
          /\ \A k \in 1..(i - 1) : mail[k].kind # "shutdown"
    /\ keeper = "gone" => destroying = {}

IInv == Safe /\ RanLast /\ ResumesRecorded /\ Refusals /\ Placed /\ Closing

-----------------------------------------------------------------------------
(* Sequences. *)

\* A sequence with one more member.
LEMMA Appended ==
    ASSUME NEW S, NEW s \in Seq(S), NEW x \in S
    PROVE  /\ Append(s, x) \in Seq(S) /\ Len(Append(s, x)) = Len(s) + 1
           /\ Append(s, x)[Len(s) + 1] = x
           /\ \A i \in DOMAIN s : i \in DOMAIN Append(s, x) /\ Append(s, x)[i] = s[i]
           /\ \A i \in DOMAIN Append(s, x) : i \in DOMAIN s \/ i = Len(s) + 1
OBVIOUS

\* A sequence without its head.
LEMMA Tailed ==
    ASSUME NEW S, NEW s \in Seq(S), s # <<>>
    PROVE  /\ Tail(s) \in Seq(S) /\ Len(Tail(s)) = Len(s) - 1
           /\ 1 \in DOMAIN s /\ Head(s) = s[1] /\ Head(s) \in S
           /\ \A i \in DOMAIN Tail(s) : i + 1 \in DOMAIN s /\ Tail(s)[i] = s[i + 1] /\ i \in Nat \ {0}
           /\ \A i \in DOMAIN s : i # 1 => i - 1 \in DOMAIN Tail(s) /\ Tail(s)[i - 1] = s[i]
OBVIOUS

\* t is s with some members left out.
Thinned(t, s) ==
    /\ Len(t) <= Len(s)
    /\ \A j \in DOMAIN t : \E i \in DOMAIN s : t[j] = s[i]
    /\ \A j, k \in DOMAIN t : j # k => \E i, h \in DOMAIN s : i # h /\ t[j] = s[i] /\ t[k] = s[h]

\* Without leaves out one.
LEMMA WithoutOne ==
    ASSUME NEW S, NEW s \in Seq(S), NEW i \in DOMAIN s
    PROVE  /\ Without(s, i) \in Seq(S) /\ Len(Without(s, i)) = Len(s) - 1
           /\ \A j \in DOMAIN Without(s, i) :
                 /\ j < i => j \in DOMAIN s /\ Without(s, i)[j] = s[j]
                 /\ j >= i => j + 1 \in DOMAIN s /\ Without(s, i)[j] = s[j + 1]
           /\ \A j \in DOMAIN s : /\ j < i => j \in DOMAIN Without(s, i) /\ Without(s, i)[j] = s[j]
                                  /\ j > i => j - 1 \in DOMAIN Without(s, i) /\ Without(s, i)[j - 1] = s[j]
<1> DEFINE t == Without(s, i)
<1>1. s \in [1..Len(s) -> S] /\ Len(s) \in Nat /\ i \in 1..Len(s) OBVIOUS
<1>2. \A j \in 1..(Len(s) - 1) : (IF j < i THEN s[j] ELSE s[j + 1]) \in S BY <1>1
<1>3. t \in [1..(Len(s) - 1) -> S] BY <1>2 DEF Without
<1>5. \A j \in 1..(Len(s) - 1) : t[j] = IF j < i THEN s[j] ELSE s[j + 1] BY DEF Without
<1>6. Len(s) - 1 \in Nat BY <1>1
<1> HIDE DEF t
<1>4. t \in Seq(S) /\ Len(t) = Len(s) - 1 /\ DOMAIN t = 1..(Len(s) - 1) BY <1>3, <1>6
<1> QED BY <1>1, <1>4, <1>5 DEF t

\* The tail leaves out the first.
LEMMA TailWithout ==
    ASSUME NEW S, NEW s \in Seq(S), s # <<>>
    PROVE  Tail(s) = Without(s, 1) /\ 1 \in DOMAIN s
<1>1. Len(s) \in Nat \ {0} /\ 1 \in DOMAIN s OBVIOUS
<1>2. /\ Len(Without(s, 1)) = Len(s) - 1 /\ Without(s, 1) \in Seq(S)
      /\ \A k \in DOMAIN Without(s, 1) : k >= 1 => Without(s, 1)[k] = s[k + 1]
    BY <1>1, WithoutOne
<1> DEFINE t == Without(s, 1)
           u == Tail(s)
<1> HIDE DEF t
<1>3. Len(u) = Len(s) - 1 /\ u \in Seq(S) /\ \A k \in 1..(Len(s) - 1) : u[k] = s[k + 1] OBVIOUS
<1> HIDE DEF u
<1>4. /\ Len(t) = Len(s) - 1 /\ t \in Seq(S)
      /\ \A k \in DOMAIN t : k >= 1 => t[k] = s[k + 1]
    BY <1>2 DEF t
<1>5. \A k \in 1..Len(t) : t[k] = u[k] BY <1>1, <1>3, <1>4
<1>6. t = u BY <1>3, <1>4, <1>5
<1> QED BY <1>1, <1>6 DEF t, u

\* Without thins a sequence, and leaves out the member at that place.
LEMMA WithoutThins ==
    ASSUME NEW S, NEW s \in Seq(S), NEW i \in DOMAIN s
    PROVE  /\ Without(s, i) \in Seq(S) /\ Thinned(Without(s, i), s)
           /\ \A j \in DOMAIN Without(s, i) :
                 \E k \in DOMAIN s : k # i /\ Without(s, i)[j] = s[k]
<1> DEFINE t == Without(s, i)
<1>1. i \in Nat /\ t \in Seq(S) /\ Len(t) = Len(s) - 1 /\ Len(s) \in Nat
    /\ DOMAIN t \subseteq Nat /\ DOMAIN s \subseteq Nat
    BY WithoutOne
<1>2. \A j \in DOMAIN t : /\ j < i => j \in DOMAIN s /\ t[j] = s[j]
                          /\ j >= i => j + 1 \in DOMAIN s /\ t[j] = s[j + 1]
    BY WithoutOne
<1> HIDE DEF t
<1>3. \A j \in DOMAIN t : \E k \in DOMAIN s : k # i /\ t[j] = s[k] BY <1>1, <1>2
<1>4. ASSUME NEW j \in DOMAIN t, NEW k \in DOMAIN t, j # k
      PROVE  \E g, h \in DOMAIN s : g # h /\ t[j] = s[g] /\ t[k] = s[h]
    <2> DEFINE at(n) == IF n < i THEN n ELSE n + 1
    <2>1. at(j) \in DOMAIN s /\ t[j] = s[at(j)] /\ at(k) \in DOMAIN s /\ t[k] = s[at(k)]
        BY <1>1, <1>2
    <2>2. at(j) # at(k) BY <1>1, <1>4
    <2> QED BY <2>1, <2>2
<1>5. Thinned(t, s) BY <1>1, <1>3, <1>4 DEF Thinned
<1> QED BY <1>1, <1>3, <1>5 DEF t

\* Newest thins a sequence to at most n members.
LEMMA NewestThins ==
    ASSUME NEW S, NEW s \in Seq(S), NEW n \in Nat
    PROVE  Newest(s, n) \in Seq(S) /\ Thinned(Newest(s, n), s) /\ Len(Newest(s, n)) <= n
<1>1. CASE Len(s) <= n BY <1>1 DEF Newest, Thinned
<1>2. CASE Len(s) > n
    <2> DEFINE t == SubSeq(s, Len(s) - n + 1, Len(s))
               d == Len(s) - n
    <2>1. t \in Seq(S) /\ Len(t) = n /\ d \in Nat /\ Len(s) \in Nat BY <1>2
    <2>2. \A j \in 1..n : j + d \in 1..Len(s) /\ t[j] = s[j + d] BY <1>2
    <2>3. DOMAIN t = 1..n /\ DOMAIN s = 1..Len(s) BY <2>1
    <2> HIDE DEF t, d
    <2>4. ASSUME NEW j \in DOMAIN t, NEW k \in DOMAIN t, j # k
          PROVE  \E g, h \in DOMAIN s : g # h /\ t[j] = s[g] /\ t[k] = s[h]
        <3>1. j + d # k + d BY <2>1, <2>3, <2>4
        <3> QED BY <2>2, <2>3, <3>1
    <2>5. Len(t) <= Len(s) /\ Len(t) <= n BY <1>2, <2>1
    <2>8. \A j \in DOMAIN t : \E i \in DOMAIN s : t[j] = s[i] BY <2>2, <2>3
    <2>6. Thinned(t, s) BY <2>4, <2>5, <2>8, Zenon DEF Thinned
    <2>7. Newest(s, n) = t BY <1>2 DEF Newest, t
    <2> QED BY <2>1, <2>5, <2>6, <2>7
<1> QED BY <1>1, <1>2

\* To thin twice is to thin.
LEMMA ThinsTwice ==
    ASSUME NEW S, NEW s \in Seq(S), NEW t \in Seq(S), NEW u \in Seq(S), Thinned(t, s), Thinned(u, t)
    PROVE  Thinned(u, s)
BY DEF Thinned

-----------------------------------------------------------------------------
(* What the steps have in common. *)

Msg == [kind : Kinds, lease : Leases \cup {None}, box : Leases \cup {None}]

\* Leases are numbers, and each that may be issued is of a fleet.
LEMMA OfTyped ==
    ASSUME TypeOK
    PROVE  /\ Leases \subseteq Nat \ {0} /\ None \notin Leases /\ Other \notin Leases /\ Other # None
           /\ DOMAIN of \subseteq Leases /\ \A l \in DOMAIN of : of[l] \in Fleets
<1>1. PICK L \in SUBSET Leases : of \in [L -> Fleets] BY HostAssumption DEF TypeOK
<1> QED BY <1>1, HostAssumption

\* A message goes to the end of the mailbox.
LEMMA SentLast ==
    ASSUME TypeOK, NEW kind \in Kinds, NEW l \in Leases \cup {None}, NEW b \in Leases \cup {None},
           Send(kind, l, b)
    PROVE  /\ Len(mail) \in Nat /\ DOMAIN mail = 1..Len(mail) /\ mail' \in Seq(Msg)
           /\ DOMAIN mail' = 1..(Len(mail) + 1)
           /\ \A i \in 1..Len(mail) : mail'[i] = mail[i]
           /\ mail'[Len(mail) + 1] = [kind |-> kind, lease |-> l, box |-> b]
<1> DEFINE m == [kind |-> kind, lease |-> l, box |-> b]
<1>1. mail \in Seq(Msg) /\ m \in Msg /\ mail' = Append(mail, m) BY DEF TypeOK, Msg, Send
<1> HIDE DEF m
<1>2. /\ Len(mail) \in Nat /\ DOMAIN mail = 1..Len(mail) /\ mail' \in Seq(Msg)
      /\ DOMAIN mail' = 1..(Len(mail) + 1)
      /\ \A i \in 1..Len(mail) : mail'[i] = mail[i]
      /\ mail'[Len(mail) + 1] = m
    BY <1>1
<1> QED BY <1>2 DEF m

\* And is taken from its front.
LEMMA ReceivedFirst ==
    ASSUME TypeOK, NEW kind, Receive(kind)
    PROVE  /\ Len(mail) \in Nat \ {0} /\ DOMAIN mail = 1..Len(mail) /\ mail' \in Seq(Msg)
           /\ DOMAIN mail' = 1..(Len(mail) - 1)
           /\ \A i \in 1..(Len(mail) - 1) : mail'[i] = mail[i + 1]
           /\ Head(mail) = mail[1] /\ mail[1] \in Msg /\ mail[1].kind = kind
<1>1. mail \in Seq(Msg) /\ mail # <<>> /\ mail' = Tail(mail) /\ Head(mail).kind = kind
    BY DEF TypeOK, Msg, Receive
<1> QED BY <1>1

\* The messages are of their type.
LEMMA MailTyped ==
    ASSUME TypeOK
    PROVE  /\ Len(mail) \in Nat /\ DOMAIN mail = 1..Len(mail)
           /\ \A i \in DOMAIN mail : mail[i] \in Msg /\ mail[i].kind \in Kinds
                   /\ mail[i].lease \in Leases \cup {None} /\ mail[i].box \in Leases \cup {None}
<1>1. mail \in Seq(Msg) BY DEF TypeOK, Msg
<1>2. \A i \in DOMAIN mail : mail[i] \in Msg BY <1>1
<1> QED BY <1>1, <1>2 DEF Msg

\* What is left of the holds is some of them, each once.
LEMMA LessThins ==
    ASSUME TypeOK, NEW at \in SUBSET DOMAIN held
    PROVE  Less(at) \in Seq(Entry) /\ Thinned(Less(at), held)
<1>1. held \in Seq(Entry) BY DEF TypeOK
<1>2. CASE at = {} BY <1>1, <1>2 DEF Less, Thinned
<1>3. CASE at # {}
    <2> DEFINE i == CHOOSE i \in at : TRUE
    <2>1. i \in at /\ i \in DOMAIN held BY <1>3
    <2>2. Less(at) = Without(held, i) BY <1>3 DEF Less
    <2> HIDE DEF i
    <2> QED BY <1>1, <2>1, <2>2, WithoutThins
<1> QED BY <1>2, <1>3

\* Less takes out the one hold it is given.
LEMMA LessOne ==
    ASSUME TypeOK, NEW i \in DOMAIN held
    PROVE  \A j \in DOMAIN Less({i}) : \E k \in DOMAIN held : k # i /\ Less({i})[j] = held[k]
<1>1. held \in Seq(Entry) BY DEF TypeOK
<1>2. Less({i}) = Without(held, i) BY DEF Less
<1> QED BY <1>1, <1>2, WithoutThins

\* Without its fleet's hold no hold is of that fleet.
LEMMA LessFleet ==
    ASSUME TypeOK, NEW f
    PROVE  /\ Less(Position(f)) \in Seq(Entry) /\ Thinned(Less(Position(f)), held)
           /\ \A j \in DOMAIN Less(Position(f)) : of[Less(Position(f))[j].lease] # f
<1>1. Position(f) \in SUBSET DOMAIN held BY DEF Position
<1>2. Position(f) = {i \in DOMAIN held : of[held[i].lease] = f}
    <2>1. held \in Seq(Entry) BY DEF TypeOK
    <2>2. ASSUME NEW i \in DOMAIN held, of[held[i].lease] = f
          PROVE  \A k \in 1..(i - 1) : of[held[k].lease] # f
        <3>1. \A k \in 1..(i - 1) : k \in DOMAIN held /\ k # i BY <2>1
        <3> QED BY <2>2, <3>1 DEF TypeOK
    <2> QED BY <2>2 DEF Position
<1>3. CASE Position(f) = {} BY <1>1, <1>2, <1>3, LessThins DEF Less
<1>4. CASE Position(f) # {}
    <2>1. PICK i : Position(f) = {i}
        <3>1. PICK i \in Position(f) : TRUE BY <1>4
        <3>2. \A k \in Position(f) : k = i
            <4> SUFFICES ASSUME NEW k \in Position(f) PROVE k = i OBVIOUS
            <4>1. /\ i \in DOMAIN held /\ of[held[i].lease] = f
                  /\ k \in DOMAIN held /\ of[held[k].lease] = f
                BY <1>2, <3>1
            <4> QED BY <4>1 DEF TypeOK
        <3> QED BY <3>1, <3>2
    <2>2. \A k \in DOMAIN held : k # i => of[held[k].lease] # f
        <3>1. \A k \in DOMAIN held : of[held[k].lease] = f => k \in Position(f) BY <1>2
        <3> QED BY <2>1, <3>1
    <2>3. \A j \in DOMAIN Less(Position(f)) :
              \E k \in DOMAIN held : k # i /\ Less(Position(f))[j] = held[k]
        BY <1>1, <2>1, LessOne
    <2>4. Less(Position(f)) \in Seq(Entry) /\ Thinned(Less(Position(f)), held) BY <1>1, LessThins
    <2>5. \A j \in DOMAIN Less(Position(f)) : of[Less(Position(f))[j].lease] # f
        <3> DEFINE t == Less(Position(f))
        <3>1. \A j \in DOMAIN t : \E k \in DOMAIN held : k # i /\ t[j] = held[k] BY <2>3
        <3> HIDE DEF t
        <3>2. \A j \in DOMAIN t : of[t[j].lease] # f BY <2>2, <3>1
        <3> QED BY <3>2 DEF t
    <2> QED BY <2>4, <2>5
<1> QED BY <1>3, <1>4

\* Holds that are left out end; the others stay within the keeper's limits.
LEMMA KeepTyped ==
    ASSUME TypeOK, NEW left \in Seq(Entry), Thinned(left, held), NEW out, NEW extra \in SUBSET Leases,
           Keep(left, out, extra), UNCHANGED of
    PROVE  /\ held' = left /\ held' \in Seq(Entry) /\ Len(held') \in Nat /\ Len(held') <= Len(held)
           /\ Len(held') <= workers
           /\ \A i, k \in DOMAIN held' : of'[held'[i].lease] = of'[held'[k].lease] => i = k
           /\ destroying' \subseteq Leases
<1>1. held' = left /\ Len(left) <= Len(held) /\ Len(held) <= workers /\ workers \in Int
      /\ Len(held) \in Nat /\ Len(left) \in Nat
    BY DEF Keep, Thinned, TypeOK
<1>2. \A i, k \in DOMAIN left : of[left[i].lease] = of[left[k].lease] => i = k
    <2> SUFFICES ASSUME NEW i \in DOMAIN left, NEW k \in DOMAIN left, i # k
                 PROVE  of[left[i].lease] # of[left[k].lease]
        OBVIOUS
    <2>1. PICK g \in DOMAIN held, h \in DOMAIN held : g # h /\ left[i] = held[g] /\ left[k] = held[h]
        BY DEF Thinned
    <2> QED BY <2>1 DEF TypeOK
<1>3. Boxes(held) \subseteq Leases
    <2>1. \A i \in DOMAIN held : held[i] \in Entry BY DEF TypeOK
    <2> QED BY <2>1 DEF Boxes, Entry
<1>4. destroying' \subseteq Leases BY <1>3 DEF Keep, TypeOK
<1> QED BY <1>1, <1>2, <1>4

\* A lease in line is issued, and its fleet's line is not empty.
LEMMA StandsInLine ==
    ASSUME Safe, NEW l \in Leases, InLine(l)
    PROVE  /\ l \in DOMAIN of /\ of[l] \in Fleets /\ turn[of[l]] \in Seq(Leases) /\ turn[of[l]] # <<>>
           /\ pc[l] # "turn" => Head(turn[of[l]]) = l
<1>1. l \in DOMAIN of /\ of[l] \in Fleets BY OfTyped DEF Safe, Issued, InLine, Standing
<1>2. turn[of[l]] \in Seq(Leases) BY <1>1 DEF Safe, TypeOK
<1>3. PICK i \in DOMAIN turn[of[l]] : turn[of[l]][i] = l /\ (pc[l] # "turn" => i = 1) BY DEF Safe, Lines
<1>4. turn[of[l]] # <<>> BY <1>3
<1> QED BY <1>1, <1>2, <1>3, <1>4

\* The steps that leave every lease where it is.
Aside == \/ \E f \in Fleets : IssueElsewhere(f)
         \/ \E l \in Leases : Drain(l) \/ LetGo(l)
         \/ Halt \/ Stop \/ Release \/ Discard \/ Resize

\* They change nothing of a lease or its sandbox.
LEMMA AsideFrame == ASSUME Aside PROVE UNCHANGED <<of, resume, pc, hand, parked, turn, ran>>
BY DEF Aside, Stop, IssueElsewhere, Drain, LetGo, Halt, Close, Shutdown, Finish, Release, Discard,
       Resize, End, leaseVars

\* What a message that reaches the keeper says of its lease.
LEMMA HeadSays ==
    ASSUME Safe, NEW kind, Receive(kind)
    PROVE  /\ Head(mail) = mail[1] /\ 1 \in DOMAIN mail /\ mail[1].kind = kind /\ kind \in Kinds
           /\ kind \notin {"close", "shutdown"} => mail[1].lease \in DOMAIN of /\ mail[1].lease \in Leases
           /\ kind \in {"take", "park"} => pc[mail[1].lease] = kind
           /\ kind \in {"park", "discard"} => mail[1].box \in Leases
           /\ kind \notin {"park", "discard"} => mail[1].box = None
<1>1. Head(mail) = mail[1] /\ 1 \in DOMAIN mail /\ mail[1].kind = kind BY ReceivedFirst DEF Safe
<1>2. mail[1] \in Msg /\ kind \in Kinds /\ mail[1].box \in Leases \cup {None}
    BY <1>1, MailTyped DEF Safe
<1> QED BY <1>1, <1>2, OfTyped DEF Safe, Mailed

\* What Park does to the holds.
LEMMA ParkKeeps ==
    ASSUME Safe, Park
    PROVE  /\ mail[1].lease \in Leases /\ mail[1].box \in Leases /\ Goes(mail[1].lease, "report")
           /\ UNCHANGED <<daemonVars, of, resume, spooled, turn, ran, halted, workers, keeper, gone>>
           /\ \/ /\ keeper # "open" /\ Keep(held, {}, {})
                 /\ hand' = [hand EXCEPT ![mail[1].lease] = mail[1].box] /\ UNCHANGED parked
              \/ /\ keeper = "open" /\ parked' = parked \cup {mail[1].lease} /\ UNCHANGED hand
                 /\ \E rest \in Seq(Entry) :
                       /\ Thinned(rest, held) /\ Len(rest) <= workers - 1
                       /\ \A j \in DOMAIN rest : of[rest[j].lease] # of[mail[1].lease]
                       /\ Keep(Append(rest, [lease |-> mail[1].lease, box |-> mail[1].box]), {}, {})
<1> DEFINE m == mail[1]
           less == Less(Position(of[m.lease]))
           rest == Newest(less, workers - 1)
<1>1. Head(mail) = m /\ m.lease \in Leases /\ m.box \in Leases BY HeadSays DEF Park
<1>2. workers - 1 \in Nat BY HostAssumption DEF Safe, TypeOK
<1>3. held \in Seq(Entry) BY DEF Safe, TypeOK
<1>4. less \in Seq(Entry) /\ Thinned(less, held) /\ \A j \in DOMAIN less : of[less[j].lease] # of[m.lease]
    BY LessFleet DEF Safe
<1>5. /\ Goes(m.lease, "report")
      /\ UNCHANGED <<daemonVars, of, resume, spooled, turn, ran, halted, workers, keeper, gone>>
      /\ IF keeper = "open"
         THEN /\ Keep(Append(rest, [lease |-> m.lease, box |-> m.box]), {}, {})
              /\ parked' = parked \cup {m.lease} /\ UNCHANGED hand
         ELSE /\ Keep(held, {}, {})
              /\ hand' = [hand EXCEPT ![m.lease] = m.box] /\ UNCHANGED parked
    BY <1>1 DEF Park
<1> HIDE DEF less
<1>6. rest \in Seq(Entry) /\ Thinned(rest, less) /\ Len(rest) <= workers - 1
    BY <1>2, <1>4, NewestThins
<1> HIDE DEF rest
<1>7. Thinned(rest, held) BY <1>3, <1>4, <1>6, ThinsTwice
<1>8. \A j \in DOMAIN rest : of[rest[j].lease] # of[m.lease]
    <2>1. \A j \in DOMAIN rest : \E i \in DOMAIN less : rest[j] = less[i] BY <1>6 DEF Thinned
    <2> QED BY <1>4, <2>1
<1>9. CASE keeper # "open" BY <1>1, <1>5, <1>9
<1>10. CASE keeper = "open" BY <1>1, <1>5, <1>6, <1>7, <1>8, <1>10
<1> QED BY <1>9, <1>10

\* Every step keeps the types, and the keeper within its limits.
LEMMA TypeStep ==
    ASSUME Safe, [Next]_vars
    PROVE  TypeOK'
<1> USE DEF Safe
<1>0. /\ Leases \subseteq Nat \ {0} /\ None \notin Leases /\ Other \notin Leases /\ Other # None
      /\ DOMAIN of \subseteq Leases /\ \A l \in DOMAIN of : of[l] \in Fleets
    BY OfTyped
<1>1. CASE UNCHANGED vars
    BY <1>1 DEF TypeOK, vars, daemonVars, leaseVars, keeperVars
<1>2. ASSUME NEW f \in Fleets, IssueElsewhere(f) PROVE TypeOK'
    BY <1>2, HostAssumption DEF TypeOK, IssueElsewhere, leaseVars, keeperVars
<1>3. ASSUME NEW l \in Leases, Issue(l) PROVE TypeOK'
    <2>1. lapses' \in 0..MaxLapses BY <1>3, HostAssumption DEF Issue, Claimable, TypeOK
    <2>2. turn' \in [Fleets -> Seq(Leases)] BY <1>3, <1>0 DEF Issue, TypeOK
    <2>3. resume' \in [Leases -> Leases \cup {None}] BY <1>3 DEF Issue, TypeOK
    <2> QED BY <1>3, <1>0, <2>1, <2>2, <2>3 DEF TypeOK, Issue, Goes, keeperVars
<1>4. ASSUME NEW l \in Leases, GiveUp(l) PROVE TypeOK'
    <2>1. l \in DOMAIN of /\ of[l] \in Fleets /\ turn[of[l]] \in Seq(Leases)
        BY <1>4, StandsInLine DEF InLine, Standing, GiveUp
    <2>2. \A i \in DOMAIN turn[of[l]] : Without(turn[of[l]], i) \in Seq(Leases) BY <2>1, WithoutOne
    <2>3. turn' \in [Fleets -> Seq(Leases)]
        <3>1. PICK i \in DOMAIN turn[of[l]] : turn' = [turn EXCEPT ![of[l]] = Without(@, i)]
            BY <1>4 DEF GiveUp
        <3> QED BY <3>1, <2>1, <2>2 DEF TypeOK
    <2> QED BY <1>4, <2>3 DEF TypeOK, GiveUp, Goes, daemonVars, keeperVars
<1>5. ASSUME NEW l \in Leases, HasTurn(l)
      PROVE  /\ l \in DOMAIN of /\ of[l] \in Fleets /\ Tail(turn[of[l]]) \in Seq(Leases)
             /\ \A kind \in Kinds : Send(kind, l, None) => mail' \in Seq(Msg)
    <2>1. l \in DOMAIN of /\ of[l] \in Fleets /\ turn[of[l]] \in Seq(Leases) /\ turn[of[l]] # <<>>
        BY <1>5, StandsInLine DEF InLine, Standing, HasTurn
    <2> QED BY <2>1, SentLast, Tailed
<1>6. ASSUME NEW l \in Leases, BuildFresh(l) PROVE TypeOK'
    <2>1. mail' \in Seq(Msg) BY <1>5, <1>6 DEF BuildFresh, Kinds
    <2> QED BY <1>6, <2>1 DEF TypeOK, BuildFresh, Build, Goes, Msg, daemonVars, keeperVars
<1>7. ASSUME NEW l \in Leases, Refuse(l) PROVE TypeOK'
    <2>1. mail' \in Seq(Msg) BY <1>5, <1>7 DEF Refuse, Kinds
    <2>2. turn' \in [Fleets -> Seq(Leases)] BY <1>5, <1>7 DEF Refuse, TypeOK
    <2> QED BY <1>7, <2>1, <2>2 DEF TypeOK, Refuse, Goes, Msg, daemonVars, keeperVars
<1>8. ASSUME NEW l \in Leases, RunBare(l) PROVE TypeOK'
    BY <1>8 DEF TypeOK, RunBare, Goes, daemonVars, keeperVars
<1>9. ASSUME NEW l \in Leases, AskHeld(l) PROVE TypeOK'
    <2>1. mail' \in Seq(Msg) BY <1>5, <1>9 DEF AskHeld, Kinds
    <2> QED BY <1>9, <2>1 DEF TypeOK, AskHeld, Goes, Msg, daemonVars, keeperVars
<1>10. ASSUME NEW l \in Leases, Thaw(l) PROVE TypeOK'
    <2>1. mail' \in Seq(Msg)
        <3>1. UNCHANGED mail \/ Send("discard", l, hand[l]) BY <1>10 DEF Thaw
        <3>2. "discard" \in Kinds /\ hand[l] \in Leases \cup {None} BY DEF Kinds, TypeOK
        <3> QED BY <3>1, <3>2, SentLast DEF TypeOK, Msg
    <2>2. hand' \in [Leases -> Leases \cup {None}] BY <1>10 DEF Thaw, Build, TypeOK
    <2>3. ran' \in [Leases -> Leases \cup {None}]
        <3>1. PICK b \in Leases : ran' = [ran EXCEPT ![b] = l] BY <1>10 DEF Thaw, Build, TypeOK
        <3> QED BY <3>1 DEF TypeOK
    <2>4. Goes(l, "run") /\ UNCHANGED <<daemonVars, of, resume, parked, spooled, turn, halted, keeperVars, gone>>
        BY <1>10 DEF Thaw
    <2> QED BY <2>1, <2>2, <2>3, <2>4 DEF TypeOK, Goes, Msg, daemonVars, keeperVars
<1>11. ASSUME NEW l \in Leases, EndRun(l) PROVE TypeOK'
    <2>1. of[l] \in Fleets /\ Tail(turn[of[l]]) \in Seq(Leases)
        BY <1>11, StandsInLine, Tailed DEF InLine, Standing, EndRun
    <2>2. turn' \in [Fleets -> Seq(Leases)] BY <1>11, <2>1 DEF EndRun, TypeOK
    <2> QED BY <1>11, <2>2 DEF TypeOK, EndRun, Goes, daemonVars, keeperVars
<1>12. ASSUME NEW l \in Leases, Freeze(l) PROVE TypeOK'
    <2>1. mail' \in Seq(Msg)
        <3>1. UNCHANGED mail \/ Send("park", l, hand[l]) BY <1>12 DEF Freeze
        <3>2. "park" \in Kinds /\ hand[l] \in Leases \cup {None} BY DEF Kinds, TypeOK
        <3> QED BY <3>1, <3>2, SentLast DEF TypeOK, Msg
    <2> QED BY <1>12, <2>1 DEF TypeOK, Freeze, Goes, Msg, daemonVars, keeperVars
<1>13. ASSUME NEW l \in Leases, Recorded(l) \/ UNCHANGED daemonVars
       PROVE  /\ latest' \in [Fleets -> Leases \cup {Other, None}]
              /\ recorded' \subseteq Leases /\ keeps' \subseteq recorded' /\ lapses' \in 0..MaxLapses
    BY <1>13 DEF TypeOK, Recorded, daemonVars
<1>14. ASSUME NEW l \in Leases, UNCHANGED mail \/ Send("supersede", l, None) PROVE mail' \in Seq(Msg)
    <2>1. "supersede" \in Kinds BY DEF Kinds
    <2> QED BY <1>14, <2>1, SentLast DEF TypeOK, Msg
<1>15. ASSUME NEW l \in Leases, Report(l) PROVE TypeOK'
    <2>1. mail' \in Seq(Msg) BY <1>14, <1>15 DEF Report, Supersede
    <2>2. /\ latest' \in [Fleets -> Leases \cup {Other, None}]
          /\ recorded' \subseteq Leases /\ keeps' \subseteq recorded' /\ lapses' \in 0..MaxLapses
        BY <1>13, <1>15 DEF Report, Refused
    <2>3. spooled' \subseteq Leases /\ halted' \in {"no", "leasing", "serving"}
        BY <1>15 DEF Report, TypeOK
    <2> QED BY <1>15, <2>1, <2>2, <2>3 DEF TypeOK, Report, Goes, Msg, keeperVars
<1>16. ASSUME NEW l \in Leases, Drain(l) PROVE TypeOK'
    <2>1. mail' \in Seq(Msg) BY <1>14, <1>16 DEF Drain
    <2>2. /\ latest' \in [Fleets -> Leases \cup {Other, None}]
          /\ recorded' \subseteq Leases /\ keeps' \subseteq recorded' /\ lapses' \in 0..MaxLapses
        BY <1>13, <1>16 DEF Drain, Refused
    <2> QED BY <1>16, <2>1, <2>2 DEF TypeOK, Drain, Msg, keeperVars
<1>17. CASE Halt BY <1>17 DEF TypeOK, Halt, daemonVars, leaseVars, keeperVars
<1>18. CASE Close \/ Shutdown
    <2>1. Send("close", None, None) \/ Send("shutdown", None, None) BY <1>18 DEF Close, Shutdown
    <2>2. mail' \in Seq(Msg) BY <2>1, SentLast DEF Kinds
    <2> QED BY <1>18, <2>2 DEF TypeOK, Close, Shutdown, Msg, daemonVars, leaseVars, keeperVars
<1>19. CASE Finish BY <1>19 DEF TypeOK, Finish, daemonVars, leaseVars
<1>20. ASSUME NEW left \in Seq(Entry), Thinned(left, held), NEW out, NEW extra \in SUBSET Leases,
              Keep(left, out, extra), UNCHANGED <<of, workers>>
       PROVE  /\ held' \in Seq(Entry) /\ Len(held') <= workers'
              /\ \A i, k \in DOMAIN held' : of'[held'[i].lease] = of'[held'[k].lease] => i = k
              /\ destroying' \subseteq Leases
    BY <1>20, KeepTyped
<1>21. ASSUME NEW kind, Receive(kind) PROVE mail' \in Seq(Msg) BY <1>21, ReceivedFirst
<1>22. held \in Seq(Entry) /\ Thinned(held, held) BY DEF TypeOK, Thinned
<1>23. \A i \in DOMAIN held : /\ Without(held, i) \in Seq(Entry) /\ Thinned(Without(held, i), held)
                              /\ held[i] \in Entry
    BY <1>22, WithoutThins
<1>24. <<>> \in Seq(Entry) /\ Thinned(<<>>, held) BY <1>22 DEF Thinned
<1>25. CASE Take
    <2> DEFINE l == Head(mail).lease
    <2>1. mail' \in Seq(Msg) BY <1>21, <1>25 DEF Take
    <2>2. Less(Position(of[l])) \in Seq(Entry) /\ Thinned(Less(Position(of[l])), held) BY LessFleet
    <2>3. \A i \in Position(of[l]) : i \in DOMAIN held BY DEF Position
    <2> HIDE DEF l
    <2>4. /\ Goes(l, "thaw")
          /\ UNCHANGED <<daemonVars, of, resume, parked, spooled, turn, ran, halted, workers, keeper, gone>>
          /\ \/ \E i \in DOMAIN held : /\ hand' = [hand EXCEPT ![l] = held[i].box]
                                       /\ Keep(Without(held, i), {held[i].box}, {})
             \/ Keep(Less(Position(of[l])), {}, {}) /\ UNCHANGED hand
        BY <1>25, <2>3 DEF Take, l
    <2>5. /\ held' \in Seq(Entry) /\ Len(held') <= workers'
          /\ \A i, k \in DOMAIN held' : of'[held'[i].lease] = of'[held'[k].lease] => i = k
          /\ destroying' \subseteq Leases
        <3>1. ASSUME NEW i \in DOMAIN held, Keep(Without(held, i), {held[i].box}, {})
              PROVE  /\ held' \in Seq(Entry) /\ Len(held') <= workers'
                     /\ \A j, k \in DOMAIN held' : of'[held'[j].lease] = of'[held'[k].lease] => j = k
                     /\ destroying' \subseteq Leases
            BY <1>20, <1>23, <2>4, <3>1
        <3>2. CASE Keep(Less(Position(of[l])), {}, {}) BY <1>20, <2>2, <2>4, <3>2
        <3> QED BY <2>4, <3>1, <3>2
    <2>6. hand' \in [Leases -> Leases \cup {None}]
        <3>1. \A i \in DOMAIN held : held[i].box \in Leases BY <1>23 DEF Entry
        <3> QED BY <2>4, <3>1 DEF TypeOK
    <2> QED BY <2>1, <2>4, <2>5, <2>6 DEF TypeOK, Goes, Msg, daemonVars
<1>26. CASE Park
    <2> DEFINE m == mail[1]
               e == [lease |-> m.lease, box |-> m.box]
    <2>1. mail' \in Seq(Msg) BY <1>21, <1>26 DEF Park
    <2>3. m.lease \in Leases /\ m.box \in Leases /\ Goes(m.lease, "report") BY <1>26, ParkKeeps
    <2>4. workers \in Nat \ {0} BY HostAssumption DEF TypeOK
    <2>7. /\ UNCHANGED <<daemonVars, of, resume, spooled, turn, ran, halted, workers, keeper, gone>>
          /\ UNCHANGED parked \/ parked' = parked \cup {m.lease}
          /\ UNCHANGED hand \/ hand' = [hand EXCEPT ![m.lease] = m.box]
        BY <1>26, ParkKeeps
    <2>8. e \in Entry BY <2>3 DEF Entry
    <2>9. /\ held' \in Seq(Entry) /\ Len(held') <= workers'
          /\ \A i, k \in DOMAIN held' : of'[held'[i].lease] = of'[held'[k].lease] => i = k
          /\ destroying' \subseteq Leases
        <3>1. CASE Keep(held, {}, {}) BY <1>20, <1>22, <2>7, <3>1
        <3>2. ASSUME NEW rest \in Seq(Entry), Thinned(rest, held), Len(rest) <= workers - 1,
                     \A j \in DOMAIN rest : of[rest[j].lease] # of[m.lease],
                     Keep(Append(rest, e), {}, {})
              PROVE  /\ held' \in Seq(Entry) /\ Len(held') <= workers'
                     /\ \A i, k \in DOMAIN held' : of'[held'[i].lease] = of'[held'[k].lease] => i = k
                     /\ destroying' \subseteq Leases
            <4>1. held' = Append(rest, e) BY <3>2 DEF Keep
            <4>2. /\ held' \in Seq(Entry) /\ Len(held') = Len(rest) + 1 /\ Len(rest) \in Nat
                  /\ DOMAIN rest = 1..Len(rest) /\ DOMAIN held' = 1..(Len(rest) + 1)
                  /\ held'[Len(rest) + 1] = e /\ \A i \in 1..Len(rest) : held'[i] = rest[i]
                BY <2>8, <3>2, <4>1
            <4>3. \A i, k \in DOMAIN rest : of[rest[i].lease] = of[rest[k].lease] => i = k
                <5> SUFFICES ASSUME NEW i \in DOMAIN rest, NEW k \in DOMAIN rest, i # k
                             PROVE  of[rest[i].lease] # of[rest[k].lease]
                    OBVIOUS
                <5>1. PICK g \in DOMAIN held, h \in DOMAIN held :
                            g # h /\ rest[i] = held[g] /\ rest[k] = held[h]
                    BY <3>2 DEF Thinned
                <5> QED BY <5>1 DEF TypeOK
            <4>4. e.lease = m.lease OBVIOUS
            <4> HIDE DEF e
            <4>5. \A i, k \in DOMAIN held' : of[held'[i].lease] = of[held'[k].lease] => i = k
                BY <3>2, <4>2, <4>3, <4>4
            <4>6. destroying' \subseteq Leases
                <5>1. Boxes(held) \subseteq Leases BY <1>23 DEF Boxes, Entry
                <5> QED BY <3>2, <5>1 DEF Keep, TypeOK
            <4> QED BY <2>4, <2>7, <3>2, <4>2, <4>5, <4>6
        <3>3. Keep(held, {}, {}) \/
              \E rest \in Seq(Entry) :
                 /\ Thinned(rest, held) /\ Len(rest) <= workers - 1
                 /\ \A j \in DOMAIN rest : of[rest[j].lease] # of[m.lease]
                 /\ Keep(Append(rest, e), {}, {})
            BY <1>26, ParkKeeps
        <3> HIDE DEF e, m
        <3> QED BY <3>1, <3>2, <3>3
    <2>10. hand' \in [Leases -> Leases \cup {None}] BY <2>3, <2>7 DEF TypeOK
    <2>11. parked' \subseteq Leases BY <2>3, <2>7 DEF TypeOK
    <2> QED BY <2>1, <2>3, <2>7, <2>9, <2>10, <2>11 DEF TypeOK, Goes, Msg, daemonVars
<1>27. ASSUME NEW left \in Seq(Entry), Thinned(left, held), End(left), UNCHANGED workers,
              mail' \in Seq(Msg), keeper' \in {"open", "closed", "finishing", "gone"}
       PROVE  TypeOK'
    <2>1. Keep(left, {}, {}) /\ UNCHANGED <<daemonVars, leaseVars, halted, gone>> BY <1>27 DEF End
    <2>2. /\ held' \in Seq(Entry) /\ Len(held') <= workers'
          /\ \A i, k \in DOMAIN held' : of'[held'[i].lease] = of'[held'[k].lease] => i = k
          /\ destroying' \subseteq Leases
        BY <1>20, <1>27, <2>1 DEF leaseVars
    <2> QED BY <1>27, <2>1, <2>2 DEF TypeOK, Msg, daemonVars, leaseVars
<1>28. CASE Release
    <2>1. mail' \in Seq(Msg) BY <1>21, <1>28 DEF Release
    <2>2. keeper' \in {"open", "closed", "finishing", "gone"} BY <1>28 DEF Release, TypeOK
    <2>3. (\E at \in SUBSET DOMAIN held : End(Less(at))) \/ End(<<>>)
        <3>1. Position(of[Head(mail).lease]) \in SUBSET DOMAIN held BY DEF Position
        <3>2. {i \in DOMAIN held : held[i].lease = Head(mail).lease} \in SUBSET DOMAIN held OBVIOUS
        <3> QED BY <1>28, <3>1, <3>2 DEF Release
    <2>4. UNCHANGED workers BY <1>28 DEF Release
    <2>5. CASE End(<<>>) BY <1>24, <1>27, <2>1, <2>2, <2>4, <2>5
    <2>6. ASSUME NEW at \in SUBSET DOMAIN held, End(Less(at)) PROVE TypeOK'
        <3>1. Less(at) \in Seq(Entry) /\ Thinned(Less(at), held) BY LessThins
        <3> HIDE DEF Safe
        <3> QED BY <1>27, <2>1, <2>2, <2>4, <2>6, <3>1
    <2> QED BY <2>3, <2>5, <2>6
<1>29. CASE Discard
    <2>1. mail' \in Seq(Msg) BY <1>21, <1>29 DEF Discard
    <2>2. Head(mail).box \in Leases
        <3>1. Head(mail) = mail[1] /\ 1 \in DOMAIN mail /\ mail[1].kind = "discard"
            BY <1>29, ReceivedFirst DEF Discard
        <3> QED BY <3>1, MailTyped DEF Mailed
    <2>3. Keep(held, {}, {Head(mail).box}) /\ UNCHANGED <<daemonVars, leaseVars, halted, workers, keeper, gone>>
        BY <1>29 DEF Discard
    <2>4. /\ held' \in Seq(Entry) /\ Len(held') <= workers'
          /\ \A i, k \in DOMAIN held' : of'[held'[i].lease] = of'[held'[k].lease] => i = k
          /\ destroying' \subseteq Leases
        BY <1>20, <1>22, <2>2, <2>3 DEF leaseVars
    <2> QED BY <2>1, <2>3, <2>4 DEF TypeOK, Msg, daemonVars, leaseVars
<1>30. ASSUME NEW l \in Leases, LetGo(l) PROVE TypeOK'
    <2>1. PICK i \in DOMAIN held : End(Without(held, i)) BY <1>30 DEF LetGo
    <2>2. UNCHANGED <<mail, workers, keeper>> BY <1>30 DEF LetGo
    <2> QED BY <1>23, <1>27, <2>1, <2>2 DEF TypeOK, Msg
<1>31. CASE Resize
    <2>1. PICK n \in 1..(workers - 1) : workers' = n /\ Keep(Newest(held, n), {}, {})
        BY <1>31 DEF Resize
    <2>2. n \in Nat /\ n \in 1..Workers BY HostAssumption DEF TypeOK
    <2>3. Newest(held, n) \in Seq(Entry) /\ Thinned(Newest(held, n), held) /\ Len(Newest(held, n)) <= n
        BY <1>22, <2>2, NewestThins
    <2>4. UNCHANGED <<daemonVars, leaseVars, halted, mail, keeper, gone>> BY <1>31 DEF Resize
    <2>5. /\ held' = Newest(held, n) /\ held' \in Seq(Entry)
          /\ \A i, k \in DOMAIN held' : of'[held'[i].lease] = of'[held'[k].lease] => i = k
          /\ destroying' \subseteq Leases
        BY <2>1, <2>3, <2>4, KeepTyped DEF leaseVars
    <2>6. Len(held') <= workers' /\ workers' \in 1..Workers BY <2>1, <2>2, <2>3, <2>5
    <2> QED BY <2>4, <2>5, <2>6 DEF TypeOK, daemonVars, leaseVars
<1> QED BY <1>1, <1>2, <1>3, <1>4, <1>6, <1>7, <1>8, <1>9, <1>10, <1>11, <1>12, <1>15, <1>16, <1>17,
           <1>18, <1>19, <1>25, <1>26, <1>28, <1>29, <1>30, <1>31
        DEF Next, RunLease, Serve, Stop

-----------------------------------------------------------------------------
(* Where a lease goes, and what is sent. *)

Moves(l) ==
    /\ \A k \in Leases \ {l} : pc'[k] = pc[k]
    /\ \/ pc[l] = "none" /\ pc'[l] = "turn" /\ Issue(l)
       \/ pc[l] = "turn" /\ pc'[l] = "report" /\ (GiveUp(l) \/ Refuse(l))
       \/ pc[l] = "turn" /\ pc'[l] \in {"take", "run"} /\ HasTurn(l)
          /\ (pc'[l] = "take" => resume[l] # None)
       \/ pc[l] = "take" /\ pc'[l] = "thaw" /\ Take /\ l = Head(mail).lease
       \/ pc[l] = "thaw" /\ pc'[l] = "run" /\ Thaw(l)
       \/ pc[l] = "run" /\ pc'[l] \in {"freeze", "report"} /\ EndRun(l)
       \/ pc[l] = "freeze" /\ pc'[l] \in {"park", "report"} /\ FreezesFirst(l) /\ Freeze(l)
       \/ pc[l] = "park" /\ pc'[l] = "report" /\ Park /\ l = Head(mail).lease
       \/ pc[l] = "report" /\ pc'[l] = "done" /\ Report(l)

\* A step moves one lease, and only so.
LEMMA MovesOne ==
    ASSUME Safe, [Next]_vars
    PROVE  UNCHANGED pc \/ \E l \in Leases : Moves(l)
<1>1. ASSUME NEW l \in Leases, NEW to, Goes(l, to)
      PROVE  pc'[l] = to /\ \A k \in Leases \ {l} : pc'[k] = pc[k]
    BY <1>1 DEF Goes, Safe, TypeOK
<1>2. CASE UNCHANGED vars \/ Aside BY <1>2, AsideFrame DEF vars, leaseVars
<1>3. ASSUME NEW l \in Leases, Issue(l) PROVE Moves(l) BY <1>1, <1>3 DEF Issue, Moves
<1>4. ASSUME NEW l \in Leases, GiveUp(l) PROVE Moves(l) BY <1>1, <1>4 DEF GiveUp, Moves
<1>5. ASSUME NEW l \in Leases, BuildFresh(l) PROVE Moves(l)
    BY <1>1, <1>5 DEF BuildFresh, HasTurn, Moves
<1>6. ASSUME NEW l \in Leases, Refuse(l) PROVE Moves(l) BY <1>1, <1>6 DEF Refuse, HasTurn, Moves
<1>7. ASSUME NEW l \in Leases, RunBare(l) PROVE Moves(l) BY <1>1, <1>7 DEF RunBare, HasTurn, Moves
<1>8. ASSUME NEW l \in Leases, AskHeld(l) PROVE Moves(l) BY <1>1, <1>8 DEF AskHeld, HasTurn, Moves
<1>9. ASSUME NEW l \in Leases, Thaw(l) PROVE Moves(l) BY <1>1, <1>9 DEF Thaw, Moves
<1>10. ASSUME NEW l \in Leases, EndRun(l) PROVE Moves(l) BY <1>1, <1>10 DEF EndRun, Moves
<1>11. ASSUME NEW l \in Leases, Freeze(l) PROVE Moves(l) BY <1>1, <1>11 DEF Freeze, Moves
<1>12. ASSUME NEW l \in Leases, Report(l) PROVE Moves(l) BY <1>1, <1>12 DEF Report, Moves
<1>13. ASSUME NEW kind \in {"take", "park"}, Receive(kind)
       PROVE  Head(mail).lease \in Leases /\ pc[Head(mail).lease] = kind
    <2>1. Head(mail) = mail[1] /\ 1 \in DOMAIN mail /\ mail[1].kind = kind
        BY <1>13, ReceivedFirst DEF Safe
    <2> QED BY <2>1, OfTyped DEF Safe, Mailed
<1>14. CASE Take
    <2>1. Receive("take") /\ Goes(Head(mail).lease, "thaw") BY <1>14 DEF Take
    <2>2. Moves(Head(mail).lease) BY <1>1, <1>13, <1>14, <2>1 DEF Moves
    <2> QED BY <1>13, <2>1, <2>2
<1>15. CASE Park
    <2>1. Receive("park") /\ Goes(Head(mail).lease, "report") BY <1>15 DEF Park
    <2>2. Moves(Head(mail).lease) BY <1>1, <1>13, <1>15, <2>1 DEF Moves
    <2> QED BY <1>13, <2>1, <2>2
<1> QED BY <1>2, <1>3, <1>4, <1>5, <1>6, <1>7, <1>8, <1>9, <1>10, <1>11, <1>12, <1>14, <1>15
        DEF Next, RunLease, Serve, Aside

\* Who sends what.
Sends(kind, l, b) ==
    \/ kind \in {"take", "release"} /\ l \in Leases /\ b = None /\ HasTurn(l)
       /\ (kind = "take" => pc'[l] = "take")
    \/ kind = "park" /\ l \in Leases /\ b = hand[l] /\ Freeze(l) /\ hand'[l] = None
       /\ pc'[l] = "park"
    \/ kind = "supersede" /\ l \in Leases /\ b = None /\ (Report(l) \/ Drain(l))
    \/ kind = "discard" /\ l \in Leases /\ b = hand[l] /\ b # None /\ Thaw(l) /\ hand'[l] = l
    \/ kind = "close" /\ l = None /\ b = None /\ Close
    \/ kind = "shutdown" /\ l = None /\ b = None /\ Shutdown

\* A step sends one message, or takes one, or none.
LEMMA SendsOne ==
    ASSUME TypeOK, [Next]_vars
    PROVE  \/ UNCHANGED mail
           \/ \E kind \in Kinds : Receive(kind)
           \/ \E kind \in Kinds, l \in Leases \cup {None}, b \in Leases \cup {None} :
                 Send(kind, l, b) /\ Sends(kind, l, b)
<1> DEFINE Goal == \/ UNCHANGED mail
                   \/ \E kind \in Kinds : Receive(kind)
                   \/ \E kind \in Kinds, l \in Leases \cup {None}, b \in Leases \cup {None} :
                         Send(kind, l, b) /\ Sends(kind, l, b)
<1> SUFFICES Goal OBVIOUS
<1>1. ASSUME NEW kind \in Kinds, NEW l \in Leases \cup {None}, NEW b \in Leases \cup {None},
             Send(kind, l, b), Sends(kind, l, b)
      PROVE  Goal
    BY <1>1
<1>2. ASSUME NEW kind \in Kinds, Receive(kind) PROVE Goal BY <1>2
<1>3. CASE UNCHANGED mail BY <1>3
<1>4. Kinds = {"take", "park", "release", "supersede", "discard", "close", "shutdown"} BY DEF Kinds
<1> HIDE DEF Goal
<1>5. ASSUME NEW l \in Leases, BuildFresh(l) \/ Refuse(l) \/ AskHeld(l) PROVE Goal
    <2>1. PICK kind \in {"take", "release"} : /\ Send(kind, l, None) /\ HasTurn(l)
                                              /\ kind = "take" => Goes(l, "take")
        BY <1>5 DEF BuildFresh, Refuse, AskHeld
    <2>3. kind = "take" => pc'[l] = "take" BY <2>1 DEF Goes, TypeOK
    <2>2. Sends(kind, l, None) BY <2>1, <2>3 DEF Sends
    <2> QED BY <1>1, <1>4, <2>1, <2>2
<1>6. ASSUME NEW l \in Leases, Thaw(l) PROVE Goal
    <2>1. hand[l] \in Leases \cup {None} BY DEF TypeOK
    <2>2. CASE UNCHANGED mail BY <1>3, <2>2
    <2>3. CASE Send("discard", l, hand[l]) /\ hand[l] # None /\ Build(l)
        <3>1. hand'[l] = l BY <2>3 DEF Build, TypeOK
        <3>2. Sends("discard", l, hand[l]) BY <1>6, <2>3, <3>1 DEF Sends
        <3> QED BY <1>1, <1>4, <2>1, <2>3, <3>2
    <2> QED BY <1>6, <2>2, <2>3 DEF Thaw
<1>7. ASSUME NEW l \in Leases, Freeze(l) PROVE Goal
    <2>1. hand[l] \in Leases \cup {None} BY DEF TypeOK
    <2>2. CASE UNCHANGED mail BY <1>3, <2>2
    <2>3. CASE Send("park", l, hand[l]) /\ hand' = [hand EXCEPT ![l] = None] /\ Goes(l, "park")
        <3>1. hand'[l] = None /\ pc'[l] = "park" BY <2>3 DEF TypeOK, Goes
        <3>2. Sends("park", l, hand[l]) BY <1>7, <3>1 DEF Sends
        <3> QED BY <1>1, <1>4, <2>1, <2>3, <3>2
    <2> QED BY <1>7, <2>2, <2>3 DEF Freeze
<1>8. ASSUME NEW l \in Leases, Report(l) \/ Drain(l) PROVE Goal
    <2>1. UNCHANGED mail \/ Send("supersede", l, None) BY <1>8 DEF Report, Drain, Supersede
    <2>2. Sends("supersede", l, None) BY <1>8 DEF Sends
    <2> QED BY <1>1, <1>3, <1>4, <2>1, <2>2
<1>9. CASE Close
    <2>1. Sends("close", None, None) /\ Send("close", None, None) BY <1>9 DEF Close, Sends
    <2> QED BY <1>1, <1>4, <2>1
<1>14. CASE Shutdown
    <2>1. Sends("shutdown", None, None) /\ Send("shutdown", None, None) BY <1>14 DEF Shutdown, Sends
    <2> QED BY <1>1, <1>4, <2>1
<1>10. CASE Take \/ Park \/ Release \/ Discard
    <2>1. PICK kind \in Kinds : Receive(kind) BY <1>4, <1>10 DEF Take, Park, Release, Discard
    <2> QED BY <1>2, <2>1
<1>11. CASE UNCHANGED vars \/ Halt \/ Resize \/ Finish
    <2>1. UNCHANGED mail BY <1>11 DEF vars, Halt, Resize, Finish
    <2> QED BY <1>3, <2>1
<1>12. ASSUME NEW f \in Fleets, IssueElsewhere(f) PROVE Goal BY <1>3, <1>12 DEF IssueElsewhere
<1>13. ASSUME NEW l \in Leases, Issue(l) \/ GiveUp(l) \/ RunBare(l) \/ EndRun(l) \/ LetGo(l) PROVE Goal
    <2>1. UNCHANGED mail BY <1>13 DEF Issue, GiveUp, RunBare, EndRun, LetGo
    <2> QED BY <1>3, <2>1
<1> QED BY <1>5, <1>6, <1>7, <1>8, <1>9, <1>10, <1>11, <1>12, <1>13,
           <1>14
        DEF Next, RunLease, Serve, Stop

\* Few steps change what the daemon issued last, a fleet's line or what parked.
LEMMA Changes ==
    ASSUME [Next]_vars
    PROVE  /\ UNCHANGED of
           /\ UNCHANGED latest \/ (\E l \in Leases : Issue(l)) \/ \E f \in Fleets : IssueElsewhere(f)
           /\ UNCHANGED turn \/ \E l \in Leases : Issue(l) \/ GiveUp(l) \/ Refuse(l) \/ EndRun(l)
           /\ UNCHANGED resume \/ \E l \in Leases : Issue(l)
           /\ UNCHANGED <<recorded, keeps, spooled>> \/ \E l \in Leases : Report(l) \/ Drain(l)
           /\ \/ UNCHANGED parked
              \/ Park /\ keeper = "open" /\ parked' = parked \cup {Head(mail).lease}
<1>1. CASE UNCHANGED vars BY <1>1 DEF vars, leaseVars, daemonVars
<1>2. CASE Aside
    <2>1. UNCHANGED <<of, resume, parked, turn>> BY <1>2, AsideFrame
    <2>2. UNCHANGED latest \/ \E f \in Fleets : IssueElsewhere(f)
        BY <1>2 DEF Aside, Stop, Drain, Recorded, Refused, LetGo, Halt, Close, Shutdown, Finish,
                    Release, Discard, Resize, End, daemonVars
    <2>3. UNCHANGED <<recorded, keeps, spooled>> \/ \E l \in Leases : Drain(l)
        BY <1>2 DEF Aside, Stop, LetGo, Halt, Close, Shutdown, Finish, IssueElsewhere,
                    Release, Discard, Resize, End, daemonVars, leaseVars
    <2> QED BY <2>1, <2>2, <2>3
<1>3. ASSUME NEW l \in Leases,
             BuildFresh(l) \/ RunBare(l) \/ AskHeld(l) \/ Thaw(l) \/ Freeze(l) \/ Report(l)
      PROVE  /\ UNCHANGED <<of, latest, turn, resume, parked>>
             /\ UNCHANGED <<recorded, keeps, spooled>> \/ Report(l)
    BY <1>3 DEF BuildFresh, RunBare, AskHeld, Thaw, Freeze, Report, Recorded, Refused, daemonVars
<1>4. ASSUME NEW l \in Leases, Issue(l) PROVE UNCHANGED <<of, parked, recorded, keeps, spooled>>
    BY <1>4 DEF Issue
<1>5. ASSUME NEW l \in Leases, GiveUp(l) \/ Refuse(l) \/ EndRun(l)
      PROVE  UNCHANGED <<of, latest, resume, parked, recorded, keeps, spooled>>
    BY <1>5 DEF GiveUp, Refuse, EndRun, daemonVars
<1>6. CASE Take BY <1>6 DEF Take, daemonVars
<1>7. CASE Park
    <2>1. UNCHANGED <<of, latest, turn, resume, recorded, keeps, spooled>> BY <1>7 DEF Park, daemonVars
    <2>2. \/ UNCHANGED parked
          \/ keeper = "open" /\ parked' = parked \cup {Head(mail).lease}
        BY <1>7 DEF Park
    <2> QED BY <1>7, <2>1, <2>2
<1> QED BY <1>1, <1>2, <1>3, <1>4, <1>5, <1>6, <1>7 DEF Next, RunLease, Serve, Aside

\* Only Issue starts a lease, in order, and only Issue and IssueElsewhere move the latest.
LEMMA IssuedStep ==
    ASSUME Safe, [Next]_vars
    PROVE  Issued'
<1>0. /\ Leases \subseteq Nat \ {0} /\ None \notin Leases /\ Other \notin Leases /\ Other # None
      /\ DOMAIN of \subseteq Leases /\ \A l \in DOMAIN of : of[l] \in Fleets
    BY OfTyped DEF Safe
<1>1. UNCHANGED of BY Changes
<1>2. ASSUME NEW l \in Leases, Issue(l) PROVE Issued'
    <2>1. /\ l \in DOMAIN of /\ pc[l] = "none" /\ \A k \in Leases : k < l => pc[k] # "none"
          /\ pc' = [pc EXCEPT ![l] = "turn"] /\ latest' = [latest EXCEPT ![of[l]] = l]
        BY <1>2 DEF Issue, Goes
    <2>2. DOMAIN pc = Leases /\ latest \in [Fleets -> Leases \cup {Other, None}] BY DEF Safe, TypeOK
    <2>3. pc'[l] = "turn" /\ \A k \in Leases \ {l} : pc'[k] = pc[k] BY <2>1, <2>2
    <2>4. latest'[of[l]] = l /\ \A f \in Fleets \ {of[l]} : latest'[f] = latest[f] BY <1>0, <2>1, <2>2
    <2>5. \A k \in Leases : pc'[k] # "none" => k <= l BY <1>0, <2>1, <2>3 DEF Safe, Issued
    <2>6. \A k \in Leases : pc'[k] # "none" => k \in DOMAIN of
        BY <2>1, <2>3 DEF Safe, Issued
    <2>7. \A k, m \in Leases : k < m /\ pc'[m] # "none" => pc'[k] # "none"
        BY <2>1, <2>3 DEF Safe, Issued
    <2>8. \A f \in Fleets : latest'[f] \in Leases => pc'[latest'[f]] # "none" /\ of[latest'[f]] = f
        BY <2>1, <2>3, <2>4 DEF Safe, Issued
    <2>9. \A k \in Leases : pc'[k] # "none" =>
              /\ latest'[of[k]] # None
              /\ latest'[of[k]] \in Leases => k <= latest'[of[k]]
        BY <1>0, <2>1, <2>3, <2>4, <2>5, <2>6 DEF Safe, Issued
    <2> QED BY <1>1, <2>6, <2>7, <2>8, <2>9 DEF Issued
<1>3. CASE \A l \in Leases : ~Issue(l)
    <2>1. \A l \in Leases : pc'[l] # "none" <=> pc[l] # "none" BY <1>3, MovesOne DEF Moves
    <2>2. CASE UNCHANGED latest BY <1>1, <2>1, <2>2 DEF Safe, Issued
    <2>3. ASSUME NEW f \in Fleets, IssueElsewhere(f) PROVE Issued'
        <3>1. latest'[f] = Other /\ \A g \in Fleets \ {f} : latest'[g] = latest[g]
            BY <2>3 DEF IssueElsewhere, Safe, TypeOK
        <3>2. \A l \in Leases : pc[l] # "none" => of[l] \in Fleets BY <1>0 DEF Safe, Issued
        <3> QED BY <1>0, <1>1, <2>1, <3>1, <3>2 DEF Safe, Issued
    <2> QED BY <1>3, <2>2, <2>3, Changes
<1> QED BY <1>2, <1>3

\* The owner of a turn is the earliest in line.
LEMMA OwnerFirst ==
    ASSUME Safe, NEW l \in Leases, HasTurn(l), NEW k \in Leases, InLine(k), Before(k, l)
    PROVE  FALSE
<1>0. Leases \subseteq Nat \ {0} BY HostAssumption
<1>1. /\ of[l] \in Fleets /\ turn[of[l]] \in Seq(Leases) /\ turn[of[l]] # <<>> /\ Head(turn[of[l]]) = l
    BY StandsInLine DEF InLine, Standing, HasTurn
<1>2. PICK i \in DOMAIN turn[of[l]] : turn[of[l]][i] = k BY DEF Safe, Lines, Before
<1>3. turn[of[l]][1] = l /\ 1 \in DOMAIN turn[of[l]] BY <1>1
<1>4. i \in Nat \ {0} BY <1>1, <1>2
<1>5. 1 < i => l < k BY <1>1, <1>2, <1>3, <1>4 DEF Safe, Lines
<1>6. l \in Nat /\ k \in Nat /\ k < l BY <1>0 DEF Before
<1> QED BY <1>2, <1>3, <1>4, <1>5, <1>6

\* A line from which one lease leaves is still in order, and the others keep their places.
LEMMA LeavesLine ==
    ASSUME Safe, NEW l \in Leases, InLine(l), NEW i \in DOMAIN turn[of[l]], turn[of[l]][i] = l
    PROVE  /\ \A j \in DOMAIN Without(turn[of[l]], i) :
                 /\ \E h \in DOMAIN turn[of[l]] : turn[of[l]][h] = Without(turn[of[l]], i)[j]
                 /\ Without(turn[of[l]], i)[j] # l
                 /\ \A k \in DOMAIN Without(turn[of[l]], i) :
                       j < k => Without(turn[of[l]], i)[j] < Without(turn[of[l]], i)[k]
           /\ \A j \in DOMAIN turn[of[l]] : turn[of[l]][j] # l =>
                 \E k \in DOMAIN Without(turn[of[l]], i) :
                     /\ Without(turn[of[l]], i)[k] = turn[of[l]][j]
                     /\ j < i => k = j
<1> DEFINE s == turn[of[l]]
           t == Without(s, i)
<1>1. s \in Seq(Leases) /\ Leases \subseteq Nat BY StandsInLine, HostAssumption
<1>2. /\ t \in Seq(Leases) /\ Len(t) = Len(s) - 1
      /\ \A j \in DOMAIN t : /\ j < i => j \in DOMAIN s /\ t[j] = s[j]
                             /\ j >= i => j + 1 \in DOMAIN s /\ t[j] = s[j + 1]
      /\ \A j \in DOMAIN s : /\ j < i => j \in DOMAIN t /\ t[j] = s[j]
                             /\ j > i => j - 1 \in DOMAIN t /\ t[j - 1] = s[j]
    BY <1>1, WithoutOne
<1>3. \A j, k \in DOMAIN s : j < k => s[j] < s[k] BY StandsInLine DEF Safe, Lines
<1>4. s[i] = l /\ i \in DOMAIN s OBVIOUS
<1> HIDE DEF s, t
<1>5. DOMAIN s \subseteq Nat \ {0} /\ DOMAIN t \subseteq Nat \ {0} BY <1>1, <1>2
<1>6. \A j \in DOMAIN s : s[j] \in Nat
    <2>1. \A j \in DOMAIN s : s[j] \in Leases BY <1>1
    <2> QED BY <1>1, <2>1
<1>7. ASSUME NEW j \in DOMAIN t
      PROVE  \E h \in DOMAIN s : s[h] = t[j] /\ h # i
    BY <1>2, <1>4, <1>5
<1>8. ASSUME NEW j \in DOMAIN s, s[j] = l PROVE j = i
    BY <1>3, <1>4, <1>5, <1>6, <1>8
<1>9. ASSUME NEW j \in DOMAIN t, NEW k \in DOMAIN t, j < k PROVE t[j] < t[k]
    <2> DEFINE at(n) == IF n < i THEN n ELSE n + 1
    <2>1. at(j) \in DOMAIN s /\ t[j] = s[at(j)] /\ at(k) \in DOMAIN s /\ t[k] = s[at(k)]
        BY <1>2, <1>4, <1>5
    <2>2. at(j) < at(k) BY <1>4, <1>5, <1>9
    <2> HIDE DEF at
    <2> QED BY <1>3, <2>1, <2>2
<1>10. ASSUME NEW j \in DOMAIN s, s[j] # l
       PROVE  \E k \in DOMAIN t : t[k] = s[j] /\ (j < i => k = j)
    BY <1>2, <1>4, <1>5, <1>10
<1>11. \A j \in DOMAIN t : t[j] # l BY <1>7, <1>8
<1> QED BY <1>7, <1>9, <1>10, <1>11 DEF s, t

\* A lease joins its fleet's line at the end, gives up its place, or leaves it as the owner.
LEMMA LinesStep ==
    ASSUME Safe, [Next]_vars
    PROVE  Lines'
<1>0. /\ Leases \subseteq Nat \ {0} /\ UNCHANGED of
      /\ DOMAIN of \subseteq Leases /\ \A l \in DOMAIN of : of[l] \in Fleets
    BY OfTyped, Changes DEF Safe
<1>1. /\ DOMAIN turn = Fleets /\ \A f \in Fleets : turn[f] \in Seq(Leases)
      /\ \A f \in Fleets : \A i \in DOMAIN turn[f] : turn[f][i] \in Leases
      /\ \A l \in Leases : pc[l] # "none" => l \in DOMAIN of
    BY DEF Safe, TypeOK, Issued
<1>9. \A f \in Fleets : \A i \in DOMAIN turn[f] :
          /\ pc[turn[f][i]] \in Standing /\ turn[f][i] \in DOMAIN of /\ of[turn[f][i]] = f
          /\ \A k \in DOMAIN turn[f] : i < k => turn[f][i] < turn[f][k]
    BY DEF Safe, Lines, InLine
<1>10. (\A f \in Fleets : \A i \in DOMAIN turn'[f] :
            /\ pc'[turn'[f][i]] \in Standing /\ turn'[f][i] \in DOMAIN of' /\ of'[turn'[f][i]] = f
            /\ \A k \in DOMAIN turn'[f] : i < k => turn'[f][i] < turn'[f][k])
       /\ (\A l \in Leases : InLine(l)' =>
            \E i \in DOMAIN turn'[of'[l]] : turn'[of'[l]][i] = l /\ (pc'[l] # "turn" => i = 1))
       => Lines'
    BY DEF Lines, InLine
<1>2. CASE \A l \in Leases : ~(Issue(l) \/ GiveUp(l) \/ Refuse(l) \/ EndRun(l))
    <2>1. UNCHANGED turn BY <1>2, Changes
    <2>2. ASSUME NEW l \in Leases
          PROVE  /\ InLine(l)' <=> InLine(l)
                 /\ pc[l] = "turn" /\ pc'[l] # "turn" => HasTurn(l)
        BY <1>2, MovesOne DEF Moves, InLine, Standing
    <2>3. ASSUME NEW f \in Fleets, NEW i \in DOMAIN turn[f]
          PROVE  /\ pc'[turn[f][i]] \in Standing /\ turn[f][i] \in DOMAIN of /\ of[turn[f][i]] = f
                 /\ \A k \in DOMAIN turn[f] : i < k => turn[f][i] < turn[f][k]
        BY <1>1, <1>9, <2>2 DEF InLine
    <2>4. ASSUME NEW l \in Leases, InLine(l)'
          PROVE  \E i \in DOMAIN turn[of[l]] : turn[of[l]][i] = l /\ (pc'[l] # "turn" => i = 1)
        <3>1. InLine(l) BY <2>2, <2>4
        <3>2. PICK i \in DOMAIN turn[of[l]] : turn[of[l]][i] = l /\ (pc[l] # "turn" => i = 1)
            BY <3>1 DEF Safe, Lines
        <3>3. CASE pc[l] = "turn" /\ pc'[l] # "turn"
            <4>1. turn[of[l]] \in Seq(Leases) /\ turn[of[l]] # <<>> /\ Head(turn[of[l]]) = l
                BY <2>2, <3>1, <3>3, StandsInLine DEF HasTurn
            <4>2. 1 \in DOMAIN turn[of[l]] /\ turn[of[l]][1] = l BY <4>1
            <4> QED BY <4>2
        <3> QED BY <3>2, <3>3
    <2> QED BY <1>0, <1>10, <2>1, <2>3, <2>4
<1>3. ASSUME NEW x \in Leases, Issue(x) PROVE Lines'
    <2> DEFINE s == turn[of[x]]
               t == Append(s, x)
    <2>1. /\ x \in DOMAIN of /\ pc[x] = "none" /\ pc' = [pc EXCEPT ![x] = "turn"]
          /\ turn' = [turn EXCEPT ![of[x]] = Append(@, x)]
        BY <1>3 DEF Issue, Goes
    <2>2. DOMAIN pc = Leases /\ of[x] \in Fleets BY <1>0, <2>1 DEF Safe, TypeOK
    <2>3. turn'[of[x]] = t /\ \A f \in Fleets \ {of[x]} : turn'[f] = turn[f] BY <1>1, <2>1, <2>2
    <2>4. pc'[x] = "turn" /\ \A k \in Leases \ {x} : pc'[k] = pc[k] BY <2>1, <2>2
    <2>5. /\ Len(s) \in Nat /\ DOMAIN s = 1..Len(s) /\ DOMAIN t = 1..(Len(s) + 1)
          /\ t[Len(s) + 1] = x /\ \A i \in 1..Len(s) : t[i] = s[i]
        BY <1>1, <2>2
    <2> HIDE DEF t
    <2>6. \A i \in DOMAIN s : /\ s[i] \in Leases /\ pc[s[i]] # "none" /\ s[i] \in DOMAIN of /\ of[s[i]] = of[x]
                              /\ InLine(s[i]) /\ \A k \in DOMAIN s : i < k => s[i] < s[k]
        BY <1>1, <2>2 DEF Safe, Lines, InLine, Standing
    <2>7. \A i \in DOMAIN s : s[i] < x
        <3> SUFFICES ASSUME NEW i \in DOMAIN s PROVE s[i] < x OBVIOUS
        <3>1. s[i] \in Nat /\ x \in Nat /\ s[i] # x BY <1>0, <2>1, <2>6
        <3>2. ~(x < s[i]) BY <2>1, <2>6 DEF Safe, Issued
        <3> QED BY <3>1, <3>2
    <2>8. \A k \in Leases : InLine(k) => InLine(k)' /\ pc'[k] = pc[k] BY <2>1, <2>4 DEF InLine, Standing
    <2>9. InLine(x)' BY <2>4 DEF InLine, Standing
    <2>10. ASSUME NEW f \in Fleets, NEW i \in DOMAIN turn'[f]
           PROVE  /\ pc'[turn'[f][i]] \in Standing /\ turn'[f][i] \in DOMAIN of' /\ of'[turn'[f][i]] = f
                  /\ \A k \in DOMAIN turn'[f] : i < k => turn'[f][i] < turn'[f][k]
        <3>1. CASE f # of[x] BY <1>0, <1>1, <1>9, <2>3, <2>8, <3>1 DEF InLine
        <3>2. CASE f = of[x]
            <4> HIDE DEF s
            <4>1. i \in 1..(Len(s) + 1) /\ turn'[f] = t BY <2>3, <2>5, <3>2
            <4>2. CASE i \in 1..Len(s)
                <5>1. t[i] = s[i] /\ s[i] < x /\ i \in DOMAIN s BY <2>5, <2>7, <4>2
                <5>2. \A k \in 1..Len(s) : i < k => t[i] < t[k] BY <2>5, <2>6, <5>1
                <5>3. t[i] < t[Len(s) + 1] BY <2>5, <5>1
                <5>4. \A k \in DOMAIN t : i < k => t[i] < t[k] BY <2>5, <5>2, <5>3
                <5> QED BY <1>0, <2>6, <2>8, <3>2, <4>1, <5>1, <5>4 DEF InLine
            <4>3. CASE i = Len(s) + 1
                <5>1. t[i] = x /\ \A k \in DOMAIN t : ~(i < k) BY <2>5, <4>3
                <5> QED BY <1>0, <2>1, <2>9, <3>2, <4>1, <5>1 DEF InLine
            <4> QED BY <2>5, <4>1, <4>2, <4>3
        <3> QED BY <3>1, <3>2
    <2>11. ASSUME NEW l \in Leases, InLine(l)'
           PROVE  \E j \in DOMAIN turn'[of'[l]] : turn'[of'[l]][j] = l /\ (pc'[l] # "turn" => j = 1)
        <3>1. CASE l = x BY <1>0, <2>3, <2>4, <2>5, <3>1
        <3>2. CASE l # x
            <4>1. InLine(l) /\ pc'[l] = pc[l] BY <2>4, <2>11, <3>2 DEF InLine, Standing
            <4>2. of[l] \in Fleets BY <1>0, <1>1, <4>1 DEF InLine, Standing
            <4>3. PICK i \in DOMAIN turn[of[l]] : turn[of[l]][i] = l /\ (pc[l] # "turn" => i = 1)
                BY <4>1 DEF Safe, Lines
            <4>4. i \in DOMAIN turn'[of[l]] /\ turn'[of[l]][i] = turn[of[l]][i]
                <5>1. CASE of[l] # of[x] BY <2>3, <4>2, <4>3, <5>1
                <5>2. CASE of[l] = of[x]
                    <6>1. i \in DOMAIN s BY <4>3, <5>2
                    <6>2. i \in DOMAIN t /\ t[i] = s[i] BY <2>5, <6>1
                    <6> QED BY <2>3, <5>2, <6>2
                <5> QED BY <5>1, <5>2
            <4> QED BY <1>0, <4>1, <4>3, <4>4
        <3> QED BY <3>1, <3>2
    <2> QED BY <1>10, <2>10, <2>11
<1>4. ASSUME NEW x \in Leases, InLine(x), NEW i \in DOMAIN turn[of[x]], turn[of[x]][i] = x,
             turn' = [turn EXCEPT ![of[x]] = Without(@, i)],
             ~InLine(x)', \A k \in Leases \ {x} : pc'[k] = pc[k]
      PROVE  Lines'
    <2> DEFINE s == turn[of[x]]
               t == Without(s, i)
    <2>1. of[x] \in Fleets BY <1>0, <1>1, <1>4 DEF InLine, Standing
    <2>2. /\ \A j \in DOMAIN t : /\ \E h \in DOMAIN s : s[h] = t[j]
                                 /\ t[j] # x
                                 /\ \A k \in DOMAIN t : j < k => t[j] < t[k]
          /\ \A j \in DOMAIN s : s[j] # x => \E k \in DOMAIN t : t[k] = s[j] /\ (j < i => k = j)
        BY <1>4, LeavesLine
    <2>3. turn'[of[x]] = t /\ \A f \in Fleets \ {of[x]} : turn'[f] = turn[f] BY <1>1, <1>4, <2>1
    <2> HIDE DEF t
    <2>4. \A k \in Leases \ {x} : InLine(k)' <=> InLine(k) BY <1>4 DEF InLine, Standing
    <2>5. ASSUME NEW f \in Fleets, NEW j \in DOMAIN turn'[f]
          PROVE  /\ pc'[turn'[f][j]] \in Standing /\ turn'[f][j] \in DOMAIN of' /\ of'[turn'[f][j]] = f
                 /\ \A k \in DOMAIN turn'[f] : j < k => turn'[f][j] < turn'[f][k]
        <3>1. CASE f # of[x]
            <4>1. \A k \in DOMAIN turn[f] : turn[f][k] # x BY <1>0, <3>1 DEF Safe, Lines
            <4>2. j \in DOMAIN turn[f] /\ turn'[f] = turn[f] BY <2>3, <3>1
            <4>3. turn[f][j] \in Leases \ {x} BY <1>1, <4>1, <4>2
            <4>4. pc'[turn[f][j]] \in Standing BY <1>4, <1>9, <4>2, <4>3
            <4> QED BY <1>0, <1>9, <4>2, <4>4
        <3>2. CASE f = of[x]
            <4>1. turn'[f] = t /\ j \in DOMAIN t BY <2>3, <3>2
            <4>2. PICK h \in DOMAIN s : s[h] = t[j] BY <2>2, <4>1
            <4>3. s[h] \in Leases /\ InLine(s[h]) /\ s[h] \in DOMAIN of /\ of[s[h]] = f
                BY <1>1, <2>1, <3>2 DEF Safe, Lines
            <4>4. t[j] # x /\ \A k \in DOMAIN t : j < k => t[j] < t[k] BY <2>2, <4>1
            <4> QED BY <1>0, <2>4, <4>1, <4>2, <4>3, <4>4 DEF InLine
        <3> QED BY <3>1, <3>2
    <2>6. ASSUME NEW l \in Leases, InLine(l)'
          PROVE  \E j \in DOMAIN turn'[of'[l]] : turn'[of'[l]][j] = l /\ (pc'[l] # "turn" => j = 1)
        <3>1. l # x /\ InLine(l) /\ pc'[l] = pc[l] BY <1>4, <2>4, <2>6
        <3>2. of[l] \in Fleets BY <1>0, <1>1, <3>1 DEF InLine, Standing
        <3>3. PICK j \in DOMAIN turn[of[l]] : turn[of[l]][j] = l /\ (pc[l] # "turn" => j = 1)
            BY <3>1 DEF Safe, Lines
        <3>4. CASE of[l] # of[x] BY <1>0, <2>3, <3>1, <3>2, <3>3, <3>4
        <3>5. CASE of[l] = of[x]
            <4>1. j \in DOMAIN s /\ s[j] = l BY <3>3, <3>5
            <4>2. PICK k \in DOMAIN t : t[k] = l /\ (j < i => k = j) BY <2>2, <3>1, <4>1
            <4>3. pc'[l] # "turn" => k = 1
                <5> SUFFICES ASSUME pc'[l] # "turn" PROVE k = 1 OBVIOUS
                <5>1. j = 1 BY <3>1, <3>3
                <5>2. i \in Nat \ {0} /\ i # 1
                    <6>1. s \in Seq(Leases) BY <1>1, <2>1
                    <6>2. i # j BY <1>4, <3>1, <4>1
                    <6> QED BY <1>4, <5>1, <6>1, <6>2
                <5> QED BY <4>2, <5>1, <5>2
            <4> QED BY <1>0, <2>3, <3>5, <4>2, <4>3
        <3> QED BY <3>4, <3>5
    <2> QED BY <1>10, <2>5, <2>6
\* Its owner leaves the head of the line.
<1>5. ASSUME NEW x \in Leases, Refuse(x) \/ EndRun(x)
      PROVE  /\ InLine(x) /\ 1 \in DOMAIN turn[of[x]] /\ turn[of[x]][1] = x
             /\ turn' = [turn EXCEPT ![of[x]] = Without(@, 1)]
    <2>1. InLine(x) /\ (pc[x] # "turn" \/ HasTurn(x)) BY <1>5 DEF Refuse, EndRun, HasTurn, InLine, Standing
    <2>2. turn[of[x]] \in Seq(Leases) /\ turn[of[x]] # <<>> /\ Head(turn[of[x]]) = x
        BY <2>1, StandsInLine DEF HasTurn
    <2>3. /\ Tail(turn[of[x]]) = Without(turn[of[x]], 1) /\ 1 \in DOMAIN turn[of[x]]
          /\ turn[of[x]][1] = x
        <3>1. \A q \in Seq(Leases) : q # <<>> => Head(q) = q[1] /\ Tail(q) = Without(q, 1) /\ 1 \in DOMAIN q
            BY TailWithout
        <3> QED BY <2>2, <3>1
    <2>4. turn' = [turn EXCEPT ![of[x]] = Tail(@)] BY <1>5 DEF Refuse, EndRun
    <2> QED BY <2>1, <2>2, <2>3, <2>4
<1>6. ASSUME NEW x \in Leases, GiveUp(x) \/ Refuse(x) \/ EndRun(x)
      PROVE  ~InLine(x)' /\ \A k \in Leases \ {x} : pc'[k] = pc[k]
    <2>1. pc' = [pc EXCEPT ![x] = "report"] \/ pc' = [pc EXCEPT ![x] = "freeze"]
        BY <1>6 DEF GiveUp, Refuse, EndRun, Goes
    <2>2. DOMAIN pc = Leases BY DEF Safe, TypeOK
    <2> QED BY <2>1, <2>2 DEF InLine, Standing
<1>7. ASSUME NEW x \in Leases, GiveUp(x) PROVE Lines'
    <2>1. InLine(x) BY <1>7 DEF GiveUp, InLine, Standing
    <2>2. PICK i \in DOMAIN turn[of[x]] : /\ turn[of[x]][i] = x
                                          /\ turn' = [turn EXCEPT ![of[x]] = Without(@, i)]
        BY <1>7 DEF GiveUp
    <2> QED BY <1>4, <1>6, <1>7, <2>1, <2>2
<1>8. ASSUME NEW x \in Leases, Refuse(x) \/ EndRun(x) PROVE Lines'
    <2>1. /\ InLine(x) /\ 1 \in DOMAIN turn[of[x]] /\ turn[of[x]][1] = x
          /\ turn' = [turn EXCEPT ![of[x]] = Without(@, 1)]
        BY <1>5, <1>8
    <2>2. ~InLine(x)' /\ \A k \in Leases \ {x} : pc'[k] = pc[k] BY <1>6, <1>8
    <2> QED BY <1>4, <2>1, <2>2
<1> QED BY <1>2, <1>3, <1>7, <1>8

\* What a step asks of the keeper is asked by the owner of a turn, or is a sandbox just frozen.
LEMMA AskedStep ==
    ASSUME Safe, [Next]_vars, NEW k, Asked(k)'
    PROVE  Asked(k) \/ (k \in Leases /\ (HasTurn(k) \/ Freeze(k)))
<1>1. PICK i \in DOMAIN mail' : mail'[i].kind \in Asks /\ mail'[i].lease = k BY DEF Asked
<1>2. CASE UNCHANGED mail BY <1>1, <1>2 DEF Asked
<1>3. ASSUME NEW kind, Receive(kind) PROVE Asked(k)
    <2>1. /\ Len(mail) \in Nat \ {0} /\ DOMAIN mail = 1..Len(mail) /\ DOMAIN mail' = 1..(Len(mail) - 1)
          /\ \A j \in 1..(Len(mail) - 1) : mail'[j] = mail[j + 1]
        BY <1>3, ReceivedFirst DEF Safe
    <2>2. i + 1 \in DOMAIN mail /\ mail'[i] = mail[i + 1] BY <2>1
    <2> QED BY <1>1, <2>2 DEF Asked
<1>4. ASSUME NEW kind \in Kinds, NEW l \in Leases \cup {None}, NEW b \in Leases \cup {None},
             Send(kind, l, b), Sends(kind, l, b)
      PROVE  Asked(k) \/ (k \in Leases /\ (HasTurn(k) \/ Freeze(k)))
    <2>1. /\ Len(mail) \in Nat /\ DOMAIN mail = 1..Len(mail) /\ DOMAIN mail' = 1..(Len(mail) + 1)
          /\ \A j \in 1..Len(mail) : mail'[j] = mail[j]
          /\ mail'[Len(mail) + 1] = [kind |-> kind, lease |-> l, box |-> b]
        BY <1>4, SentLast DEF Safe
    <2>2. CASE i \in 1..Len(mail) BY <1>1, <2>1, <2>2 DEF Asked
    <2>3. CASE i = Len(mail) + 1
        <3>1. kind \in Asks /\ l = k BY <1>1, <2>1, <2>3
        <3> QED BY <1>4, <3>1 DEF Sends, Asks
    <2> QED BY <1>1, <2>1, <2>2, <2>3
<1> QED BY <1>2, <1>3, <1>4, SendsOne DEF Safe

\* A lease gets its turn after the earlier ones ended theirs, and parks after they froze.
LEMMA OrderedStep ==
    ASSUME Safe, [Next]_vars
    PROVE  Ordered'
<1>0. Leases \subseteq Nat \ {0} /\ UNCHANGED of /\ DOMAIN pc = Leases
      /\ (\A k \in Leases : pc[k] # "none" => k \in DOMAIN of)
    BY HostAssumption, Changes DEF Safe, TypeOK, Issued
<1>1. ASSUME NEW j \in Leases
      PROVE  /\ pc[j] \in {"freeze", "park", "report", "done"} => pc'[j] \in {"freeze", "park", "report", "done"}
             /\ pc[j] \in {"park", "report", "done"} => pc'[j] \in {"park", "report", "done"}
    BY <1>0, MovesOne DEF Moves, Issue
<1>2. ASSUME NEW k \in Leases, k \in parked', k \notin parked PROVE pc[k] = "park"
    <2>1. Park /\ k = Head(mail).lease BY <1>2, Changes
    <2> QED BY <2>1, HeadSays DEF Park
<1>3. ASSUME NEW k \in Leases, Turned(k)' PROVE Turned(k) \/ HasTurn(k)
    <2>1. CASE pc'[k] \in {"take", "thaw", "run", "freeze", "park"}
        BY <2>1, MovesOne DEF Moves, Turned
    <2>2. CASE k \in parked' BY <1>2, <2>2 DEF Turned
    <2>3. CASE Asked(k)' BY <2>3, AskedStep DEF Turned, Freeze
    <2> QED BY <1>3, <2>1, <2>2, <2>3 DEF Turned
<1>4. ASSUME NEW j \in Leases, NEW k \in Leases, Before(j, k), Turned(k)'
      PROVE  pc'[j] \in {"freeze", "park", "report", "done"}
    <2>1. CASE Turned(k) BY <1>1, <1>4, <2>1 DEF Safe, Ordered
    <2>2. CASE HasTurn(k)
        <3>1. ~InLine(j) BY <1>4, <2>2, OwnerFirst
        <3>2. pc[j] # "none" BY <1>4, <2>2 DEF Safe, Issued, HasTurn, Before
        <3>3. pc[j] \in {"freeze", "park", "report", "done"} BY <3>1, <3>2 DEF InLine, Standing, Safe, TypeOK
        <3> QED BY <1>1, <3>3
    <2> QED BY <1>3, <1>4, <2>1, <2>2
<1>5. ASSUME NEW j \in Leases, NEW k \in Leases, Before(j, k), pc'[k] = "park" \/ k \in parked'
      PROVE  pc'[j] \in {"park", "report", "done"}
    <2>1. CASE pc[k] = "park" \/ k \in parked BY <1>1, <1>5, <2>1 DEF Safe, Ordered
    <2>2. CASE pc[k] = "freeze" /\ FreezesFirst(k) /\ pc'[j] = pc[j]
        <3>1. pc[j] \in {"freeze", "park", "report", "done"} BY <1>5, <2>2 DEF Safe, Ordered, Turned
        <3>2. pc[j] # "freeze" BY <1>5, <2>2 DEF FreezesFirst, Before
        <3> QED BY <2>2, <3>1, <3>2
    <2>3. j # k BY <1>0, <1>5 DEF Before
    <2>4. pc'[k] = "park" => pc[k] = "park" \/ (pc[k] = "freeze" /\ FreezesFirst(k) /\ pc'[j] = pc[j])
        BY <2>3, MovesOne DEF Moves
    <2> QED BY <1>2, <1>5, <2>1, <2>2, <2>4
<1>6. \A j, k : Before(j, k)' <=> Before(j, k) BY <1>0 DEF Before
<1> QED BY <1>4, <1>5, <1>6 DEF Ordered

\* A lease whose turn it is, or that freezes, is later than any of its fleet that parked.
LEMMA AsksLast ==
    ASSUME Safe, NEW l \in Leases, HasTurn(l) \/ (pc[l] = "freeze" /\ FreezesFirst(l)),
           NEW k \in Leases, k \in DOMAIN of, l \in DOMAIN of, of[k] = of[l],
           pc[k] = "park" \/ k \in parked
    PROVE  k < l
<1>1. k \in Nat /\ l \in Nat BY HostAssumption
<1>2. k # l BY DEF HasTurn, Safe, Holding
<1>3. ~(l < k)
    <2> SUFFICES ASSUME l < k PROVE FALSE OBVIOUS
    <2>1. Before(l, k) /\ (pc[k] = "park" \/ k \in parked) BY DEF Before
    <2>2. pc[l] \in {"park", "report", "done"} BY <2>1 DEF Safe, Ordered
    <2> QED BY <2>2 DEF HasTurn
<1> QED BY <1>1, <1>2, <1>3

\* What is sent goes behind what waits, from the one lease whose turn or freeze it is.
LEMMA MailedStep ==
    ASSUME Safe, Placed, [Next]_vars
    PROVE  Mailed'
<1>0. /\ UNCHANGED of /\ None \notin Leases
      /\ \A l \in Leases : pc[l] # "none" => l \in DOMAIN of
      /\ \A l \in DOMAIN of : l \in Leases
    BY OfTyped, Changes DEF Safe, Issued
<1>1. /\ Len(mail) \in Nat /\ DOMAIN mail = 1..Len(mail)
      /\ \A i \in DOMAIN mail : /\ mail[i].kind \in Kinds
                                /\ mail[i].lease \in Leases \cup {None} /\ mail[i].box \in Leases \cup {None}
    BY MailTyped DEF Safe
<1>2. ASSUME NEW l \in Leases, pc[l] \in {"take", "park"}, pc'[l] # pc[l]
      PROVE  Receive(pc[l]) /\ l = mail[1].lease
    <2>1. ((pc[l] = "take" /\ Take) \/ (pc[l] = "park" /\ Park)) /\ l = Head(mail).lease
        BY <1>2, MovesOne DEF Moves
    <2>2. Receive(pc[l]) BY <2>1 DEF Take, Park
    <2> QED BY <2>1, <2>2, HeadSays
<1>3. ASSUME NEW k, k \in parked', k \notin parked
      PROVE  Receive("park") /\ k = mail[1].lease
    <2>1. Park /\ k = Head(mail).lease BY <1>3, Changes
    <2> QED BY <2>1, HeadSays DEF Park
<1>4. ASSUME NEW kind, Receive(kind) PROVE Len(mail') = Len(mail) - 1 BY <1>4, ReceivedFirst DEF Safe
<1>8. \A i \in DOMAIN mail : mail[i].kind \in Asks =>
          /\ \A k \in parked : of[k] = of[mail[i].lease] => k < mail[i].lease
          /\ \A k \in 1..(i - 1) : mail[k].kind = "park" /\ of[mail[k].lease] = of[mail[i].lease]
                                   => mail[k].lease < mail[i].lease
    BY DEF Safe, Mailed
<1>5. CASE UNCHANGED mail
    <2>1. \A kind : ~Receive(kind)
        <3>1. \A n \in Nat : n # n - 1 OBVIOUS
        <3> QED BY <1>1, <1>4, <1>5, <3>1
    <2>2. /\ \A l \in Leases : pc[l] \in {"take", "park"} => pc'[l] = pc[l]
          /\ \A k \in parked' : k \in parked
        BY <1>2, <1>3, <2>1
    <2>3. \A i \in DOMAIN mail : mail[i].kind \in {"take", "park"} => pc'[mail[i].lease] = mail[i].kind
        BY <1>0, <2>2 DEF Safe, Mailed
    <2> QED BY <1>0, <1>5, <2>2, <2>3 DEF Safe, Mailed
<1>6. ASSUME NEW kind, Receive(kind) PROVE Mailed'
    <2> DEFINE n == Len(mail)
    <2>1. /\ n \in Nat \ {0} /\ DOMAIN mail = 1..n /\ DOMAIN mail' = 1..(n - 1)
          /\ \A i \in 1..(n - 1) : mail'[i] = mail[i + 1]
          /\ mail[1].kind = kind
        BY <1>6, ReceivedFirst DEF Safe
    <2> HIDE DEF n
    <2>2. \A i \in DOMAIN mail' : i + 1 \in DOMAIN mail /\ i + 1 # 1 /\ mail'[i] = mail[i + 1] BY <2>1
    <2>3. 1 \in DOMAIN mail BY <2>1
    <2>4. ASSUME NEW l \in Leases, pc[l] \in {"take", "park"}, pc'[l] # pc[l]
          PROVE  pc[l] = kind /\ l = mail[1].lease
        BY <1>2, <2>1, <2>4, HeadSays
    <2>5. ASSUME NEW i \in DOMAIN mail', mail'[i].kind \in {"take", "park"}
          PROVE  pc'[mail'[i].lease] = mail'[i].kind
        <3> DEFINE l == mail[i + 1].lease
        <3>1. mail'[i] = mail[i + 1] /\ i + 1 \in DOMAIN mail /\ i + 1 # 1 BY <2>2
        <3>2. l \in Leases /\ pc[l] = mail[i + 1].kind BY <1>0, <2>5, <3>1 DEF Safe, Mailed
        <3>3. pc'[l] = pc[l]
            <4> SUFFICES ASSUME pc'[l] # pc[l] PROVE FALSE OBVIOUS
            <4>1. mail[1].kind = mail[i + 1].kind /\ mail[1].lease = l BY <2>1, <2>4, <2>5, <3>1, <3>2
            <4> QED BY <2>3, <2>5, <3>1, <4>1 DEF Safe, Mailed
        <3> QED BY <3>1, <3>2, <3>3
    <2>6. ASSUME NEW i \in DOMAIN mail', mail'[i].kind \in Asks, NEW k \in parked', of[k] = of[mail'[i].lease]
          PROVE  k < mail'[i].lease
        <3> DEFINE m == mail'[i]
        <3>1. PICK h \in DOMAIN mail : m = mail[h] /\ 1 \in 1..(h - 1) BY <2>1
        <3>2. /\ \A j \in parked : of[j] = of[m.lease] => j < m.lease
              /\ mail[1].kind = "park" /\ of[mail[1].lease] = of[m.lease] => mail[1].lease < m.lease
            BY <1>8, <2>6, <3>1
        <3> HIDE DEF m
        <3>3. CASE k \in parked BY <2>6, <3>2, <3>3 DEF m
        <3>4. CASE k \notin parked
            <4>1. k = mail[1].lease /\ mail[1].kind = "park" BY <1>3, <3>4, HeadSays
            <4> QED BY <2>6, <3>2, <4>1 DEF m
        <3> QED BY <3>3, <3>4
    <2>7. ASSUME NEW i \in DOMAIN mail', mail'[i].kind \in Asks, NEW k \in 1..(i - 1),
                 mail'[k].kind = "park", of[mail'[k].lease] = of[mail'[i].lease]
          PROVE  mail'[k].lease < mail'[i].lease
        <3>1. \E h \in DOMAIN mail : \E g \in 1..(h - 1) : mail'[i] = mail[h] /\ mail'[k] = mail[g]
            <4>1. i + 1 \in DOMAIN mail /\ k + 1 \in 1..((i + 1) - 1) BY <2>1
            <4>2. mail'[i] = mail[i + 1] /\ mail'[k] = mail[k + 1] BY <2>1
            <4> QED BY <4>1, <4>2
        <3> QED BY <1>8, <2>7, <3>1
    <2>8. ASSUME NEW i \in DOMAIN mail'
          PROVE  /\ IF mail'[i].kind \in {"close", "shutdown"} THEN mail'[i].lease = None
                                                               ELSE mail'[i].lease \in DOMAIN of
                 /\ mail'[i].box # None <=> mail'[i].kind \in {"park", "discard"}
        BY <2>2 DEF Safe, Mailed
    <2>9. ASSUME NEW i \in DOMAIN mail', NEW k \in DOMAIN mail',
                 mail'[i].kind \in {"take", "park"}, mail'[k].kind = mail'[i].kind,
                 mail'[k].lease = mail'[i].lease
          PROVE  k = i
        <3>1. k + 1 = i + 1 BY <2>2, <2>9 DEF Safe, Mailed
        <3> QED BY <2>1, <3>1
    <2> QED BY <1>0, <2>5, <2>6, <2>7, <2>8, <2>9 DEF Mailed
<1>7. ASSUME NEW kind \in Kinds, NEW l \in Leases \cup {None}, NEW b \in Leases \cup {None},
             Send(kind, l, b), Sends(kind, l, b)
      PROVE  Mailed'
    <2> DEFINE n == Len(mail)
    <2>1. /\ n \in Nat /\ DOMAIN mail = 1..n /\ DOMAIN mail' = 1..(n + 1)
          /\ \A i \in 1..n : mail'[i] = mail[i]
          /\ mail'[n + 1] = [kind |-> kind, lease |-> l, box |-> b]
        BY <1>7, SentLast DEF Safe
    <2> HIDE DEF n
    <2>9. mail'[n + 1].kind = kind /\ mail'[n + 1].lease = l /\ mail'[n + 1].box = b BY <2>1
    <2>2. \A r : ~Receive(r) 
        <3> SUFFICES ASSUME NEW r, Receive(r) PROVE FALSE OBVIOUS
        <3>1. DOMAIN mail' = 1..(n - 1) /\ n \in Nat \ {0} BY ReceivedFirst DEF Safe, n
        <3>2. n + 1 \in 1..(n + 1) /\ n + 1 \notin 1..(n - 1) BY <3>1
        <3> QED BY <2>1, <3>1, <3>2
    <2>3. /\ \A x \in Leases : pc[x] \in {"take", "park"} => pc'[x] = pc[x]
          /\ \A k \in parked' : k \in parked
        BY <1>2, <1>3, <2>2
    <2>4. \A i \in DOMAIN mail' : (i \in DOMAIN mail /\ mail'[i] = mail[i]) \/ i = n + 1 BY <2>1
    <2>5. /\ kind \notin {"close", "shutdown"} => l \in DOMAIN of
          /\ kind \in {"close", "shutdown"} => l = None
          /\ b # None <=> kind \in {"park", "discard"}
          /\ kind \in Asks => l \in Leases /\ (HasTurn(l) \/ (pc[l] = "freeze" /\ FreezesFirst(l)))
        <3>1. CASE kind \in {"take", "release"} /\ l \in Leases /\ b = None /\ HasTurn(l)
            BY <1>0, <3>1 DEF HasTurn, Asks
        <3>2. CASE kind = "park" /\ l \in Leases /\ b = hand[l] /\ Freeze(l)
            <4>1. pc[l] = "freeze" /\ FreezesFirst(l) BY <3>2 DEF Freeze
            <4>2. hand[l] # None BY <3>2, <4>1 DEF Placed, Readied
            <4> QED BY <1>0, <3>2, <4>1, <4>2
        <3>3. CASE kind = "supersede" /\ l \in Leases /\ b = None /\ (Report(l) \/ Drain(l))
            <4>1. pc[l] = "report" \/ l \in spooled BY <3>3 DEF Report, Drain
            <4>2. pc[l] # "none" BY <3>3, <4>1 DEF Safe, Holding
            <4> QED BY <1>0, <3>3, <4>2 DEF Asks
        <3>4. CASE kind = "discard" /\ l \in Leases /\ b # None /\ Thaw(l)
            BY <1>0, <3>4 DEF Thaw, Asks
        <3>5. CASE kind \in {"close", "shutdown"} /\ l = None /\ b = None BY <3>5 DEF Asks
        <3> QED BY <1>7, <3>1, <3>2, <3>3, <3>4, <3>5 DEF Sends
    <2>10. kind \in {"take", "park"} => l \in Leases /\ pc'[l] = kind /\ pc[l] # kind
        BY <1>7 DEF Sends, HasTurn, Freeze
    <2>6. ASSUME NEW i \in DOMAIN mail', mail'[i].kind \in {"take", "park"}
          PROVE  /\ pc'[mail'[i].lease] = mail'[i].kind
                 /\ \A k \in DOMAIN mail' : mail'[k].kind = mail'[i].kind /\ mail'[k].lease = mail'[i].lease => k = i
        <3>1. \A k \in DOMAIN mail : mail[k].kind \in {"take", "park"} =>
                  mail[k].lease \in Leases /\ pc[mail[k].lease] = mail[k].kind
            BY <1>0 DEF Safe, Mailed
        <3>2. CASE i \in DOMAIN mail /\ mail'[i] = mail[i]
            <4>1. pc'[mail[i].lease] = mail[i].kind /\ pc[mail[i].lease] = mail[i].kind /\ mail[i].lease \in Leases
                BY <2>3, <2>6, <3>1, <3>2
            <4>2. ASSUME NEW k \in DOMAIN mail', mail'[k].kind = mail'[i].kind, mail'[k].lease = mail'[i].lease
                  PROVE  k = i
                <5>1. k # n + 1 BY <2>6, <2>9, <2>10, <3>2, <4>1, <4>2
                <5>2. k \in DOMAIN mail /\ mail'[k] = mail[k] BY <2>4, <5>1
                <5> QED BY <2>6, <3>2, <4>2, <5>2 DEF Safe, Mailed
            <4> QED BY <3>2, <4>1, <4>2
        <3>3. CASE i = n + 1
            <4>1. kind \in {"take", "park"} /\ l \in Leases /\ pc'[l] = kind /\ pc[l] # kind
                BY <2>6, <2>9, <2>10, <3>3
            <4>2. ASSUME NEW k \in DOMAIN mail', mail'[k].kind = kind, mail'[k].lease = l
                  PROVE  k = n + 1
                BY <2>4, <3>1, <4>1, <4>2
            <4> QED BY <2>9, <3>3, <4>1, <4>2
        <3> QED BY <2>4, <3>2, <3>3
    <2>7. ASSUME NEW i \in DOMAIN mail'
          PROVE  /\ IF mail'[i].kind \in {"close", "shutdown"} THEN mail'[i].lease = None
                                                               ELSE mail'[i].lease \in DOMAIN of
                 /\ mail'[i].box # None <=> mail'[i].kind \in {"park", "discard"}
        BY <2>4, <2>5, <2>9 DEF Safe, Mailed
    <2>8. ASSUME NEW i \in DOMAIN mail', mail'[i].kind \in Asks
          PROVE  /\ \A k \in parked' : of[k] = of[mail'[i].lease] => k < mail'[i].lease
                 /\ \A k \in 1..(i - 1) : mail'[k].kind = "park" /\ of[mail'[k].lease] = of[mail'[i].lease]
                                          => mail'[k].lease < mail'[i].lease
        <3>1. CASE i \in DOMAIN mail /\ mail'[i] = mail[i]
            <4>1. \A k \in 1..(i - 1) : mail'[k] = mail[k] BY <2>1, <3>1
            <4> QED BY <1>8, <2>3, <2>8, <3>1, <4>1
        <3>2. CASE i = n + 1
            <4>1. /\ kind \in Asks /\ l \in Leases /\ l \in DOMAIN of
                  /\ HasTurn(l) \/ (pc[l] = "freeze" /\ FreezesFirst(l))
                BY <2>5, <2>8, <2>9, <3>2 DEF Asks
            <4>2. \A k \in Leases : k \in DOMAIN of /\ of[k] = of[l] /\ (pc[k] = "park" \/ k \in parked) => k < l
                BY <4>1, AsksLast
            <4>3. \A k \in parked' : k \in parked /\ k \in Leases /\ k \in DOMAIN of
                BY <2>3 DEF Safe, Holding, TypeOK
            <4>4. ASSUME NEW k \in 1..(i - 1), mail'[k].kind = "park", of[mail'[k].lease] = of[l]
                  PROVE  mail'[k].lease < l
                <5>1. k \in DOMAIN mail /\ mail'[k] = mail[k] BY <2>1, <3>2
                <5>2. mail[k].lease \in DOMAIN of /\ pc[mail[k].lease] = "park" BY <4>4, <5>1 DEF Safe, Mailed
                <5> QED BY <1>0, <4>2, <4>4, <5>1, <5>2
            <4> QED BY <2>9, <3>2, <4>2, <4>3, <4>4
        <3> QED BY <2>4, <3>1, <3>2
    <2> QED BY <1>0, <2>6, <2>7, <2>8 DEF Mailed
<1> QED BY <1>5, <1>6, <1>7, SendsOne DEF Safe

\* A hold was one before, or is of the sandbox that just parked, and then it is its fleet's only one.
LEMMA HeldFrom ==
    ASSUME Safe, [Next]_vars
    PROVE  \/ UNCHANGED parked /\ \A i \in DOMAIN held' : \E k \in DOMAIN held : held'[i] = held[k]
           \/ /\ Park /\ keeper = "open" /\ parked' = parked \cup {mail[1].lease}
              /\ \A i \in DOMAIN held' :
                    \/ held'[i] = [lease |-> mail[1].lease, box |-> mail[1].box]
                    \/ \E k \in DOMAIN held : held'[i] = held[k] /\ of[held[k].lease] # of[mail[1].lease]
<1> DEFINE Kept == \A i \in DOMAIN held' : \E k \in DOMAIN held : held'[i] = held[k]
<1>0. held \in Seq(Entry) BY DEF Safe, TypeOK
<1>1. ASSUME NEW left, NEW out, NEW extra, Thinned(left, held), Keep(left, out, extra) PROVE Kept
    BY <1>1 DEF Thinned, Keep
<1>2. ASSUME UNCHANGED held PROVE Kept BY <1>2
<1> HIDE DEF Kept
<1>3. Thinned(held, held) /\ Thinned(<<>>, held) BY <1>0 DEF Thinned
<1>4. ASSUME NEW at \in SUBSET DOMAIN held PROVE Thinned(Less(at), held) BY <1>4, LessThins DEF Safe
<1>5. ASSUME NEW i \in DOMAIN held PROVE Thinned(Without(held, i), held) BY <1>0, WithoutThins
<1>6. \A f : Position(f) \in SUBSET DOMAIN held BY DEF Position
<1>7. CASE ~Park
    <2>1. UNCHANGED parked BY <1>7, Changes
    <2>2. ASSUME Take PROVE Kept
        <3>1. \/ \E i \in Position(of[Head(mail).lease]) : Keep(Without(held, i), {held[i].box}, {})
              \/ Keep(Less(Position(of[Head(mail).lease])), {}, {})
            BY <2>2 DEF Take
        <3>2. ASSUME NEW i \in Position(of[Head(mail).lease]), Keep(Without(held, i), {held[i].box}, {})
              PROVE  Kept
            BY <1>1, <1>5, <1>6, <3>2
        <3>3. ASSUME Keep(Less(Position(of[Head(mail).lease])), {}, {}) PROVE Kept
            BY <1>1, <1>4, <1>6, <3>3
        <3> QED BY <3>1, <3>2, <3>3
    <2>3. ASSUME Release PROVE Kept
        <3>1. {i \in DOMAIN held : held[i].lease = Head(mail).lease} \in SUBSET DOMAIN held OBVIOUS
        <3>2. PICK left : End(left) /\ (left = <<>> \/ \E at \in SUBSET DOMAIN held : left = Less(at))
            BY <1>6, <2>3, <3>1 DEF Release
        <3>3. Thinned(left, held) /\ Keep(left, {}, {}) BY <1>3, <1>4, <3>2 DEF End
        <3> QED BY <1>1, <3>3
    <2>4. ASSUME Discard PROVE Kept
        <3>1. Keep(held, {}, {Head(mail).box}) BY <2>4 DEF Discard
        <3> QED BY <1>1, <1>3, <3>1
    <2>5. ASSUME NEW l \in Leases, LetGo(l) PROVE Kept
        <3>1. PICK i \in DOMAIN held : Keep(Without(held, i), {}, {}) BY <2>5 DEF LetGo, End
        <3> QED BY <1>1, <1>5, <3>1
    <2>6. ASSUME Resize PROVE Kept
        <3>1. PICK n \in 1..(workers - 1) : Keep(Newest(held, n), {}, {}) BY <2>6 DEF Resize
        <3>2. n \in Nat BY HostAssumption DEF Safe, TypeOK
        <3>3. Thinned(Newest(held, n), held) BY <1>0, <3>2, NewestThins
        <3> QED BY <1>1, <3>1, <3>3
    <2>7. CASE ~(Take \/ Release \/ Discard \/ Resize \/ \E l \in Leases : LetGo(l))
        <3>1. UNCHANGED held
            BY <1>7, <2>7 DEF Next, RunLease, Serve, Stop, vars, keeperVars, IssueElsewhere, Issue, GiveUp,
                BuildFresh, Refuse, RunBare, AskHeld, Thaw, EndRun, Freeze, Report, Drain, Halt, Close,
                Shutdown, Finish
        <3> QED BY <1>2, <2>1, <3>1 DEF Kept
    <2> QED BY <2>1, <2>2, <2>3, <2>4, <2>5, <2>6, <2>7 DEF Kept
<1>8. CASE Park
    <2> DEFINE e == [lease |-> mail[1].lease, box |-> mail[1].box]
    <2>1. CASE UNCHANGED parked /\ Keep(held, {}, {}) BY <1>1, <1>3, <2>1 DEF Kept
    <2>2. ASSUME NEW rest \in Seq(Entry), Thinned(rest, held), keeper = "open", parked' = parked \cup {mail[1].lease},
                 \A j \in DOMAIN rest : of[rest[j].lease] # of[mail[1].lease], Keep(Append(rest, e), {}, {})
          PROVE  /\ Park /\ keeper = "open" /\ parked' = parked \cup {mail[1].lease}
                 /\ \A i \in DOMAIN held' :
                       \/ held'[i] = e
                       \/ \E k \in DOMAIN held : held'[i] = held[k] /\ of[held[k].lease] # of[mail[1].lease]
        <3>1. held' = Append(rest, e) BY <2>2 DEF Keep
        <3> HIDE DEF e
        <3>2. /\ Len(rest) \in Nat /\ DOMAIN rest = 1..Len(rest) /\ DOMAIN held' = 1..(Len(rest) + 1)
              /\ held'[Len(rest) + 1] = e /\ \A i \in 1..Len(rest) : held'[i] = rest[i]
            BY <3>1
        <3>3. \A i \in DOMAIN rest : \E k \in DOMAIN held : rest[i] = held[k] BY <2>2 DEF Thinned
        <3>4. \A i \in DOMAIN held' : held'[i] = e \/ (i \in DOMAIN rest /\ held'[i] = rest[i]) BY <3>2
        <3>5. ASSUME NEW i \in DOMAIN held', held'[i] # e
              PROVE  \E k \in DOMAIN held : held'[i] = held[k] /\ of[held[k].lease] # of[mail[1].lease]
            <4>1. i \in DOMAIN rest /\ held'[i] = rest[i] BY <3>4, <3>5
            <4>2. PICK k \in DOMAIN held : rest[i] = held[k] BY <3>3, <4>1
            <4>3. of[rest[i].lease] # of[mail[1].lease] BY <2>2, <4>1
            <4> QED BY <4>1, <4>2, <4>3
        <3> QED BY <1>8, <2>2, <3>5
    <2> HIDE DEF e
    <2>3. \/ UNCHANGED parked /\ Keep(held, {}, {})
          \/ \E rest \in Seq(Entry) :
                /\ Thinned(rest, held) /\ keeper = "open" /\ parked' = parked \cup {mail[1].lease}
                /\ \A j \in DOMAIN rest : of[rest[j].lease] # of[mail[1].lease]
                /\ Keep(Append(rest, e), {}, {})
        BY <1>8, ParkKeeps DEF e
    <2>4. CASE \E rest \in Seq(Entry) :
                /\ Thinned(rest, held) /\ keeper = "open" /\ parked' = parked \cup {mail[1].lease}
                /\ \A j \in DOMAIN rest : of[rest[j].lease] # of[mail[1].lease]
                /\ Keep(Append(rest, e), {}, {})
        BY <2>2, <2>4 DEF e
    <2> QED BY <2>1, <2>3, <2>4
<1> QED BY <1>7, <1>8

\* A lease is told to resume its predecessor, and no earlier lease parks after that.
LEMMA ResumesStep ==
    ASSUME Safe, [Next]_vars
    PROVE  Resumes'
<1>0. /\ Leases \subseteq Nat \ {0} /\ UNCHANGED of /\ parked \subseteq parked' /\ None \notin Leases
      /\ DOMAIN pc = Leases /\ DOMAIN resume = Leases /\ DOMAIN latest = Fleets
      /\ DOMAIN of \subseteq Leases /\ \A l \in DOMAIN of : of[l] \in Fleets
    BY OfTyped, Changes DEF Safe, TypeOK
<1>1. \A j, k : Before(j, k)' <=> Before(j, k) BY <1>0 DEF Before
<1>2. ASSUME NEW x \in Leases, Issue(x) PROVE Resumes'
    <2> DEFINE p == latest[of[x]]
    <2>1. /\ x \in DOMAIN of /\ pc[x] = "none" /\ \A k \in Leases : k < x => pc[k] # "none"
          /\ pc' = [pc EXCEPT ![x] = "turn"]
          /\ resume' = [resume EXCEPT ![x] = IF p \in keeps THEN p ELSE None]
        BY <1>2 DEF Issue, Goes
    <2>2. /\ pc'[x] = "turn" /\ resume'[x] = (IF p \in keeps THEN p ELSE None)
          /\ \A l \in Leases \ {x} : pc'[l] = pc[l] /\ resume'[l] = resume[l]
        BY <1>0, <2>1
    <2>3. ASSUME p \in keeps
          PROVE  /\ p \in parked /\ Before(p, x)
                 /\ \A k \in DOMAIN of : Before(k, x) => k <= p
        <3>1. p \in parked /\ p \in Leases BY <2>3 DEF Safe, Holding, TypeOK
        <3>2. pc[p] # "none" /\ of[p] = of[x] /\ p \in DOMAIN of BY <1>0, <2>1, <3>1 DEF Safe, Issued
        <3>3. p < x
            <4>1. \A k, l \in Leases : k < l /\ pc[l] # "none" => pc[k] # "none" BY DEF Safe, Issued
            <4>2. p \in Nat /\ x \in Nat BY <1>0, <3>1
            <4> HIDE DEF p
            <4>3. p # x /\ ~(x < p) BY <2>1, <3>1, <3>2, <4>1
            <4> QED BY <4>2, <4>3
        <3>4. \A k \in DOMAIN of : Before(k, x) => k <= p
            BY <1>0, <2>1, <3>1 DEF Before, Safe, Issued
        <3> QED BY <2>1, <3>1, <3>2, <3>3, <3>4 DEF Before
    <2> HIDE DEF p
    <2> QED BY <1>0, <1>1, <2>2, <2>3 DEF Safe, Resumes
<1>3. CASE \A l \in Leases : ~Issue(l)
    <2>1. UNCHANGED resume BY <1>3, Changes
    <2>2. ASSUME NEW l \in Leases
          PROVE  /\ pc'[l] \in {"turn", "take"} => pc[l] \in {"turn", "take"}
                 /\ pc'[l] = "take" => resume[l] # None
        BY <1>3, MovesOne DEF Moves, Safe, Resumes
    <2> QED BY <1>0, <1>1, <2>1, <2>2 DEF Safe, Resumes
<1> QED BY <1>2, <1>3

\* The keeper replaces a fleet's hold when a later lease of it parks.
LEMMA HoldingStep ==
    ASSUME Safe, [Next]_vars
    PROVE  Holding'
<1>0. /\ Leases \subseteq Nat \ {0} /\ UNCHANGED of /\ parked \subseteq parked' /\ parked \subseteq Leases
      /\ spooled \cup recorded \subseteq Leases
      /\ DOMAIN pc = Leases /\ DOMAIN of \subseteq Leases
    BY OfTyped, Changes DEF Safe, TypeOK
<1>1. ASSUME NEW k, k \in parked', k \notin parked
      PROVE  Park /\ k = mail[1].lease /\ k \in Leases /\ k \in DOMAIN of /\ pc'[k] = "report"
    <2>1. Park /\ k = Head(mail).lease BY <1>1, Changes
    <2>2. Receive("park") BY <2>1 DEF Park
    <2>3. k = mail[1].lease /\ k \in Leases /\ k \in DOMAIN of BY <2>1, <2>2, HeadSays
    <2>4. Goes(k, "report") BY <2>1, <2>3, ParkKeeps
    <2> QED BY <1>0, <2>1, <2>3, <2>4 DEF Goes
<1>2. ASSUME NEW l \in Leases
      PROVE  /\ pc[l] \in {"report", "done"} => pc'[l] \in {"report", "done"}
             /\ pc[l] = "done" => pc'[l] = "done"
    BY MovesOne DEF Moves, Issue
<1>3. \A l \in parked' : pc'[l] \in {"report", "done"} /\ l \in DOMAIN of'
    BY <1>0, <1>1, <1>2 DEF Safe, Holding
<1>4. ASSUME NEW l, l \in spooled' \cup recorded', l \notin spooled \cup recorded
      PROVE  l \in Leases /\ pc'[l] = "done"
    <2>1. PICK x \in Leases : Report(x) \/ Drain(x) BY <1>4, Changes
    <2>2. l = x BY <1>4, <2>1 DEF Report, Drain, Recorded, Refused, daemonVars
    <2>3. CASE Report(x) BY <1>0, <2>2, <2>3 DEF Report, Goes
    <2>4. CASE Drain(x)
        <3>1. x \in spooled BY <2>4 DEF Drain
        <3> QED BY <1>4, <2>2, <3>1
    <2> QED BY <2>1, <2>3, <2>4
<1>5. keeps' \subseteq parked'
    <2>1. ASSUME NEW x \in Leases, Report(x) \/ Drain(x) PROVE keeps' \subseteq keeps \cup parked
        BY <2>1 DEF Report, Drain, Recorded, Refused, daemonVars
    <2>2. keeps' \subseteq keeps \cup parked BY <2>1, Changes
    <2> QED BY <1>0, <2>2 DEF Safe, Holding
<1>6. ASSUME NEW i \in DOMAIN held'
      PROVE  /\ held'[i].lease \in parked'
             /\ \A k \in parked' : of[k] = of[held'[i].lease] => k <= held'[i].lease
    <2>1. ASSUME NEW j \in DOMAIN held
          PROVE  held[j].lease \in parked /\ \A k \in parked : of[k] = of[held[j].lease] => k <= held[j].lease
        BY DEF Safe, Holding
    <2>2. CASE UNCHANGED parked /\ \E j \in DOMAIN held : held'[i] = held[j] BY <2>1, <2>2
    <2>3. CASE /\ Park /\ parked' = parked \cup {mail[1].lease}
               /\ held'[i] = [lease |-> mail[1].lease, box |-> mail[1].box]
        <3>1. /\ mail[1].kind = "park" /\ 1 \in DOMAIN mail /\ held'[i].lease = mail[1].lease
              /\ mail[1].lease \in Leases
            BY <2>3, HeadSays DEF Park
        <3>2. \A k \in parked : of[k] = of[mail[1].lease] => k < mail[1].lease
            BY <3>1 DEF Safe, Mailed, Asks
        <3>3. ASSUME NEW k \in parked', of[k] = of[mail[1].lease] PROVE k <= mail[1].lease
            <4>1. k \in Nat /\ mail[1].lease \in Nat /\ (k \in parked \/ k = mail[1].lease) BY <1>0, <2>3, <3>1
            <4> QED BY <3>2, <3>3, <4>1
        <3> QED BY <2>3, <3>1, <3>3
    <2>4. CASE /\ Park /\ parked' = parked \cup {mail[1].lease}
               /\ \E k \in DOMAIN held : held'[i] = held[k] /\ of[held[k].lease] # of[mail[1].lease]
        BY <2>1, <2>4
    <2> QED BY <2>2, <2>3, <2>4, HeldFrom
<1> QED BY <1>0, <1>2, <1>3, <1>4, <1>5, <1>6 DEF Safe, Holding

\* Few steps change who has a sandbox in hand, or what ran in it.
LEMMA HandChanges ==
    ASSUME Safe, [Next]_vars
    PROVE  /\ UNCHANGED ran \/ \E l \in Leases : BuildFresh(l) \/ Thaw(l)
           /\ \/ UNCHANGED hand \/ Take \/ Park
              \/ \E l \in Leases : BuildFresh(l) \/ Thaw(l) \/ Freeze(l) \/ Report(l)
<1>1. CASE UNCHANGED vars BY <1>1 DEF vars, leaseVars
<1>2. CASE Aside BY <1>2, AsideFrame
<1>3. ASSUME NEW l \in Leases, Freeze(l) \/ Report(l) PROVE UNCHANGED ran BY <1>3 DEF Freeze, Report
<1>4. ASSUME NEW l \in Leases, Issue(l) \/ GiveUp(l) \/ Refuse(l) \/ RunBare(l) \/ AskHeld(l) \/ EndRun(l)
      PROVE  UNCHANGED <<ran, hand>>
    BY <1>4 DEF Issue, GiveUp, Refuse, RunBare, AskHeld, EndRun
<1>5. CASE Take \/ Park BY <1>5 DEF Take, Park
<1> QED BY <1>1, <1>2, <1>3, <1>4, <1>5 DEF Next, RunLease, Serve, Aside

\* A lease is handed a sandbox by its build, its thaw or the keeper, and gives it up to park or end.
LEMMA HandOf ==
    ASSUME Safe, [Next]_vars, NEW l \in Leases, hand'[l] # hand[l]
    PROVE  \/ BuildFresh(l) \/ Thaw(l)
           \/ (Freeze(l) \/ Report(l)) /\ hand'[l] = None /\ pc'[l] \in {"park", "done"}
           \/ /\ Take /\ l = mail[1].lease /\ pc'[l] = "thaw"
              /\ \E i \in Position(of[l]) : hand'[l] = held[i].box /\ Keep(Without(held, i), {held[i].box}, {})
           \/ /\ Park /\ l = mail[1].lease /\ pc'[l] = "report" /\ hand'[l] = mail[1].box
              /\ keeper # "open" /\ Keep(held, {}, {})
<1>0. DOMAIN hand = Leases /\ DOMAIN pc = Leases BY DEF Safe, TypeOK
<1>1. ASSUME NEW x \in Leases, BuildFresh(x) \/ Thaw(x) PROVE BuildFresh(l) \/ Thaw(l)
    <2>1. UNCHANGED hand \/ \E b : hand' = [hand EXCEPT ![x] = b] BY <1>1 DEF BuildFresh, Thaw, Build
    <2>2. l = x BY <1>0, <2>1
    <2> QED BY <1>1, <2>2
<1>2. ASSUME NEW x \in Leases, Freeze(x) \/ Report(x)
      PROVE  (Freeze(l) \/ Report(l)) /\ hand'[l] = None /\ pc'[l] \in {"park", "done"}
    <2>1. \/ UNCHANGED hand
          \/ hand' = [hand EXCEPT ![x] = None] /\ (Goes(x, "park") \/ Goes(x, "done"))
        BY <1>2 DEF Freeze, Report
    <2>2. l = x /\ hand'[l] = None BY <1>0, <2>1
    <2> QED BY <1>0, <1>2, <2>1, <2>2 DEF Goes
<1>3. CASE Take
    <2>1. Head(mail) = mail[1] /\ mail[1].lease \in Leases BY <1>3, HeadSays DEF Take
    <2>2. PICK i \in Position(of[mail[1].lease]) :
              /\ hand' = [hand EXCEPT ![mail[1].lease] = held[i].box]
              /\ Keep(Without(held, i), {held[i].box}, {})
        BY <1>3, <2>1 DEF Take
    <2>3. l = mail[1].lease /\ hand'[l] = held[i].box BY <1>0, <2>1, <2>2
    <2>4. pc'[l] = "thaw" BY <1>0, <1>3, <2>1, <2>3 DEF Take, Goes
    <2> QED BY <1>3, <2>2, <2>3, <2>4
<1>4. CASE Park
    <2>1. /\ mail[1].lease \in Leases /\ Goes(mail[1].lease, "report")
          /\ keeper # "open" /\ Keep(held, {}, {}) /\ hand' = [hand EXCEPT ![mail[1].lease] = mail[1].box]
        BY <1>4, ParkKeeps
    <2>2. l = mail[1].lease /\ hand'[l] = mail[1].box BY <1>0, <2>1
    <2> QED BY <1>0, <1>4, <2>1, <2>2 DEF Goes
<1> QED BY <1>1, <1>2, <1>3, <1>4, HandChanges

\* A lease that starts to run has its sandbox to itself.
LEMMA RunsAlone ==
    ASSUME Safe, Placed, NEW x \in Leases, BuildFresh(x) \/ Thaw(x)
    PROVE  \E b \in Leases :
              /\ ran' = [ran EXCEPT ![b] = x] /\ hand' = [hand EXCEPT ![x] = b]
              /\ ~InMail(b) /\ ~InHeld(b) /\ (\A k \in Leases : hand[k] = b => k = x)
              /\ pc[x] \in {"turn", "thaw"} /\ pc'[x] = "run" /\ UNCHANGED <<of, held, resume>>
              /\ b # x => b = hand[x] /\ UNCHANGED mail
              /\ b \notin destroying /\ b \notin gone
<1>1. /\ pc[x] \in {"turn", "thaw"} /\ pc'[x] = "run" /\ UNCHANGED <<of, held, resume>>
    BY DEF BuildFresh, Thaw, HasTurn, Goes, keeperVars, Safe, TypeOK
<1>2. CASE Build(x)
    <2>1. ran[x] = None BY <1>1 DEF Placed, Readied
    <2>2. ~InHand(x) /\ ~InMail(x) /\ ~InHeld(x) /\ x \notin destroying /\ x \notin gone
        BY <2>1 DEF Placed, OnePlace
    <2> QED BY <1>1, <1>2, <2>2 DEF Build, InHand
<1>3. CASE hand[x] # None /\ ran' = [ran EXCEPT ![hand[x]] = x] /\ UNCHANGED <<hand, mail>>
    <2>1. hand[x] \in Leases /\ hand' = [hand EXCEPT ![x] = hand[x]] BY <1>3 DEF Safe, TypeOK
    <2>2. InHand(hand[x]) BY DEF InHand
    <2>3. /\ ~InMail(hand[x]) /\ ~InHeld(hand[x]) /\ hand[x] \notin destroying /\ hand[x] \notin gone
        BY <2>1, <2>2 DEF Placed, OnePlace
    <2>4. \A k \in Leases : hand[k] = hand[x] => k = x BY <1>3 DEF Placed, Single
    <2> QED BY <1>1, <1>3, <2>1, <2>3, <2>4
<1> QED BY <1>2, <1>3 DEF BuildFresh, Thaw

\* A lease that runs in a sandbox has it in hand, and what is parked or held keeps its last lease.
LEMMA RanStep ==
    ASSUME Safe, Placed, RanLast, ResumesRecorded, [Next]_vars
    PROVE  RanLast' /\ ResumesRecorded'
<1>0. /\ UNCHANGED of /\ None \notin Leases /\ DOMAIN pc = Leases /\ DOMAIN hand = Leases /\ DOMAIN ran = Leases
      /\ \A l \in Leases : hand[l] \in Leases \cup {None}
      /\ \A i \in DOMAIN held : held[i].box \in Leases /\ held[i].lease \in Leases
    <2>1. \A i \in DOMAIN held : held[i] \in Entry BY DEF Safe, TypeOK
    <2> QED BY <2>1, HostAssumption, Changes DEF Safe, TypeOK, Entry
<1>1. ASSUME NEW x \in Leases, BuildFresh(x) \/ Thaw(x) PROVE RanLast' /\ ResumesRecorded'
    <2>1. PICK b \in Leases :
              /\ ran' = [ran EXCEPT ![b] = x] /\ hand' = [hand EXCEPT ![x] = b]
              /\ ~InMail(b) /\ ~InHeld(b) /\ (\A k \in Leases : hand[k] = b => k = x)
              /\ pc[x] \in {"turn", "thaw"} /\ pc'[x] = "run" /\ UNCHANGED <<of, held, resume>>
        BY <1>1, RunsAlone
    <2>2. /\ ran'[b] = x /\ (\A c \in Leases \ {b} : ran'[c] = ran[c])
          /\ hand'[x] = b /\ (\A k \in Leases \ {x} : hand'[k] = hand[k])
        BY <1>0, <2>1
    <2>3. \A k \in Leases \ {x} : pc'[k] = pc[k]
        <3>1. pc' = [pc EXCEPT ![x] = "run"] BY <1>1 DEF BuildFresh, Thaw, Goes
        <3> QED BY <1>0, <3>1
    <2>4. \A i \in DOMAIN held : held[i].box # b BY <2>1 DEF InHeld
    <2>5. \A i \in DOMAIN held' : ran'[held'[i].box] = held'[i].lease
        BY <1>0, <2>1, <2>2, <2>4 DEF RanLast
    <2>6. ASSUME NEW i \in DOMAIN mail', mail'[i].kind = "park"
          PROVE  ran'[mail'[i].box] = mail'[i].lease
        <3>1. i \in DOMAIN mail /\ mail'[i] = mail[i]
            <4>1. CASE UNCHANGED mail BY <4>1
            <4>2. ASSUME NEW kind \in {"release", "discard"}, NEW c \in Leases \cup {None}, Send(kind, x, c)
                  PROVE  i \in DOMAIN mail /\ mail'[i] = mail[i]
                <5>1. /\ Len(mail) \in Nat /\ DOMAIN mail = 1..Len(mail) /\ DOMAIN mail' = 1..(Len(mail) + 1)
                      /\ \A j \in 1..Len(mail) : mail'[j] = mail[j]
                      /\ mail'[Len(mail) + 1] = [kind |-> kind, lease |-> x, box |-> c]
                    BY <4>2, SentLast DEF Safe, Kinds
                <5>2. i # Len(mail) + 1 BY <2>6, <4>2, <5>1
                <5> QED BY <5>1, <5>2
            <4> QED BY <1>0, <1>1, <4>1, <4>2 DEF BuildFresh, Thaw
        <3>2. mail[i].box \in Leases
            BY <1>0, <2>6, <3>1, MailTyped DEF Safe, Mailed
        <3>3. mail[i].box # b BY <2>1, <3>1 DEF InMail
        <3> QED BY <2>2, <2>6, <3>1, <3>2, <3>3 DEF RanLast
    <2>7. ASSUME NEW l \in Leases, l # x, hand'[l] # None
          PROVE  hand'[l] = hand[l] /\ hand[l] # b /\ hand[l] \in Leases
        BY <1>0, <2>1, <2>2, <2>7
    <2>8. \A l \in Leases : pc'[l] \in {"run", "freeze"} /\ hand'[l] # None => ran'[hand'[l]] = l
        BY <2>2, <2>3, <2>7 DEF RanLast
    <2>9. \A l \in Leases : pc'[l] = "thaw" /\ hand'[l] # None => ran'[hand'[l]] = resume'[l]
        BY <2>1, <2>2, <2>3, <2>7 DEF ResumesRecorded
    <2> QED BY <2>5, <2>6, <2>8, <2>9 DEF RanLast, ResumesRecorded
<1>2. CASE \A x \in Leases : ~(BuildFresh(x) \/ Thaw(x))
    <2>1. UNCHANGED ran BY <1>2, HandChanges
    <2>2. ASSUME NEW i \in DOMAIN held' PROVE ran[held'[i].box] = held'[i].lease
        <3>1. CASE \E k \in DOMAIN held : held'[i] = held[k] BY <3>1 DEF RanLast
        <3>2. CASE Park /\ held'[i] = [lease |-> mail[1].lease, box |-> mail[1].box]
            <4>1. mail[1].kind = "park" /\ 1 \in DOMAIN mail BY <3>2, HeadSays DEF Park
            <4> QED BY <3>2, <4>1 DEF RanLast
        <3> QED BY <3>1, <3>2, HeldFrom
    <2>3. ASSUME NEW i \in DOMAIN mail', mail'[i].kind = "park" PROVE ran[mail'[i].box] = mail'[i].lease
        <3>1. CASE UNCHANGED mail BY <2>3, <3>1 DEF RanLast
        <3>2. ASSUME NEW kind, Receive(kind) PROVE ran[mail'[i].box] = mail'[i].lease
            <4>1. /\ Len(mail) \in Nat \ {0} /\ DOMAIN mail = 1..Len(mail) /\ DOMAIN mail' = 1..(Len(mail) - 1)
                  /\ \A j \in 1..(Len(mail) - 1) : mail'[j] = mail[j + 1]
                BY <3>2, ReceivedFirst DEF Safe
            <4>2. i + 1 \in DOMAIN mail /\ mail'[i] = mail[i + 1] BY <4>1
            <4> QED BY <2>3, <4>2 DEF RanLast
        <3>3. ASSUME NEW kind \in Kinds, NEW l \in Leases \cup {None}, NEW b \in Leases \cup {None},
                     Send(kind, l, b), Sends(kind, l, b)
              PROVE  ran[mail'[i].box] = mail'[i].lease
            <4>1. /\ Len(mail) \in Nat /\ DOMAIN mail = 1..Len(mail) /\ DOMAIN mail' = 1..(Len(mail) + 1)
                  /\ \A j \in 1..Len(mail) : mail'[j] = mail[j]
                  /\ mail'[Len(mail) + 1] = [kind |-> kind, lease |-> l, box |-> b]
                BY <3>3, SentLast DEF Safe
            <4>2. CASE i \in 1..Len(mail) BY <2>3, <4>1, <4>2 DEF RanLast
            <4>3. CASE i = Len(mail) + 1
                <5>1. kind = "park" /\ mail'[i].box = b /\ mail'[i].lease = l BY <2>3, <4>1, <4>3
                <5>2. l \in Leases /\ b = hand[l] /\ pc[l] = "freeze" BY <3>3, <5>1 DEF Sends, Freeze
                <5>3. ran[hand[l]] = l BY <5>2 DEF Placed, Readied, RanLast
                <5> QED BY <5>1, <5>2, <5>3
            <4> QED BY <4>1, <4>2, <4>3
        <3> QED BY <3>1, <3>2, <3>3, SendsOne DEF Safe
    <2>4. ASSUME NEW l \in Leases, pc'[l] \in {"run", "freeze"}, hand'[l] # None
          PROVE  ran[hand'[l]] = l
        <3>1. pc[l] \in {"run", "freeze"} \/ pc[l] = "turn"
            BY <1>2, <2>4, MovesOne DEF Moves
        <3>2. hand'[l] = hand[l] BY <1>2, <2>4, HandOf
        <3> QED BY <2>4, <3>1, <3>2 DEF RanLast, Placed, Readied
    <2>5. ASSUME NEW l \in Leases, pc'[l] = "thaw", hand'[l] # None
          PROVE  ran[hand'[l]] = resume'[l]
        <3>0. resume'[l] = resume[l]
            <4>1. CASE UNCHANGED resume BY <4>1
            <4>2. ASSUME NEW x \in Leases, Issue(x) PROVE resume'[l] = resume[l]
                <5>1. pc' = [pc EXCEPT ![x] = "turn"] /\ \E r : resume' = [resume EXCEPT ![x] = r]
                    BY <4>2 DEF Issue, Goes
                <5>2. l # x BY <1>0, <2>5, <5>1
                <5> QED BY <5>1, <5>2 DEF Safe, TypeOK
            <4> QED BY <4>1, <4>2, Changes
        <3>1. CASE pc[l] = "thaw"
            <4>1. hand'[l] = hand[l]
                <5> SUFFICES ASSUME hand'[l] # hand[l] PROVE FALSE OBVIOUS
                <5>1. Take /\ l = mail[1].lease BY <1>2, <2>5, HandOf
                <5>2. pc[l] = "take" BY <5>1, HeadSays DEF Take
                <5> QED BY <3>1, <5>2
            <4> QED BY <2>5, <3>0, <3>1, <4>1 DEF ResumesRecorded
        <3>2. CASE pc[l] # "thaw"
            <4>1. pc[l] = "take" BY <2>5, <3>2, MovesOne DEF Moves
            <4>2. hand[l] = None BY <4>1 DEF Placed, Readied
            <4>3. Take /\ l = mail[1].lease /\ \E i \in Position(of[l]) : hand'[l] = held[i].box
                BY <1>2, <2>5, <4>2, HandOf
            <4>4. PICK i \in DOMAIN held : hand'[l] = held[i].box /\ of[held[i].lease] = of[l]
                BY <4>3 DEF Position
            <4> DEFINE h == held[i].lease
            <4>5. /\ ran[hand'[l]] = h /\ h \in parked /\ h \in Leases /\ of[h] = of[l]
                  /\ \A k \in parked : of[k] = of[h] => k <= h
                BY <1>0, <4>4 DEF RanLast, Safe, Holding
            <4>6. l \in DOMAIN of /\ h \in DOMAIN of BY <1>0, <4>1, <4>5 DEF Safe, Issued, Holding
            <4> HIDE DEF h
            <4>7. mail[1].kind = "take" /\ 1 \in DOMAIN mail BY <4>3, HeadSays DEF Take
            <4>8. h < l BY <4>3, <4>5, <4>7 DEF Safe, Mailed, Asks
            <4>9. /\ resume[l] \in parked /\ Before(resume[l], l)
                  /\ \A k \in DOMAIN of : Before(k, l) => k <= resume[l]
                BY <4>1 DEF Safe, Resumes
            <4>10. h <= resume[l] BY <4>5, <4>6, <4>8, <4>9 DEF Before
            <4>11. resume[l] <= h BY <4>5, <4>9 DEF Before
            <4>12. h \in Nat /\ resume[l] \in Nat BY <4>5, <4>9, HostAssumption DEF Safe, TypeOK
            <4>13. h = resume[l] BY <4>10, <4>11, <4>12
            <4> QED BY <3>0, <4>5, <4>13
        <3> QED BY <3>1, <3>2
    <2> QED BY <2>1, <2>2, <2>3, <2>4, <2>5 DEF RanLast, ResumesRecorded
<1> QED BY <1>1, <1>2

\* A sandbox is named after its lease, which builds it once, when it starts to run.
LEMMA ReadiedStep ==
    ASSUME Safe, Placed, [Next]_vars
    PROVE  Readied'
<1>0. /\ DOMAIN ran = Leases /\ None \notin Leases /\ \A l \in Leases : hand[l] \in Leases \cup {None}
      /\ DOMAIN hand = Leases /\ DOMAIN pc = Leases
    BY HostAssumption DEF Safe, TypeOK
<1>1. ASSUME NEW l \in Leases, pc'[l] \in {"none", "turn", "take", "thaw"} PROVE ran'[l] = None
    <2>1. pc[l] \in {"none", "turn", "take", "thaw"} BY <1>1, MovesOne DEF Moves
    <2>2. ran[l] = None BY <2>1 DEF Placed, Readied
    <2>3. ASSUME NEW x \in Leases, BuildFresh(x) \/ Thaw(x) PROVE ran'[l] = ran[l]
        <3>1. PICK b \in Leases : ran' = [ran EXCEPT ![b] = x] /\ pc'[x] = "run" /\ (b # x => b = hand[x])
            BY <2>3, RunsAlone
        <3>2. x # l BY <1>1, <3>1
        <3>3. b # l
            <4>1. hand[x] = l => ran[l] # None BY DEF Placed, OnePlace, InHand
            <4> QED BY <2>2, <3>1, <3>2, <4>1
        <3> QED BY <1>0, <3>1, <3>3
    <2> QED BY <2>2, <2>3, HandChanges
<1>2. ASSUME NEW l \in Leases, pc'[l] \in {"none", "turn", "take", "park", "done"} PROVE hand'[l] = None
    <2>1. CASE hand'[l] # hand[l]
        <3>1. ~BuildFresh(l) /\ ~Thaw(l) BY <1>0, <1>2 DEF BuildFresh, Thaw, Goes
        <3> QED BY <1>2, <2>1, <3>1, HandOf
    <2>2. CASE hand'[l] = hand[l]
        <3>1. \/ pc[l] \in {"none", "turn", "take", "park", "done"}
              \/ pc[l] = "freeze" /\ pc'[l] = "park" /\ Freeze(l)
              \/ pc[l] = "report" /\ pc'[l] = "done" /\ Report(l)
            BY <1>2, MovesOne DEF Moves
        <3>2. CASE pc[l] = "freeze" /\ pc'[l] = "park" /\ Freeze(l) BY <1>0, <3>2 DEF Freeze, Goes
        <3>3. CASE pc[l] = "report" /\ pc'[l] = "done" /\ Report(l) BY <1>0, <3>3 DEF Report
        <3> QED BY <2>2, <3>1, <3>2, <3>3 DEF Placed, Readied
    <2> QED BY <2>1, <2>2
<1>3. ASSUME NEW l \in Leases, pc'[l] = "freeze" PROVE hand'[l] # None
    <2>1. hand'[l] = hand[l]
        <3>1. ~BuildFresh(l) /\ ~Thaw(l) BY <1>0, <1>3 DEF BuildFresh, Thaw, Goes
        <3> QED BY <1>3, <3>1, HandOf
    <2>2. pc[l] = "freeze" \/ (pc[l] = "run" /\ EndRun(l)) BY <1>3, MovesOne DEF Moves
    <2>3. CASE EndRun(l)
        <3>1. Goes(l, "report") \/ hand[l] # None BY <2>3 DEF EndRun
        <3>2. ~Goes(l, "report") BY <1>0, <1>3 DEF Goes
        <3> QED BY <2>1, <3>1, <3>2
    <2> QED BY <2>1, <2>2, <2>3 DEF Placed, Readied
<1> QED BY <1>1, <1>2, <1>3 DEF Readied

\* Received, a sandbox is no longer in the mailbox.
LEMMA ReceivedBox ==
    ASSUME Safe, Single, NEW kind, Receive(kind)
    PROVE  /\ \A b \in Leases : InMail(b)' <=> InMail(b) /\ b # mail[1].box
           /\ \A i, k \in DOMAIN mail' : mail'[i].box # None /\ mail'[i].box = mail'[k].box => i = k
           /\ mail[1].box \in Leases => InMail(mail[1].box)
<1>1. /\ Len(mail) \in Nat \ {0} /\ DOMAIN mail = 1..Len(mail) /\ DOMAIN mail' = 1..(Len(mail) - 1)
      /\ \A j \in 1..(Len(mail) - 1) : mail'[j] = mail[j + 1]
    BY ReceivedFirst DEF Safe
<1>2. None \notin Leases BY HostAssumption
<1>3. \A j \in DOMAIN mail' : j + 1 \in DOMAIN mail /\ mail'[j] = mail[j + 1] /\ j + 1 # 1 BY <1>1
<1>4. \A j \in DOMAIN mail : j = 1 \/ \E i \in DOMAIN mail' : mail'[i] = mail[j]
    <2> SUFFICES ASSUME NEW j \in DOMAIN mail, j # 1 PROVE j - 1 \in DOMAIN mail' /\ mail'[j - 1] = mail[j]
        OBVIOUS
    <2>1. j - 1 \in 1..(Len(mail) - 1) /\ (j - 1) + 1 = j BY <1>1
    <2> QED BY <1>1, <2>1
<1>5. 1 \in DOMAIN mail BY <1>1
<1>6. ASSUME NEW b \in Leases, InMail(b)' PROVE InMail(b) /\ b # mail[1].box
    <2>1. PICK j \in DOMAIN mail' : mail'[j].box = b BY <1>6 DEF InMail
    <2>2. j + 1 \in DOMAIN mail /\ mail[j + 1].box = b /\ j + 1 # 1 BY <1>3, <2>1
    <2> QED BY <1>2, <1>5, <2>2 DEF Single, InMail
<1>7. ASSUME NEW b \in Leases, InMail(b), b # mail[1].box PROVE InMail(b)' BY <1>4, <1>7 DEF InMail
<1>8. ASSUME NEW i \in DOMAIN mail', NEW k \in DOMAIN mail', mail'[i].box # None, mail'[i].box = mail'[k].box
      PROVE  i = k
    <2>1. i + 1 = k + 1 BY <1>3, <1>8 DEF Single
    <2> QED BY <1>1, <2>1
<1> QED BY <1>5, <1>6, <1>7, <1>8 DEF InMail

\* Sent, a sandbox is in the mailbox and nowhere else in it.
LEMMA SentBox ==
    ASSUME Safe, Single, NEW kind \in Kinds, NEW l \in Leases \cup {None}, NEW c \in Leases \cup {None},
           Send(kind, l, c), c \in Leases => ~InMail(c)
    PROVE  /\ \A b \in Leases : InMail(b)' <=> InMail(b) \/ b = c
           /\ \A i, k \in DOMAIN mail' : mail'[i].box # None /\ mail'[i].box = mail'[k].box => i = k
<1> DEFINE n == Len(mail)
<1>1. /\ n \in Nat /\ DOMAIN mail = 1..n /\ DOMAIN mail' = 1..(n + 1)
      /\ \A j \in 1..n : mail'[j] = mail[j]
      /\ mail'[n + 1] = [kind |-> kind, lease |-> l, box |-> c]
    BY SentLast DEF Safe
<1> HIDE DEF n
<1>2. mail'[n + 1].box = c /\ n + 1 \in DOMAIN mail' BY <1>1
<1>3. \A j \in DOMAIN mail : j \in DOMAIN mail' /\ mail'[j] = mail[j] BY <1>1
<1>4. \A j \in DOMAIN mail' : j = n + 1 \/ (j \in DOMAIN mail /\ mail'[j] = mail[j]) BY <1>1
<1>5. \A j \in DOMAIN mail : c \in Leases => mail[j].box # c BY DEF InMail
<1>6. \A b \in Leases : InMail(b)' <=> InMail(b) \/ b = c BY <1>2, <1>3, <1>4 DEF InMail
<1>7. ASSUME NEW i \in DOMAIN mail', NEW k \in DOMAIN mail', mail'[i].box # None, mail'[i].box = mail'[k].box
      PROVE  i = k
    BY <1>2, <1>4, <1>5, <1>7 DEF Single
<1> QED BY <1>6, <1>7

\* A hold that ends is torn down, unless its sandbox was handed out.
LEMMA KeptBox ==
    ASSUME Safe, Single, NEW left, Thinned(left, held), NEW out, NEW extra, Keep(left, out, extra)
    PROVE  /\ \A b \in Leases : InHeld(b)' => InHeld(b)
           /\ \A b \in Leases : b \in destroying' <=> /\ b \in destroying \/ InHeld(b) \/ b \in extra
                                                      /\ ~InHeld(b)' /\ b \notin out
           /\ \A i, k \in DOMAIN held' : held'[i].box = held'[k].box => i = k
<1>1. held' = left /\ destroying' = (destroying \cup Boxes(held) \cup extra) \ (Boxes(left) \cup out) BY DEF Keep
<1>2. \A b : InHeld(b) <=> b \in Boxes(held) BY DEF InHeld, Boxes
<1>3. \A b : InHeld(b)' <=> b \in Boxes(left) BY <1>1 DEF InHeld, Boxes
<1>4. \A b : b \in Boxes(left) => b \in Boxes(held) BY DEF Thinned, Boxes
<1>5. ASSUME NEW i \in DOMAIN left, NEW k \in DOMAIN left, i # k PROVE left[i].box # left[k].box
    <2>1. PICK g \in DOMAIN held, h \in DOMAIN held : g # h /\ left[i] = held[g] /\ left[k] = held[h]
        BY <1>5 DEF Thinned
    <2> QED BY <2>1 DEF Single
<1> QED BY <1>1, <1>2, <1>3, <1>4, <1>5

\* Handed to one lease, a sandbox is in no other hand.
LEMMA HandedBox ==
    ASSUME Safe, Single, NEW x \in Leases, NEW c \in Leases \cup {None},
           hand' = [hand EXCEPT ![x] = c], \A k \in Leases : c # None /\ hand[k] = c => k = x
    PROVE  /\ \A b \in Leases : InHand(b)' <=> b = c \/ (InHand(b) /\ hand[x] # b)
           /\ \A k, l \in Leases : hand'[k] # None /\ hand'[k] = hand'[l] => k = l
<1>1. hand'[x] = c /\ \A k \in Leases \ {x} : hand'[k] = hand[k] BY DEF Safe, TypeOK
<1>2. None \notin Leases BY HostAssumption
<1>3. \A k, l \in Leases : hand'[k] # None /\ hand'[k] = hand'[l] => k = l BY <1>1 DEF Single
<1>4. ASSUME NEW b \in Leases PROVE InHand(b)' <=> b = c \/ (InHand(b) /\ hand[x] # b)
    BY <1>1, <1>2 DEF Single, InHand
<1> QED BY <1>3, <1>4

\* Each step that takes a sandbox from one place puts it in another, and in no second one.
LEMMA PlacesStep ==
    ASSUME Safe, Placed, [Next]_vars
    PROVE  Single' /\ OnePlace'
<1>0. /\ None \notin Leases /\ DOMAIN ran = Leases /\ DOMAIN hand = Leases /\ DOMAIN pc = Leases
      /\ \A l \in Leases : hand[l] \in Leases \cup {None}
      /\ held \in Seq(Entry) /\ Thinned(held, held)
      /\ {"release", "discard", "park", "supersede", "take", "close", "shutdown"} = Kinds
    BY HostAssumption DEF Safe, TypeOK, Thinned, Kinds
<1>00. Single /\ OnePlace BY DEF Placed
<1>1. ASSUME UNCHANGED <<hand, held, destroying, gone, ran>>,
             UNCHANGED mail \/ \E kind \in Kinds, l \in Leases \cup {None} : Send(kind, l, None)
      PROVE  Single' /\ OnePlace'
    <2>1. /\ \A b \in Leases : InMail(b)' <=> InMail(b)
          /\ \A i, k \in DOMAIN mail' : mail'[i].box # None /\ mail'[i].box = mail'[k].box => i = k
        <3>1. CASE UNCHANGED mail BY <1>00, <3>1 DEF InMail, Single
        <3>2. ASSUME NEW kind \in Kinds, NEW l \in Leases \cup {None}, Send(kind, l, None)
              PROVE  /\ \A b \in Leases : InMail(b)' <=> InMail(b)
                     /\ \A i, k \in DOMAIN mail' : mail'[i].box # None /\ mail'[i].box = mail'[k].box => i = k
            BY <1>0, <1>00, <3>2, SentBox
        <3> QED BY <1>1, <3>1, <3>2
    <2>2. \A b \in Leases : (InHand(b)' <=> InHand(b)) /\ (InHeld(b)' <=> InHeld(b)) BY <1>1 DEF InHand, InHeld
    <2>3. Single' BY <1>00, <1>1, <2>1 DEF Single
    <2>4. OnePlace' BY <1>00, <1>1, <2>1, <2>2 DEF OnePlace
    <2> QED BY <2>3, <2>4
<1>2. ASSUME NEW x \in Leases, Build(x), pc[x] \in {"turn", "thaw"}, UNCHANGED <<held, destroying, gone>>,
             \/ UNCHANGED mail /\ hand[x] = None
             \/ \E kind \in Kinds : Send(kind, x, hand[x])
      PROVE  Single' /\ OnePlace'
    <2>1. ran[x] = None BY <1>2 DEF Placed, Readied
    <2>2. ~InHand(x) /\ ~InMail(x) /\ ~InHeld(x) /\ x \notin destroying /\ x \notin gone
        BY <1>00, <2>1 DEF OnePlace
    <2>3. hand' = [hand EXCEPT ![x] = x] /\ ran'[x] = x /\ \A c \in Leases \ {x} : ran'[c] = ran[c]
        BY <1>0, <1>2 DEF Build
    <2>4. \A k \in Leases : hand[k] # x BY <2>2 DEF InHand
    <2>5. /\ \A b \in Leases : InHand(b)' <=> b = x \/ (InHand(b) /\ hand[x] # b)
          /\ \A k, l \in Leases : hand'[k] # None /\ hand'[k] = hand'[l] => k = l
        BY <1>00, <2>3, <2>4, HandedBox
    <2>6. /\ \A b \in Leases : InMail(b)' <=> InMail(b) \/ b = hand[x]
          /\ \A i, k \in DOMAIN mail' : mail'[i].box # None /\ mail'[i].box = mail'[k].box => i = k
        <3>1. CASE UNCHANGED mail /\ hand[x] = None BY <1>0, <1>00, <3>1 DEF InMail, Single
        <3>2. hand[x] \in Leases => ~InMail(hand[x])
            <4>1. InHand(hand[x]) BY DEF InHand
            <4> QED BY <1>00, <4>1 DEF OnePlace
        <3>3. ASSUME NEW kind \in Kinds, Send(kind, x, hand[x])
              PROVE  /\ \A b \in Leases : InMail(b)' <=> InMail(b) \/ b = hand[x]
                     /\ \A i, k \in DOMAIN mail' : mail'[i].box # None /\ mail'[i].box = mail'[k].box => i = k
            BY <1>0, <1>00, <3>2, <3>3, SentBox
        <3> QED BY <1>2, <3>1, <3>3
    <2>7. \A b \in Leases : InHeld(b)' <=> InHeld(b) BY <1>2 DEF InHeld
    <2>8. Single' BY <1>00, <1>2, <2>5, <2>6 DEF Single
    <2>9. hand[x] \in Leases => InHand(hand[x]) BY DEF InHand
    <2>10. OnePlace'
        <3> SUFFICES ASSUME NEW b \in Leases
                     PROVE  /\ InHand(b)' => /\ ~InMail(b)' /\ ~InHeld(b)'
                                             /\ b \notin destroying' /\ b \notin gone'
                            /\ InMail(b)' => ~InHeld(b)' /\ b \notin destroying' /\ b \notin gone'
                            /\ InHeld(b)' => b \notin destroying' /\ b \notin gone'
                            /\ b \in destroying' => b \notin gone'
                            /\ ran'[b] # None <=> \/ InHand(b)' \/ InMail(b)' \/ InHeld(b)'
                                                  \/ b \in destroying' \/ b \in gone'
            BY DEF OnePlace
        <3> QED BY <1>0, <1>00, <1>2, <2>2, <2>3, <2>5, <2>6, <2>7, <2>9 DEF OnePlace
    <2> QED BY <2>8, <2>10
<1>3. ASSUME NEW l \in Leases, Report(l)
      PROVE  Single' /\ OnePlace'
    <2>1. /\ hand' = [hand EXCEPT ![l] = None] /\ gone' = gone \cup ({hand[l]} \ {None})
          /\ UNCHANGED <<held, destroying, ran>>
          /\ UNCHANGED mail \/ Send("supersede", l, None)
        BY <1>3 DEF Report, Supersede, keeperVars
    <2>2. /\ \A b \in Leases : InMail(b)' <=> InMail(b)
          /\ \A i, k \in DOMAIN mail' : mail'[i].box # None /\ mail'[i].box = mail'[k].box => i = k
        <3>1. CASE UNCHANGED mail BY <1>00, <3>1 DEF InMail, Single
        <3>2. CASE Send("supersede", l, None) BY <1>0, <1>00, <3>2, SentBox
        <3> QED BY <2>1, <3>1, <3>2
    <2>3. /\ \A b \in Leases : InHand(b)' <=> b = None \/ (InHand(b) /\ hand[l] # b)
          /\ \A j, k \in Leases : hand'[j] # None /\ hand'[j] = hand'[k] => j = k
        BY <1>00, <2>1, HandedBox
    <2>4. \A b \in Leases : InHeld(b)' <=> InHeld(b) BY <2>1 DEF InHeld
    <2>5. \A b \in Leases : /\ b # None /\ (b \in gone' <=> b \in gone \/ hand[l] = b)
                            /\ hand[l] = b => InHand(b)
        BY <1>0, <2>1 DEF InHand
    <2>6. Single' BY <1>00, <2>1, <2>2, <2>3 DEF Single
    <2>7. OnePlace' BY <1>00, <2>1, <2>2, <2>3, <2>4, <2>5 DEF OnePlace
    <2> QED BY <2>6, <2>7
<1>4. ASSUME NEW l \in Leases, Send("park", l, hand[l]), hand' = [hand EXCEPT ![l] = None],
             UNCHANGED <<held, destroying, gone, ran>>
      PROVE  Single' /\ OnePlace'
    <2>1. \A b \in Leases : b # None /\ (hand[l] = b => InHand(b) /\ ~InMail(b)) BY <1>0, <1>00 DEF InHand, OnePlace
    <2>2. /\ \A b \in Leases : InMail(b)' <=> InMail(b) \/ b = hand[l]
          /\ \A i, k \in DOMAIN mail' : mail'[i].box # None /\ mail'[i].box = mail'[k].box => i = k
        BY <1>0, <1>00, <1>4, <2>1, SentBox
    <2>3. /\ \A b \in Leases : InHand(b)' <=> b = None \/ (InHand(b) /\ hand[l] # b)
          /\ \A j, k \in Leases : hand'[j] # None /\ hand'[j] = hand'[k] => j = k
        BY <1>00, <1>4, HandedBox
    <2>4. \A b \in Leases : InHeld(b)' <=> InHeld(b) BY <1>4 DEF InHeld
    <2>5. Single' BY <1>00, <1>4, <2>2, <2>3 DEF Single
    <2>6. OnePlace' BY <1>00, <1>4, <2>1, <2>2, <2>3, <2>4 DEF OnePlace
    <2> QED BY <2>5, <2>6
<1>5. ASSUME NEW left, Thinned(left, held), Keep(left, {}, {}), UNCHANGED <<hand, gone, ran>>,
             UNCHANGED mail \/ \E kind \in Kinds : Receive(kind) /\ mail[1].box = None
      PROVE  Single' /\ OnePlace'
    <2>1. /\ \A b \in Leases : InMail(b)' <=> InMail(b)
          /\ \A i, k \in DOMAIN mail' : mail'[i].box # None /\ mail'[i].box = mail'[k].box => i = k
        <3>1. CASE UNCHANGED mail BY <1>00, <3>1 DEF InMail, Single
        <3>2. ASSUME NEW kind \in Kinds, Receive(kind), mail[1].box = None
              PROVE  /\ \A b \in Leases : InMail(b)' <=> InMail(b)
                     /\ \A i, k \in DOMAIN mail' : mail'[i].box # None /\ mail'[i].box = mail'[k].box => i = k
            BY <1>0, <1>00, <3>2, ReceivedBox
        <3> QED BY <1>5, <3>1, <3>2
    <2>2. \A b \in Leases : InHand(b)' <=> InHand(b) BY <1>5 DEF InHand
    <2>3. /\ \A b \in Leases : InHeld(b)' => InHeld(b)
          /\ \A b \in Leases : b \in destroying' <=> (b \in destroying \/ InHeld(b)) /\ ~InHeld(b)'
          /\ \A i, k \in DOMAIN held' : held'[i].box = held'[k].box => i = k
        BY <1>00, <1>5, KeptBox
    <2>4. Single' BY <1>00, <1>5, <2>1, <2>3 DEF Single
    <2>5. OnePlace' BY <1>00, <1>5, <2>1, <2>2, <2>3 DEF OnePlace
    <2> QED BY <2>4, <2>5
<1>6. ASSUME Discard
      PROVE  Single' /\ OnePlace'
    <2>1. /\ Receive("discard") /\ Keep(held, {}, {Head(mail).box}) /\ UNCHANGED <<hand, gone, ran>>
          /\ Head(mail) = mail[1]
        BY <1>6, HeadSays DEF Discard, leaseVars
    <2>2. /\ \A b \in Leases : InMail(b)' <=> InMail(b) /\ b # mail[1].box
          /\ \A i, k \in DOMAIN mail' : mail'[i].box # None /\ mail'[i].box = mail'[k].box => i = k
          /\ mail[1].box \in Leases => InMail(mail[1].box)
        BY <1>00, <2>1, ReceivedBox
    <2>3. /\ \A b \in Leases : b \in destroying' <=> /\ b \in destroying \/ InHeld(b) \/ b \in {mail[1].box}
                                                     /\ ~InHeld(b)' /\ b \notin {}
          /\ \A i, k \in DOMAIN held' : held'[i].box = held'[k].box => i = k
        BY <1>0, <1>00, <2>1, KeptBox
    <2>4. \A b \in Leases : (InHand(b)' <=> InHand(b)) /\ (InHeld(b)' <=> InHeld(b))
        BY <2>1 DEF InHand, InHeld, Keep
    <2>5. Single' BY <1>00, <2>1, <2>2, <2>3 DEF Single
    <2>6. OnePlace' BY <1>00, <2>1, <2>2, <2>3, <2>4 DEF OnePlace
    <2> QED BY <2>5, <2>6
<1>7. ASSUME Finish
      PROVE  Single' /\ OnePlace'
    <2>1. UNCHANGED <<mail, hand, held, ran>> /\ destroying' = {} /\ gone' = gone \cup destroying
        BY <1>7 DEF Finish, leaseVars
    <2>2. \A b \in Leases : /\ InHand(b)' <=> InHand(b)
                            /\ InMail(b)' <=> InMail(b)
                            /\ InHeld(b)' <=> InHeld(b)
        BY <2>1 DEF InHand, InMail, InHeld
    <2>3. Single' BY <1>00, <2>1 DEF Single
    <2>4. OnePlace' BY <1>00, <2>1, <2>2 DEF OnePlace
    <2> QED BY <2>3, <2>4
<1>8. ASSUME NEW l \in Leases, hand[l] # None, ran' = [ran EXCEPT ![hand[l]] = l],
             UNCHANGED <<hand, mail, held, destroying, gone>>
      PROVE  Single' /\ OnePlace'
    <2>1. \A b \in Leases : /\ InHand(b)' <=> InHand(b)
                            /\ InMail(b)' <=> InMail(b)
                            /\ InHeld(b)' <=> InHeld(b)
        BY <1>8 DEF InHand, InMail, InHeld
    <2>2. \A b \in Leases : /\ b # hand[l] => ran'[b] = ran[b]
                            /\ b = hand[l] => ran'[b] # None /\ InHand(b)
        BY <1>0, <1>8 DEF InHand
    <2>3. Single' BY <1>00, <1>8 DEF Single
    <2>4. OnePlace' BY <1>00, <1>8, <2>1, <2>2 DEF OnePlace
    <2> QED BY <2>3, <2>4
<1>9. ASSUME NEW l \in Leases, NEW i \in DOMAIN held, hand[l] = None, hand' = [hand EXCEPT ![l] = held[i].box],
             Keep(Without(held, i), {held[i].box}, {}), UNCHANGED <<gone, ran>>, Receive("take")
      PROVE  Single' /\ OnePlace'
    <2>0. PICK c \in Leases : c = held[i].box
        <3>1. held[i] \in Entry BY <1>0
        <3> QED BY <3>1 DEF Entry
    <2>1. c \in Leases /\ InHeld(c) BY <2>0 DEF InHeld
    <2>2. /\ Thinned(Without(held, i), held)
          /\ \A j \in DOMAIN Without(held, i) : \E k \in DOMAIN held : k # i /\ Without(held, i)[j] = held[k]
        BY <1>0, WithoutThins
    <2>3. held' = Without(held, i) BY <1>9 DEF Keep
    <2>4. ~InHeld(c)' BY <1>00, <2>0, <2>2, <2>3 DEF InHeld, Single
    <2>5. ~InHand(c) BY <1>00, <2>1 DEF OnePlace
    <2>6. mail[1].box = None
        <3>1. mail[1].kind = "take" /\ 1 \in DOMAIN mail BY <1>9, HeadSays
        <3> QED BY <3>1 DEF Safe, Mailed
    <2>7. /\ \A b \in Leases : InMail(b)' <=> InMail(b) /\ b # mail[1].box
          /\ \A g, k \in DOMAIN mail' : mail'[g].box # None /\ mail'[g].box = mail'[k].box => g = k
        BY <1>00, <1>9, ReceivedBox
    <2>8. /\ \A b \in Leases : InHeld(b)' => InHeld(b)
          /\ \A b \in Leases : b \in destroying' <=> /\ b \in destroying \/ InHeld(b) \/ b \in {}
                                                     /\ ~InHeld(b)' /\ b \notin {c}
          /\ \A g, k \in DOMAIN held' : held'[g].box = held'[k].box => g = k
        BY <1>00, <1>9, <2>0, <2>2, KeptBox
    <2>9. /\ \A b \in Leases : InHand(b)' <=> b = c \/ (InHand(b) /\ hand[l] # b)
          /\ \A j, k \in Leases : hand'[j] # None /\ hand'[j] = hand'[k] => j = k
        <3>1. \A k \in Leases : hand[k] = c => k = l BY <2>5 DEF InHand
        <3>2. hand' = [hand EXCEPT ![l] = c] BY <1>9, <2>0
        <3> QED BY <1>00, <3>1, <3>2, HandedBox
    <2>10. Single' BY <1>00, <2>7, <2>8, <2>9 DEF Single
    <2>11. OnePlace' BY <1>0, <1>00, <1>9, <2>1, <2>4, <2>5, <2>6, <2>7, <2>8, <2>9 DEF OnePlace
    <2> QED BY <2>10, <2>11
<1>10. ASSUME Park
       PROVE  Single' /\ OnePlace'
    <2>0. PICK l \in Leases, c \in Leases : l = mail[1].lease /\ c = mail[1].box
        BY <1>10, ParkKeeps
    <2>1. /\ l \in Leases /\ c \in Leases /\ UNCHANGED <<gone, ran>>
          /\ \/ Keep(held, {}, {}) /\ hand' = [hand EXCEPT ![l] = c]
             \/ /\ UNCHANGED hand
                /\ \E rest \in Seq(Entry) : /\ Thinned(rest, held)
                                            /\ Keep(Append(rest, [lease |-> l, box |-> c]), {}, {})
        BY <1>10, <2>0, ParkKeeps
    <2>2. Receive("park") BY <1>10 DEF Park
    <2>3. pc[l] = "park" BY <2>0, <2>2, HeadSays
    <2>4. hand[l] = None BY <2>1, <2>3 DEF Placed, Readied
    <2>5. /\ \A b \in Leases : InMail(b)' <=> InMail(b) /\ b # c
          /\ \A i, k \in DOMAIN mail' : mail'[i].box # None /\ mail'[i].box = mail'[k].box => i = k
          /\ InMail(c)
        BY <1>00, <2>0, <2>2, ReceivedBox
    <2>6. ~InHand(c) /\ ~InHeld(c) /\ c \notin destroying /\ c \notin gone BY <1>00, <2>1, <2>5 DEF OnePlace
    <2>7. ASSUME Keep(held, {}, {}), hand' = [hand EXCEPT ![l] = c]
          PROVE  Single' /\ OnePlace'
        <3>1. /\ \A b \in Leases : b \in destroying' <=> /\ b \in destroying \/ InHeld(b) \/ b \in {}
                                                         /\ ~InHeld(b)' /\ b \notin {}
              /\ \A i, k \in DOMAIN held' : held'[i].box = held'[k].box => i = k
            BY <1>0, <1>00, <2>7, KeptBox
        <3>2. \A b \in Leases : InHeld(b)' <=> InHeld(b) BY <2>7 DEF Keep, InHeld
        <3>3. /\ \A b \in Leases : InHand(b)' <=> b = c \/ (InHand(b) /\ hand[l] # b)
              /\ \A j, k \in Leases : hand'[j] # None /\ hand'[j] = hand'[k] => j = k
            <4>1. \A k \in Leases : hand[k] = c => k = l BY <2>6 DEF InHand
            <4> QED BY <1>00, <2>1, <2>7, <4>1, HandedBox
        <3>4. Single' BY <1>00, <2>5, <3>1, <3>3 DEF Single
        <3>5. OnePlace' BY <1>0, <1>00, <2>1, <2>4, <2>5, <2>6, <3>1, <3>2, <3>3 DEF OnePlace
        <3> QED BY <3>4, <3>5
    <2>8. ASSUME UNCHANGED hand, NEW rest \in Seq(Entry), Thinned(rest, held),
                 Keep(Append(rest, [lease |-> l, box |-> c]), {}, {})
          PROVE  Single' /\ OnePlace'
        <3> DEFINE e == [lease |-> l, box |-> c]
                   left == Append(rest, e)
        <3>1. e \in Entry /\ e.box = c BY <2>1 DEF Entry
        <3>2. /\ Len(rest) + 1 \in DOMAIN left /\ left[Len(rest) + 1] = e
              /\ \A i \in DOMAIN rest : i \in DOMAIN left /\ left[i] = rest[i]
              /\ \A i \in DOMAIN left : i \in DOMAIN rest \/ i = Len(rest) + 1
            <4> HIDE DEF e
            <4> QED BY <3>1, Appended
        <3>3. /\ held' = left
              /\ destroying' = (destroying \cup Boxes(held)) \ Boxes(left)
            BY <2>8 DEF Keep
        <3> HIDE DEF e, left
        <3>4. \A i \in DOMAIN rest : \E k \in DOMAIN held : rest[i] = held[k] BY <2>8 DEF Thinned
        <3>5. \A i \in DOMAIN rest : rest[i].box # c BY <2>6, <3>4 DEF InHeld
        <3>6. ASSUME NEW i \in DOMAIN rest, NEW k \in DOMAIN rest, i # k PROVE rest[i].box # rest[k].box
            <4>1. PICK g \in DOMAIN held, h \in DOMAIN held : g # h /\ rest[i] = held[g] /\ rest[k] = held[h]
                BY <2>8, <3>6 DEF Thinned
            <4> QED BY <1>00, <4>1 DEF Single
        <3>7. \A i, k \in DOMAIN held' : held'[i].box = held'[k].box => i = k
            BY <3>1, <3>2, <3>3, <3>5, <3>6
        <3>8. \A b : InHeld(b) <=> b \in Boxes(held) BY DEF InHeld, Boxes
        <3>9. \A b : InHeld(b)' <=> b \in Boxes(left) BY <3>3 DEF InHeld, Boxes
        <3>10. InHeld(c)' BY <3>1, <3>2, <3>3 DEF InHeld
        <3>11. \A b \in Leases : InHeld(b)' => InHeld(b) \/ b = c
            BY <3>1, <3>2, <3>3, <3>4 DEF InHeld
        <3>12. \A b \in Leases : b \in destroying' <=> (b \in destroying \/ InHeld(b)) /\ ~InHeld(b)'
            BY <3>3, <3>8, <3>9
        <3>13. \A b \in Leases : InHand(b)' <=> InHand(b) BY <2>8 DEF InHand
        <3>14. Single' BY <1>00, <2>5, <2>8, <3>7 DEF Single
        <3>15. OnePlace' BY <1>0, <1>00, <2>1, <2>5, <2>6, <3>10, <3>11, <3>12, <3>13 DEF OnePlace
        <3> QED BY <3>14, <3>15
    <2> QED BY <2>1, <2>7, <2>8
<1>11. CASE UNCHANGED vars
    <2>1. UNCHANGED <<hand, held, destroying, gone, ran, mail>> BY <1>11 DEF vars, leaseVars, keeperVars
    <2> QED BY <1>1, <2>1
<1>12. ASSUME NEW f \in Fleets, IssueElsewhere(f) PROVE Single' /\ OnePlace'
    <2>1. UNCHANGED <<hand, held, destroying, gone, ran, mail>> BY <1>12 DEF IssueElsewhere, leaseVars, keeperVars
    <2> QED BY <1>1, <2>1
<1>13. ASSUME NEW l \in Leases, Issue(l) \/ GiveUp(l) \/ RunBare(l) \/ EndRun(l) PROVE Single' /\ OnePlace'
    <2>1. UNCHANGED <<hand, held, destroying, gone, ran, mail>>
        BY <1>13 DEF Issue, GiveUp, RunBare, EndRun, keeperVars
    <2> QED BY <1>1, <2>1
<1>14. ASSUME NEW l \in Leases, Refuse(l) \/ AskHeld(l) PROVE Single' /\ OnePlace'
    <2>1. UNCHANGED <<hand, held, destroying, gone, ran>> /\ \E kind \in Kinds : Send(kind, l, None)
        BY <1>0, <1>14 DEF Refuse, AskHeld, keeperVars
    <2> QED BY <1>1, <2>1
<1>15. ASSUME NEW l \in Leases, Drain(l) PROVE Single' /\ OnePlace'
    <2>1. /\ UNCHANGED <<hand, held, destroying, gone, ran>>
          /\ UNCHANGED mail \/ \E kind \in Kinds : Send(kind, l, None)
        BY <1>0, <1>15 DEF Drain, keeperVars
    <2> QED BY <1>1, <2>1
<1>16. CASE Halt \/ Close \/ Shutdown
    <2>1. /\ UNCHANGED <<hand, held, destroying, gone, ran>>
          /\ UNCHANGED mail \/ \E kind \in Kinds : Send(kind, None, None)
        BY <1>0, <1>16 DEF Halt, Close, Shutdown, leaseVars, keeperVars
    <2> QED BY <1>1, <2>1
<1>17. ASSUME NEW l \in Leases, BuildFresh(l) PROVE Single' /\ OnePlace'
    <2>1. /\ Send("release", l, None) /\ Build(l) /\ pc[l] = "turn" /\ UNCHANGED <<held, destroying, gone>>
        BY <1>17 DEF BuildFresh, HasTurn, keeperVars
    <2>2. hand[l] = None BY <2>1 DEF Placed, Readied
    <2>3. \E kind \in Kinds : Send(kind, l, hand[l]) BY <1>0, <2>1, <2>2
    <2> QED BY <1>2, <2>1, <2>3
<1>18. ASSUME NEW l \in Leases, Thaw(l) PROVE Single' /\ OnePlace'
    <2>1. pc[l] = "thaw" /\ UNCHANGED <<held, destroying, gone>> BY <1>18 DEF Thaw, keeperVars
    <2>2. \/ hand[l] # None /\ ran' = [ran EXCEPT ![hand[l]] = l] /\ UNCHANGED <<hand, mail>>
          \/ /\ IF hand[l] = None THEN UNCHANGED mail ELSE Send("discard", l, hand[l])
             /\ Build(l)
        BY <1>18 DEF Thaw
    <2>3. CASE hand[l] # None /\ ran' = [ran EXCEPT ![hand[l]] = l] /\ UNCHANGED <<hand, mail>>
        BY <1>8, <2>1, <2>3
    <2>4. CASE /\ IF hand[l] = None THEN UNCHANGED mail ELSE Send("discard", l, hand[l])
               /\ Build(l)
        <3>1. (UNCHANGED mail /\ hand[l] = None) \/ \E kind \in Kinds : Send(kind, l, hand[l]) BY <1>0, <2>4
        <3> QED BY <1>2, <2>1, <2>4, <3>1
    <2> QED BY <2>2, <2>3, <2>4
<1>19. ASSUME NEW l \in Leases, Freeze(l) PROVE Single' /\ OnePlace'
    <2>1. UNCHANGED <<held, destroying, gone, ran>> BY <1>19 DEF Freeze, keeperVars
    <2>2. \/ Send("park", l, hand[l]) /\ hand' = [hand EXCEPT ![l] = None]
          \/ UNCHANGED <<hand, mail>>
        BY <1>19 DEF Freeze
    <2> QED BY <1>1, <1>4, <2>1, <2>2
<1>20. CASE Take
    <2>1. Receive("take") /\ UNCHANGED <<gone, ran>> /\ Head(mail) = mail[1] BY <1>20, HeadSays DEF Take
    <2>2. PICK l \in Leases : l = mail[1].lease /\ pc[l] = "take" BY <2>1, HeadSays
    <2>3. mail[1].box = None
        <3>1. mail[1].kind = "take" /\ 1 \in DOMAIN mail BY <2>1, HeadSays
        <3> QED BY <3>1 DEF Safe, Mailed
    <2>4. \/ \E i \in Position(of[l]) : hand' = [hand EXCEPT ![l] = held[i].box]
                                        /\ Keep(Without(held, i), {held[i].box}, {})
          \/ Keep(Less(Position(of[l])), {}, {}) /\ UNCHANGED hand
        BY <1>20, <2>1, <2>2 DEF Take
    <2>5. Position(of[l]) \subseteq DOMAIN held BY DEF Position
    <2>6. hand[l] = None BY <2>2 DEF Placed, Readied
    <2>7. ASSUME NEW i \in Position(of[l]), hand' = [hand EXCEPT ![l] = held[i].box],
                 Keep(Without(held, i), {held[i].box}, {})
          PROVE  Single' /\ OnePlace'
        <3>1. i \in DOMAIN held BY <2>5
        <3> QED BY <1>9, <2>1, <2>6, <2>7, <3>1
    <2>8. CASE Keep(Less(Position(of[l])), {}, {}) /\ UNCHANGED hand
        <3>1. Thinned(Less(Position(of[l])), held) BY LessFleet DEF Safe
        <3> QED BY <1>0, <1>5, <2>1, <2>3, <2>8, <3>1
    <2> QED BY <2>4, <2>7, <2>8
<1>21. ASSUME NEW left, Thinned(left, held), End(left),
              UNCHANGED mail \/ \E kind \in {"release", "supersede", "close", "shutdown"} : Receive(kind)
       PROVE  Single' /\ OnePlace'
    <2>1. Keep(left, {}, {}) /\ UNCHANGED <<hand, gone, ran>> BY <1>21 DEF End, leaseVars
    <2>2. ASSUME NEW kind \in {"release", "supersede", "close", "shutdown"}, Receive(kind)
          PROVE  kind \in Kinds /\ mail[1].box = None
        <3>1. mail[1].kind = kind /\ 1 \in DOMAIN mail BY <2>2, HeadSays
        <3> QED BY <1>0, <3>1 DEF Safe, Mailed
    <2>3. UNCHANGED mail \/ \E kind \in Kinds : Receive(kind) /\ mail[1].box = None BY <1>21, <2>2
    <2> QED BY <1>5, <1>21, <2>1, <2>3
<1>22. CASE Release
    <2>1. \E left : /\ Thinned(left, held) /\ End(left)
                    /\ \E kind \in {"release", "supersede", "close", "shutdown"} : Receive(kind)
        <3>1. Thinned(<<>>, held) BY <1>0 DEF Thinned
        <3>2. \A f : Thinned(Less(Position(f)), held) BY LessFleet DEF Safe
        <3>3. \A at \in SUBSET DOMAIN held : Thinned(Less(at), held) BY LessThins DEF Safe
        <3> QED BY <1>22, <3>1, <3>2, <3>3 DEF Release
    <2> QED BY <1>21, <2>1
<1>23. ASSUME NEW l \in Leases, LetGo(l) PROVE Single' /\ OnePlace'
    <2>1. PICK i \in DOMAIN held : End(Without(held, i)) BY <1>23 DEF LetGo
    <2>2. Thinned(Without(held, i), held) BY <1>0, WithoutThins
    <2>3. UNCHANGED mail BY <1>23 DEF LetGo
    <2> QED BY <1>21, <2>1, <2>2, <2>3
<1>24. CASE Resize
    <2>1. PICK n \in 1..(workers - 1) : Keep(Newest(held, n), {}, {}) BY <1>24 DEF Resize
    <2>2. n \in Nat /\ Thinned(Newest(held, n), held)
        <3>1. n \in Nat BY HostAssumption DEF Safe, TypeOK
        <3> QED BY <1>0, <3>1, NewestThins
    <2>3. UNCHANGED <<hand, gone, ran, mail>> BY <1>24 DEF Resize, leaseVars
    <2> QED BY <1>5, <2>1, <2>2, <2>3
<1> QED BY <1>3, <1>6, <1>7, <1>10, <1>11, <1>12, <1>13, <1>14, <1>15, <1>16, <1>17, <1>18, <1>19,
           <1>20, <1>22, <1>23, <1>24
        DEF Next, RunLease, Serve, Stop

\* Few steps change what was cancelled, whether the keeper listens, or what is being torn down.
LEMMA KeeperChanges ==
    ASSUME Safe, [Next]_vars
    PROVE  /\ UNCHANGED halted \/ Halt \/ \E l \in Leases : Report(l)
           /\ \/ UNCHANGED keeper \/ Finish
              \/ Receive("close") /\ keeper' = "closed" /\ held' = <<>>
              \/ Receive("shutdown") /\ keeper' = "finishing" /\ held' = <<>>
           /\ \/ UNCHANGED destroying \/ Finish \/ Resize
              \/ \E kind \in Kinds : Receive(kind)
              \/ \E l \in Leases : LetGo(l)
<1>0. \A kind \in {"take", "park", "release", "supersede", "close", "shutdown", "discard"} : kind \in Kinds
    BY DEF Kinds
<1>1. CASE UNCHANGED vars BY <1>1 DEF vars, keeperVars
<1>2. ASSUME NEW l \in Leases,
             \/ Issue(l) \/ GiveUp(l) \/ BuildFresh(l) \/ Refuse(l) \/ RunBare(l)
             \/ AskHeld(l) \/ Thaw(l) \/ EndRun(l) \/ Freeze(l) \/ Drain(l)
      PROVE  UNCHANGED <<halted, keeper, destroying>>
    BY <1>2 DEF Issue, GiveUp, BuildFresh, Refuse, RunBare, AskHeld, Thaw, EndRun, Freeze, Drain, keeperVars
<1>3. ASSUME NEW l \in Leases, Report(l) PROVE UNCHANGED <<keeper, destroying>> BY <1>3 DEF Report, keeperVars
<1>4. ASSUME NEW l \in Leases, LetGo(l) PROVE UNCHANGED <<halted, keeper>> BY <1>4 DEF LetGo, End
<1>5. ASSUME NEW f \in Fleets, IssueElsewhere(f) PROVE UNCHANGED <<halted, keeper, destroying>>
    BY <1>5 DEF IssueElsewhere, keeperVars
<1>6. CASE Halt BY <1>6 DEF Halt, keeperVars
<1>7. CASE Close \/ Shutdown BY <1>7 DEF Close, Shutdown, keeperVars
<1>8. CASE Finish BY <1>8 DEF Finish
<1>9. CASE Take BY <1>0, <1>9 DEF Take
<1>10. CASE Park BY <1>0, <1>10 DEF Park
<1>11. CASE Discard BY <1>0, <1>11 DEF Discard
<1>12. CASE Resize BY <1>12 DEF Resize
<1>13. CASE Release BY <1>0, <1>13 DEF Release, End, Keep
<1> QED BY <1>1, <1>2, <1>3, <1>4, <1>5, <1>6, <1>7, <1>8, <1>9, <1>10, <1>11, <1>12, <1>13
        DEF Next, RunLease, Serve, Stop

\* Nothing takes back a cancellation or an ended lease, and no report is recorded or spooled
\* after one that was neither.
LEMMA EndedStays ==
    ASSUME Safe, [Next]_vars
    PROVE  /\ halted # "no" => halted' # "no"
           /\ halted = "serving" => halted' = "serving"
           /\ \A k \in Leases : pc[k] # "none" => pc'[k] # "none"
           /\ \A k \in Leases : pc[k] = "done" /\ k \notin recorded \cup spooled
                                => pc'[k] = "done" /\ k \notin recorded' \cup spooled'
<1>1. (halted # "no" => halted' # "no") /\ (halted = "serving" => halted' = "serving")
    <2>1. ASSUME NEW l \in Leases, Report(l)
          PROVE  UNCHANGED halted \/ halted' = IF halted = "no" THEN "leasing" ELSE halted
        BY <2>1 DEF Report
    <2> QED BY <2>1, KeeperChanges DEF Halt
<1>2. \A k \in Leases : /\ pc[k] # "none" => pc'[k] # "none"
                        /\ pc[k] = "done" => pc'[k] = "done"
    BY MovesOne DEF Moves
<1>3. ASSUME NEW k \in Leases, pc[k] = "done", k \notin recorded \cup spooled
      PROVE  k \notin recorded' \cup spooled'
    <2>1. ASSUME NEW l \in Leases, Report(l) PROVE k # l BY <1>3, <2>1 DEF Report
    <2>2. ASSUME NEW l \in Leases, Drain(l) PROVE k # l BY <1>3, <2>2 DEF Drain
    <2>3. ASSUME NEW l \in Leases, Report(l) \/ Drain(l)
          PROVE  /\ UNCHANGED recorded \/ recorded' = recorded \cup {l}
                 /\ UNCHANGED spooled \/ spooled' = spooled \cup {l} \/ spooled' = spooled \ {l}
        BY <2>3 DEF Report, Drain, Recorded, Refused, daemonVars
    <2> QED BY <1>3, <2>1, <2>2, <2>3, Changes
<1> QED BY <1>1, <1>2, <1>3

\* The daemon refused the report for good, so its late supersede finds no recorded hold.
LEMMA RefusalsStep ==
    ASSUME Safe, Refusals, [Next]_vars
    PROVE  Refusals'
<1> DEFINE Fits(m) == /\ m.lease # None => pc[m.lease] # "none"
                      /\ m.kind = "supersede" =>
                            halted # "no" \/ (m.lease \notin recorded \cup spooled /\ pc[m.lease] = "done")
           Fits1(m) == /\ m.lease # None => pc'[m.lease] # "none"
                       /\ m.kind = "supersede" =>
                             halted' # "no" \/ (m.lease \notin recorded' \cup spooled' /\ pc'[m.lease] = "done")
<1>0. /\ Len(mail) \in Nat /\ DOMAIN mail = 1..Len(mail)
      /\ \A i \in DOMAIN mail : Fits(mail[i]) /\ mail[i].lease \in Leases \cup {None}
      /\ \A i \in DOMAIN mail : mail[i].kind = "supersede" => mail[i].lease \in Leases
    <2>1. \A i \in DOMAIN mail : mail[i].kind = "supersede" => mail[i].lease \in Leases
        BY OfTyped DEF Safe, Mailed
    <2> QED BY <2>1, MailTyped DEF Safe, Refusals
<1>1. \A i \in DOMAIN mail : Fits1(mail[i]) BY <1>0, EndedStays
<1> SUFFICES \A i \in DOMAIN mail' : Fits1(mail'[i]) BY DEF Refusals
<1> HIDE DEF Fits, Fits1
<1>2. CASE UNCHANGED mail BY <1>1, <1>2
<1>3. ASSUME NEW kind \in Kinds, Receive(kind) PROVE \A i \in DOMAIN mail' : Fits1(mail'[i])
    <2>1. /\ Len(mail) \in Nat \ {0} /\ DOMAIN mail = 1..Len(mail)
          /\ DOMAIN mail' = 1..(Len(mail) - 1)
          /\ \A i \in 1..(Len(mail) - 1) : mail'[i] = mail[i + 1]
        BY <1>3, ReceivedFirst DEF Safe
    <2>2. \A i \in DOMAIN mail' : i + 1 \in DOMAIN mail /\ mail'[i] = mail[i + 1] BY <2>1
    <2> QED BY <1>1, <2>2
<1>4. ASSUME NEW kind \in Kinds, NEW l \in Leases \cup {None}, NEW b \in Leases \cup {None},
             Send(kind, l, b), Sends(kind, l, b)
      PROVE  \A i \in DOMAIN mail' : Fits1(mail'[i])
    <2> DEFINE m == [kind |-> kind, lease |-> l, box |-> b]
    <2>0. /\ Len(mail) \in Nat /\ DOMAIN mail = 1..Len(mail) /\ DOMAIN mail' = 1..(Len(mail) + 1)
          /\ \A i \in 1..Len(mail) : mail'[i] = mail[i]
          /\ mail'[Len(mail) + 1] = m
        BY <1>4, SentLast DEF Safe
    <2>1. \A i \in DOMAIN mail' : mail'[i] = m \/ (i \in DOMAIN mail /\ mail'[i] = mail[i])
        BY <2>0
    <2>2. ~UNCHANGED mail
        <3>1. Len(mail) + 1 \in DOMAIN mail' /\ Len(mail) + 1 \notin DOMAIN mail BY <2>0
        <3> QED BY <3>1
    <2>3. ASSUME l # None PROVE pc[l] # "none"
        <3>1. CASE kind = "supersede"
            <4>1. l \in Leases /\ (Report(l) \/ Drain(l)) BY <1>4, <3>1, <2>3 DEF Sends
            <4> QED BY <4>1 DEF Report, Drain, Safe, Holding
        <3>2. CASE kind # "supersede" BY <1>4, <2>3, <3>2 DEF Sends, HasTurn, Freeze, Thaw
        <3> QED BY <3>1, <3>2
    <2>4. ASSUME kind = "supersede"
          PROVE  halted' # "no" \/ (l \notin recorded' \cup spooled' /\ pc'[l] = "done")
        <3>1. l \in Leases /\ (Report(l) \/ Drain(l)) BY <1>4, <2>4 DEF Sends
        <3>2. CASE Drain(l)
            <4>1. Refused(l) /\ spooled' = spooled \ {l} /\ UNCHANGED pc /\ l \in spooled
                BY <2>2, <3>2 DEF Drain
            <4> QED BY <4>1 DEF Refused, daemonVars, Safe, Holding
        <3>3. CASE Report(l)
            <4>1. pc[l] = "report" /\ pc'[l] = "done" BY <3>1, <3>3 DEF Report, Goes, Safe, TypeOK
            <4>2. l \notin spooled BY <4>1 DEF Safe, Holding
            <4>3. \/ Refused(l) /\ UNCHANGED <<spooled, halted>>
                  \/ halted' = IF halted = "no" THEN "leasing" ELSE halted
                BY <2>2, <3>3 DEF Report
            <4> QED BY <4>1, <4>2, <4>3 DEF Refused, daemonVars
        <3> QED BY <3>1, <3>2, <3>3
    <2>5. l # None => pc'[l] # "none" BY <2>3, EndedStays
    <2>6. Fits1(m) BY <2>4, <2>5 DEF Fits1
    <2> HIDE DEF m
    <2> QED BY <1>1, <2>1, <2>6
<1> QED BY <1>2, <1>3, <1>4, SendsOne DEF Safe

\* A keeper told to close takes nothing in, and nobody is left to ask once it is told to finish.
LEMMA ClosingStep ==
    ASSUME Safe, Safe', Placed, Closing, [Next]_vars
    PROVE  Closing'
<1>0. /\ Len(mail) \in Nat /\ DOMAIN mail = 1..Len(mail) /\ held' \in Seq(Entry) /\ held \in Seq(Entry)
      /\ keeper \in {"open", "closed", "finishing", "gone"} /\ None \notin Leases
    BY HostAssumption DEF Safe, TypeOK
<1>1. keeper' # "open" => held' = <<>>
    <2>1. CASE keeper = "open"
        <3>1. ASSUME Finish PROVE FALSE BY <2>1, <3>1 DEF Finish
        <3> QED BY <2>1, <3>1, KeeperChanges
    <2>2. CASE keeper # "open"
        <3>1. \A i \in DOMAIN held' : \E k \in DOMAIN held : held'[i] = held[k] BY <2>2, HeldFrom
        <3>2. held = <<>> BY <2>2 DEF Closing
        <3>3. DOMAIN held = {} BY <3>2
        <3>4. DOMAIN held' = {} BY <3>1, <3>3
        <3>5. Len(held') = 0 BY <1>0, <3>4
        <3> QED BY <1>0, <3>5
    <2> QED BY <2>1, <2>2
<1>2. ASSUME NEW kind \in Kinds, Receive(kind)
      PROVE  /\ keeper # "gone" /\ mail[1].kind = kind /\ 1 \in DOMAIN mail
             /\ \A i \in DOMAIN mail' : i + 1 \in DOMAIN mail /\ mail'[i] = mail[i + 1]
    <2>1. /\ Len(mail) \in Nat \ {0} /\ DOMAIN mail = 1..Len(mail) /\ DOMAIN mail' = 1..(Len(mail) - 1)
          /\ \A i \in 1..(Len(mail) - 1) : mail'[i] = mail[i + 1]
          /\ mail[1].kind = kind
        BY <1>2, ReceivedFirst DEF Safe
    <2>2. \A i \in DOMAIN mail' : i + 1 \in DOMAIN mail /\ mail'[i] = mail[i + 1] BY <2>1
    <2>3. 1 \in DOMAIN mail BY <2>1
    <2> QED BY <1>2, <2>1, <2>2, <2>3 DEF Receive
<1>3. ASSUME NEW kind \in Kinds, NEW l \in Leases \cup {None}, NEW b \in Leases \cup {None},
             Send(kind, l, b), Sends(kind, l, b)
      PROVE  /\ \A i \in DOMAIN mail : i \in DOMAIN mail' /\ mail'[i] = mail[i]
             /\ \A i \in DOMAIN mail' : i \in DOMAIN mail \/ i = Len(mail) + 1
             /\ mail'[Len(mail) + 1].kind = kind /\ mail'[Len(mail) + 1].box = b
             /\ b # None => \E k \in Leases : pc[k] \in {"freeze", "thaw"}
             /\ kind = "shutdown" => Shutdown
    <2>1. /\ \A i \in DOMAIN mail : i \in DOMAIN mail' /\ mail'[i] = mail[i]
          /\ \A i \in DOMAIN mail' : i \in DOMAIN mail \/ i = Len(mail) + 1
          /\ mail'[Len(mail) + 1] = [kind |-> kind, lease |-> l, box |-> b]
        BY <1>0, <1>3, SentLast DEF Safe
    <2>2. b # None => \E k \in Leases : pc[k] \in {"freeze", "thaw"} BY <1>3 DEF Sends, Freeze, Thaw
    <2>3. kind = "shutdown" => Shutdown BY <1>3 DEF Sends
    <2> QED BY <2>1, <2>2, <2>3
<1> DEFINE Over == keeper \in {"finishing", "gone"} \/ Told("shutdown")
<1>4. Over => halted = "serving" /\ \A l \in Leases : pc[l] \in {"none", "done"} BY DEF Closing, Active
<1>5. Over => halted' = "serving" /\ \A l \in Leases : pc'[l] \in {"none", "done"}
    <2>1. ASSUME Over, NEW l \in Leases, Moves(l) PROVE FALSE
        <3>1. Issue(l) BY <1>4, <2>1 DEF Moves
        <3> QED BY <1>4, <2>1, <3>1 DEF Issue
    <2>2. Over => UNCHANGED pc BY <2>1, MovesOne
    <2> QED BY <1>4, <2>2, EndedStays
<1>6. Over => \A l \in Leases : pc[l] \notin {"freeze", "thaw"} BY <1>4
<1>7. keeper' \in {"finishing", "gone"} => Over
    <2>1. ASSUME Receive("shutdown") PROVE Over
        <3>1. "shutdown" \in Kinds BY DEF Kinds
        <3> QED BY <1>2, <2>1, <3>1 DEF Told
    <2>2. ASSUME Finish PROVE Over BY <2>2 DEF Finish
    <2> QED BY <2>1, <2>2, KeeperChanges
<1>8. Told("shutdown")' => Over \/ Shutdown
    <2>1. CASE UNCHANGED mail BY <2>1 DEF Told
    <2>2. ASSUME NEW kind \in Kinds, Receive(kind), Told("shutdown")' PROVE Told("shutdown")
        BY <1>2, <2>2 DEF Told
    <2>3. ASSUME NEW kind \in Kinds, NEW l \in Leases \cup {None}, NEW b \in Leases \cup {None},
                 Send(kind, l, b), Sends(kind, l, b), Told("shutdown")'
          PROVE  Told("shutdown") \/ Shutdown
        BY <1>3, <2>3 DEF Told
    <2> QED BY <2>1, <2>2, <2>3, SendsOne DEF Safe
<1>9. (keeper \in {"finishing", "gone"} \/ Told("shutdown"))' => halted' = "serving" /\ Active' = {}
    <2>1. ASSUME Shutdown PROVE halted' = "serving" /\ \A l \in Leases : pc'[l] \in {"none", "done"}
        BY <2>1 DEF Shutdown, Active, leaseVars
    <2>2. (\A l \in Leases : pc'[l] \in {"none", "done"}) => Active' = {} BY DEF Active
    <2> QED BY <1>5, <1>7, <1>8, <2>1, <2>2
<1>10. ASSUME NEW i \in DOMAIN mail', mail'[i].box # None
       PROVE  /\ keeper' \notin {"finishing", "gone"}
              /\ \A k \in 1..(i - 1) : mail'[k].kind # "shutdown"
    <2>1. i \in Nat /\ \A k \in 1..(i - 1) : k \in DOMAIN mail'
        <3>1. mail' \in Seq(Msg) BY DEF Safe, TypeOK, Msg
        <3> QED BY <3>1
    <2>2. \A j \in DOMAIN mail : mail[j].box # None =>
              keeper \notin {"finishing", "gone"} /\ \A k \in 1..(j - 1) : mail[k].kind # "shutdown"
        BY DEF Closing
    <2>3. ASSUME Over, ~\E j \in DOMAIN mail : mail'[i] = mail[j]
          PROVE  FALSE
        <3>1. \E l \in Leases : pc[l] \in {"freeze", "thaw"}
            <4>1. CASE UNCHANGED mail BY <2>3, <4>1
            <4>2. ASSUME NEW kind \in Kinds, Receive(kind) PROVE FALSE BY <1>2, <2>3, <4>2
            <4>3. ASSUME NEW kind \in Kinds, NEW l \in Leases \cup {None}, NEW b \in Leases \cup {None},
                         Send(kind, l, b), Sends(kind, l, b)
                  PROVE  \E k \in Leases : pc[k] \in {"freeze", "thaw"}
                BY <1>3, <1>10, <2>3, <4>3
            <4> QED BY <4>1, <4>2, <4>3, SendsOne DEF Safe
        <3> QED BY <1>6, <2>3, <3>1
    <2>4. ASSUME keeper' \in {"finishing", "gone"} PROVE FALSE
        <3>1. PICK j \in DOMAIN mail : mail'[i] = mail[j] BY <1>7, <2>3, <2>4
        <3>2. keeper \notin {"finishing", "gone"} BY <1>10, <2>2, <3>1
        <3>3. Receive("shutdown") /\ "shutdown" \in Kinds
            BY <2>4, <3>2, KeeperChanges DEF Finish, Kinds
        <3>4. i + 1 \in DOMAIN mail /\ mail'[i] = mail[i + 1] /\ mail[1].kind = "shutdown" BY <1>2, <3>3
        <3>5. 1 \in 1..((i + 1) - 1)
            <4>1. i \in Nat \ {0}
                <5>1. mail' \in Seq(Msg) BY DEF Safe, TypeOK, Msg
                <5> QED BY <5>1
            <4> QED BY <4>1
        <3> QED BY <1>10, <2>2, <3>4, <3>5
    <2>5. ASSUME NEW k \in 1..(i - 1), mail'[k].kind = "shutdown" PROVE FALSE
        <3>1. k \in DOMAIN mail' /\ k \in Nat /\ k # i /\ k < i BY <2>1
        <3>2. CASE UNCHANGED mail BY <1>10, <2>2, <2>5, <3>2
        <3>3. ASSUME NEW kind \in Kinds, Receive(kind) PROVE FALSE
            <4>1. /\ i + 1 \in DOMAIN mail /\ mail'[i] = mail[i + 1] /\ mail'[k] = mail[k + 1]
                BY <1>2, <3>1, <3>3
            <4>2. k + 1 \in 1..((i + 1) - 1) BY <2>1
            <4> QED BY <1>10, <2>2, <2>5, <4>1, <4>2
        <3>4. ASSUME NEW kind \in Kinds, NEW l \in Leases \cup {None}, NEW b \in Leases \cup {None},
                     Send(kind, l, b), Sends(kind, l, b)
              PROVE  FALSE
            <4>1. k \in DOMAIN mail /\ mail'[k] = mail[k] BY <1>0, <1>3, <2>1, <3>1, <3>4
            <4>2. Over BY <2>5, <4>1 DEF Told
            <4>3. CASE i \in DOMAIN mail
                <5>1. mail'[i] = mail[i] BY <1>3, <3>4, <4>3
                <5> QED BY <1>10, <2>2, <2>5, <4>1, <4>3, <5>1
            <4>4. CASE i = Len(mail) + 1
                <5>1. b # None BY <1>3, <1>10, <3>4, <4>4
                <5> QED BY <1>3, <1>6, <3>4, <4>2, <5>1
            <4> QED BY <1>3, <3>4, <4>3, <4>4
        <3> QED BY <3>2, <3>3, <3>4, SendsOne DEF Safe
    <2> QED BY <2>4, <2>5
<1>11. keeper' = "gone" => destroying' = {}
    <2>1. CASE Finish BY <2>1 DEF Finish
    <2>2. CASE ~Finish
        <3> SUFFICES ASSUME keeper' = "gone" PROVE destroying' = {} OBVIOUS
        <3>1. keeper = "gone" BY <2>2, KeeperChanges
        <3>2. destroying = {} /\ held = <<>> /\ halted = "serving" BY <3>1 DEF Closing
        <3>3. ~Resize BY <3>2 DEF Resize
        <3>4. ASSUME NEW kind \in Kinds, Receive(kind) PROVE FALSE BY <3>1, <3>4 DEF Receive
        <3>5. ASSUME NEW l \in Leases, LetGo(l) PROVE FALSE BY <3>2, <3>5 DEF LetGo
        <3> QED BY <2>2, <3>2, <3>3, <3>4, <3>5, KeeperChanges
    <2> QED BY <2>1, <2>2
<1> QED BY <1>1, <1>9, <1>10, <1>11 DEF Closing

-----------------------------------------------------------------------------
(* The theorems. *)

\* A host starts with nothing issued, held or asked.
LEMMA Begins == ASSUME Init PROVE IInv
<1>1. /\ None \notin Leases /\ Other \notin Leases /\ Workers \in Nat \ {0} /\ MaxLapses \in Nat
    BY HostAssumption
<1>2. /\ pc = [l \in Leases |-> "none"] /\ hand = [l \in Leases |-> None]
      /\ ran = [b \in Leases |-> None] /\ turn = [f \in Fleets |-> <<>>]
      /\ latest = [f \in Fleets |-> None] /\ resume = [l \in Leases |-> None]
      /\ mail = <<>> /\ held = <<>> /\ recorded = {} /\ keeps = {} /\ parked = {} /\ spooled = {}
      /\ destroying = {} /\ gone = {} /\ keeper = "open" /\ halted = "no" /\ lapses = 0
      /\ workers = Workers /\ of \in Orders
    BY DEF Init
<1>3. DOMAIN mail = {} /\ DOMAIN held = {} /\ Len(held) = 0 BY <1>2
<1>4. PICK L \in SUBSET Leases : of \in [L -> Fleets] BY <1>2, HostAssumption
<1>5. TypeOK
    <2>1. mail \in Seq(Msg) /\ held \in Seq(Entry) BY <1>2
    <2>2. workers \in 1..Workers /\ lapses \in 0..MaxLapses /\ Len(held) <= workers BY <1>1, <1>2, <1>3
    <2>3. turn \in [Fleets -> Seq(Leases)] BY <1>2
    <2> QED BY <1>2, <1>3, <2>1, <2>2, <2>3 DEF TypeOK, Msg
<1>6. \A l \in Leases : pc[l] = "none" /\ hand[l] = None /\ ran[l] = None BY <1>2
<1>7. Issued /\ Lines
    <2>1. \A f \in Fleets : latest[f] = None /\ DOMAIN turn[f] = {} BY <1>2
    <2> QED BY <1>1, <1>6, <2>1 DEF Issued, Lines, InLine, Standing
<1>8. Ordered BY <1>2, <1>3, <1>6 DEF Ordered, Turned, Asked
<1>9. Mailed /\ Resumes /\ Holding /\ RanLast BY <1>2, <1>3, <1>6 DEF Mailed, Resumes, Holding, RanLast
<1>10. ResumesRecorded /\ Refusals BY <1>3, <1>6 DEF ResumesRecorded, Refusals
<1>11. Placed
    <2>1. Single BY <1>3, <1>6 DEF Single
    <2>2. OnePlace BY <1>1, <1>2, <1>3, <1>6 DEF OnePlace, InHand, InMail, InHeld
    <2>3. Readied BY <1>6 DEF Readied
    <2> QED BY <2>1, <2>2, <2>3 DEF Placed
<1>12. Closing BY <1>2, <1>3 DEF Closing, Told
<1> QED BY <1>5, <1>7, <1>8, <1>9, <1>10, <1>11, <1>12 DEF IInv, Safe

\* And keeps what IInv says with every step.
LEMMA Keeps == ASSUME IInv, [Next]_vars PROVE IInv'
<1>1. Safe /\ TypeOK /\ Placed /\ RanLast /\ ResumesRecorded /\ Refusals /\ Closing BY DEF IInv, Safe
<1>2. Safe'
    <2>1. TypeOK' BY <1>1, TypeStep
    <2>2. Issued' BY <1>1, IssuedStep
    <2>3. Lines' BY <1>1, LinesStep
    <2>4. Ordered' BY <1>1, OrderedStep
    <2>5. Mailed' BY <1>1, MailedStep
    <2>6. Resumes' BY <1>1, ResumesStep
    <2>7. Holding' BY <1>1, HoldingStep
    <2> QED BY <2>1, <2>2, <2>3, <2>4, <2>5, <2>6, <2>7 DEF Safe
<1>3. RanLast' /\ ResumesRecorded' BY <1>1, RanStep
<1>4. Refusals' BY <1>1, RefusalsStep
<1>5. Placed'
    <2>1. Single' /\ OnePlace' BY <1>1, PlacesStep
    <2>2. Readied' BY <1>1, ReadiedStep
    <2> QED BY <2>1, <2>2 DEF Placed
<1>6. Closing' BY <1>1, <1>2, ClosingStep
<1> QED BY <1>2, <1>3, <1>4, <1>5, <1>6 DEF IInv

\* Every reachable state of the host satisfies IInv.
THEOREM Invariance == Spec => []IInv
<1>1. Init => IInv BY Begins
<1>2. IInv /\ [Next]_vars => IInv' BY Keeps
<1> QED BY <1>1, <1>2, PTL DEF Spec

\* The keeper never holds more sandboxes than the host has workers, or two of a
\* fleet, whatever parks, shrinks or ends in between.
THEOREM Typed == Spec => []TypeOK
<1>1. IInv => TypeOK BY DEF IInv, Safe
<1> QED BY <1>1, Invariance, PTL

\* A lease thaws only the sandbox that the lease it was told to resume ran in
\* last, although the daemon and the keeper never speak to each other.
THEOREM ResumesTheRecorded == Spec => []ResumesRecorded
<1>1. IInv => ResumesRecorded BY DEF IInv
<1> QED BY <1>1, Invariance, PTL

\* A hold that is not among those a request may end stays.
LEMMA LessKeeps ==
    ASSUME TypeOK, NEW at \in SUBSET DOMAIN held, NEW i \in DOMAIN held, i \notin at
    PROVE  \E j \in DOMAIN Less(at) : Less(at)[j] = held[i]
<1>1. held \in Seq(Entry) BY DEF TypeOK
<1>2. CASE at = {} BY <1>2 DEF Less
<1>3. CASE at # {}
    <2> DEFINE h == CHOOSE h \in at : TRUE
    <2>1. h \in at /\ h \in DOMAIN held /\ h # i BY <1>3
    <2>2. Less(at) = Without(held, h) BY <1>3 DEF Less
    <2> HIDE DEF h
    <2>3. /\ i < h => i \in DOMAIN Without(held, h) /\ Without(held, h)[i] = held[i]
          /\ i > h => i - 1 \in DOMAIN Without(held, h) /\ Without(held, h)[i - 1] = held[i]
        BY <1>1, <2>1, WithoutOne
    <2>4. i < h \/ i > h BY <1>1, <2>1
    <2> QED BY <2>2, <2>3, <2>4
<1> QED BY <1>2, <1>3

\* Only the keeper takes from its mailbox.
LEMMA Handles ==
    ASSUME TypeOK, [Next]_vars, NEW kind, Receive(kind)
    PROVE  /\ kind = "discard" => Discard
           /\ kind = "supersede" => Release
<1>1. mail \in Seq(Msg) /\ Len(mail') = Len(mail) - 1 /\ Len(mail) \in Nat /\ Head(mail).kind = kind
    <2>1. mail \in Seq(Msg) /\ mail # <<>> /\ mail' = Tail(mail) /\ Head(mail).kind = kind
        BY DEF TypeOK, Msg, Receive
    <2> QED BY <2>1
<1>2. ASSUME NEW other \in Kinds, NEW l \in Leases \cup {None}, NEW b \in Leases \cup {None}, Send(other, l, b)
      PROVE  FALSE
    <2>1. [kind |-> other, lease |-> l, box |-> b] \in Msg BY DEF Msg
    <2>2. Len(mail') = Len(mail) + 1 BY <1>1, <1>2, <2>1 DEF Send
    <2> QED BY <1>1, <2>2
<1>3. ~UNCHANGED mail BY <1>1
<1>4. {"take", "park", "release", "supersede", "discard", "close", "shutdown"} = Kinds BY DEF Kinds
<1>5. \A l \in Leases : hand[l] \in Leases \cup {None} BY DEF TypeOK
<1>6. CASE UNCHANGED vars BY <1>3, <1>6 DEF vars
<1>7. ASSUME NEW l \in Leases, BuildFresh(l) \/ Refuse(l) \/ AskHeld(l) PROVE FALSE
    BY <1>2, <1>4, <1>7 DEF BuildFresh, Refuse, AskHeld
<1>8. ASSUME NEW l \in Leases, Thaw(l) \/ Freeze(l) PROVE FALSE
    <2>1. UNCHANGED mail \/ Send("discard", l, hand[l]) \/ Send("park", l, hand[l])
        BY <1>8 DEF Thaw, Freeze
    <2> QED BY <1>2, <1>3, <1>4, <1>5, <2>1
<1>9. ASSUME NEW l \in Leases, Report(l) \/ Drain(l) PROVE FALSE
    <2>1. UNCHANGED mail \/ Send("supersede", l, None) BY <1>9 DEF Report, Drain, Supersede
    <2> QED BY <1>2, <1>3, <1>4, <2>1
<1>10. ASSUME NEW l \in Leases, Issue(l) \/ GiveUp(l) \/ RunBare(l) \/ EndRun(l) \/ LetGo(l) PROVE FALSE
    BY <1>3, <1>10 DEF Issue, GiveUp, RunBare, EndRun, LetGo
<1>11. ASSUME NEW f \in Fleets, IssueElsewhere(f) PROVE FALSE BY <1>3, <1>11 DEF IssueElsewhere
<1>12. CASE Halt \/ Finish \/ Resize BY <1>3, <1>12 DEF Halt, Finish, Resize
<1>13. CASE Close \/ Shutdown BY <1>2, <1>4, <1>13 DEF Close, Shutdown
<1>14. CASE Take BY <1>1, <1>14 DEF Take, Receive
<1>15. CASE Park BY <1>1, <1>15 DEF Park, Receive
<1>16. CASE Release BY <1>1, <1>16 DEF Release, Receive
<1>17. CASE Discard BY <1>1, <1>17 DEF Discard, Receive
<1> QED BY <1>6, <1>7, <1>8, <1>9, <1>10, <1>11, <1>12, <1>13, <1>14, <1>15, <1>16, <1>17
        DEF Next, RunLease, Serve, Stop

\* Whatever request of another lease of the fleet reaches the keeper late, a hold
\* the daemon counts on outlives it while the host takes leases.
THEOREM LateRequestsEndOnlyStale == Spec => EndsOnlyStale
<1> DEFINE Ends == \A l \in Owners(held) \ Owners(held') :
                      /\ halted = "no" /\ mail # <<>> /\ mail' = Tail(mail)
                      /\ Head(mail).lease # None /\ of[Head(mail).lease] = of[l]
                      => ~Wanted(l)
<1>1. IInv /\ [Next]_vars => [Ends]_vars
    <2> SUFFICES ASSUME IInv, [Next]_vars, NEW l \in Owners(held) \ Owners(held'),
                        halted = "no", mail # <<>>, mail' = Tail(mail),
                        Head(mail).lease # None, of[Head(mail).lease] = of[l], Wanted(l)
                 PROVE  FALSE
        OBVIOUS
    <2>1. Safe /\ TypeOK BY DEF IInv, Safe
    <2>2. mail \in Seq(Msg) BY <2>1 DEF TypeOK, Msg
    <2>3. PICK n \in Nat : n = Len(mail) /\ Len(mail') = n - 1 BY <2>2
    <2>4. PICK kind \in Kinds : Receive(kind)
        <3>0. n - 1 # n OBVIOUS
        <3>1. ~UNCHANGED mail BY <2>3, <3>0
        <3>2. ASSUME NEW kind \in Kinds, NEW k \in Leases \cup {None}, NEW b \in Leases \cup {None},
                     Send(kind, k, b)
              PROVE  FALSE
            <4>1. Len(mail') = n + 1 BY <2>2, <2>3, <3>2 DEF Send
            <4>2. n - 1 # n + 1 OBVIOUS
            <4> QED BY <2>3, <4>1, <4>2
        <3> QED BY <2>1, <3>1, <3>2, SendsOne
    <2>5. /\ Head(mail) = mail[1] /\ 1 \in DOMAIN mail /\ mail[1].kind = kind
          /\ kind \notin {"close", "shutdown"} => mail[1].lease \in DOMAIN of /\ mail[1].lease \in Leases
        BY <2>1, <2>4, HeadSays
    <2>6. PICK h \in Leases : /\ h = mail[1].lease /\ h \in DOMAIN of /\ of[h] = of[l] /\ pc[h] # "none"
                              /\ kind \notin {"close", "shutdown"}
        <3>1. kind \notin {"close", "shutdown"} BY <2>1, <2>5 DEF Safe, Mailed
        <3> QED BY <2>5, <3>1 DEF IInv, Refusals
    <2>7. PICK i \in DOMAIN held : held[i].lease = l BY DEF Owners
    <2>8. /\ l \in parked /\ l \in recorded /\ l \in Leases /\ latest[of[h]] = l
        BY <2>1, <2>6 DEF Wanted, Safe, Holding, TypeOK
    <2>9. h <= l BY <2>1, <2>6, <2>8 DEF Safe, Issued
    <2>10. CASE kind \in Asks
        <3>1. l < h BY <2>1, <2>5, <2>6, <2>8, <2>10 DEF Safe, Mailed
        <3>2. l \in Nat /\ h \in Nat BY <2>6, <2>8, HostAssumption
        <3> QED BY <2>9, <3>1, <3>2
    <2>11. CASE kind = "discard"
        <3>1. Discard BY <2>1, <2>4, <2>11, Handles
        <3>2. held' = held BY <3>1 DEF Discard, Keep
        <3> QED BY <2>7, <3>2 DEF Owners
    <2>12. CASE kind = "supersede"
        <3>1. h \notin recorded BY <2>5, <2>6, <2>12 DEF IInv, Refusals
        <3>2. h # l BY <2>8, <3>1
        <3> DEFINE at == {k \in DOMAIN held : held[k].lease = mail[1].lease}
        <3>3. held' = Less(at)
            <4>1. Release BY <2>1, <2>4, <2>12, Handles
            <4> QED BY <2>4, <2>5, <2>12, <4>1 DEF Release, Receive, End, Keep
        <3>4. at \in SUBSET DOMAIN held /\ i \notin at BY <2>6, <2>7, <3>2
        <3> HIDE DEF at
        <3>5. \E j \in DOMAIN held' : held'[j] = held[i] BY <2>1, <3>3, <3>4, LessKeeps
        <3> QED BY <2>7, <3>5 DEF Owners
    <2> QED BY <2>6, <2>10, <2>11, <2>12 DEF Asks, Kinds
<1> QED BY <1>1, Invariance, PTL DEF Spec, EndsOnlyStale


\* A set has no member, or one.
LEMMA NoneOrOne ==
    ASSUME NEW S, \A x, y \in S : x = y
    PROVE  /\ S = {} => Cardinality(S) = 0
           /\ S # {} => Cardinality(S) = 1
<1>1. Cardinality({}) = 0 BY FS_EmptySet
<1>2. ASSUME S # {} PROVE Cardinality(S) = 1
    <2>1. PICK x \in S : S = {x} BY <1>2
    <2> QED BY <2>1, FS_Singleton
<1> QED BY <1>1, <1>2

\* Every sandbox that was built is in one place, and torn down when the process ends,
\* whoever gave up on it and whichever request was overtaken.
THEOREM NothingIsLeaked == Spec => []NothingLeaks
<1>1. IInv => NothingLeaks
    <2> SUFFICES ASSUME IInv, NEW b \in Leases, ran[b] # None
                 PROVE  Places(b) = 1 /\ (keeper = "gone" => b \in gone)
        BY DEF NothingLeaks
    <2>1. Single /\ OnePlace /\ Readied /\ Closing BY DEF IInv, Placed
    <2>2. None \notin Leases BY HostAssumption
    <2> DEFINE hands == {l \in Leases : hand[l] = b}
               mails == {i \in DOMAIN mail : mail[i].box = b}
               helds == {i \in DOMAIN held : held[i].box = b}
               ends == {b} \cap destroying
               goes == {b} \cap gone
    <2>3. /\ \A x, y \in hands : x = y
          /\ \A x, y \in mails : x = y
          /\ \A x, y \in helds : x = y
          /\ \A x, y \in ends : x = y
          /\ \A x, y \in goes : x = y
        BY <2>1, <2>2 DEF Single
    <2>4. /\ hands # {} <=> InHand(b)
          /\ mails # {} <=> InMail(b)
          /\ helds # {} <=> InHeld(b)
          /\ ends # {} <=> b \in destroying
          /\ goes # {} <=> b \in gone
        BY DEF InHand, InMail, InHeld
    <2>5. Places(b) = Cardinality(hands) + Cardinality(mails) + Cardinality(helds)
                      + Cardinality(ends) + Cardinality(goes)
        BY DEF Places
    <2> HIDE DEF hands, mails, helds, ends, goes
    <2>6. /\ Cardinality(hands) = IF InHand(b) THEN 1 ELSE 0
          /\ Cardinality(mails) = IF InMail(b) THEN 1 ELSE 0
          /\ Cardinality(helds) = IF InHeld(b) THEN 1 ELSE 0
          /\ Cardinality(ends) = IF b \in destroying THEN 1 ELSE 0
          /\ Cardinality(goes) = IF b \in gone THEN 1 ELSE 0
        BY <2>3, <2>4, NoneOrOne
    <2>7. Places(b) = 1 BY <2>1, <2>5, <2>6 DEF OnePlace
    <2>8. ASSUME keeper = "gone" PROVE b \in gone
        <3>1. held = <<>> /\ destroying = {} /\ (\A i \in DOMAIN mail : mail[i].box = None)
              /\ \A l \in Leases : pc[l] \in {"none", "done"}
            BY <2>1, <2>8 DEF Closing, Active
        <3>2. ~InHand(b) BY <2>1, <2>2, <3>1 DEF Readied, InHand
        <3>3. ~InMail(b) BY <2>2, <3>1 DEF InMail
        <3>4. ~InHeld(b) BY <3>1 DEF InHeld
        <3> QED BY <2>1, <3>1, <3>2, <3>3, <3>4 DEF OnePlace
    <2> QED BY <2>7, <2>8
<1> QED BY <1>1, Invariance, PTL

=============================================================================
