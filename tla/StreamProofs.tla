----------------------------- MODULE StreamProofs -----------------------------
(***************************************************************************)
(* The clock by which streams play, and the jitter buffer they play from.   *)
(* A negotiation leaves the clock as close to the device's as its best      *)
(* measurement allows, and the shift register keeps that measurement: for   *)
(* any register, delays and clocks, and any losses and copies of replies.   *)
(* The buffer keeps its nodes, plays them in order and once, and has one    *)
(* for the next packet: for any packets, losses and orders, while the       *)
(* timestamps do not wrap.                                                  *)
(***************************************************************************)
EXTENDS TimeSync, JitterBuffer, ModArithProofs, FiniteSetTheorems, SequenceTheorems,
        WellFoundedInduction, TLAPS

Reply == [id : Ids, sentAt : Int, server : Int, path : Paths, copies : Int]

\* What the threads keep, and what is on the way.
OwnerTypes ==
    /\ pc \in {"closed", "open", "send", "wait", "up", "join"}
    /\ thread \in {"none", "select", "exited"}
    /\ pc \in {"closed", "open", "send", "wait"} => thread = "none"
    /\ tries \in [good : Nat, bad : Nat, unsent : Nat]
    /\ jumped \in BOOLEAN
NetTypes ==
    /\ net \subseteq Reply
    /\ IsFiniteSet(net) /\ Cardinality(net) <= Window
ClockTypes ==
    /\ epoch \in Int /\ server \in Int
    /\ best \in Int /\ recent \in Seq(Int)
RegisterTypes ==
    source \in [responded : BOOLEAN, delay : [Places -> Int], index : Places, used : Places]

\* What a reply to the outstanding request measures has not changed since it was sent.
Fresh ==
    pc = "wait" => \A p \in net : p.id = last => p.sentAt = epoch /\ p.server = server

\* As long as a negotiation lasts the register holds its round trips, from the
\* first place on, and the best of them is the one in use.
Negotiated ==
    pc \in {"send", "wait"} =>
        /\ ~jumped
        /\ tries.good < Enough
        /\ source.responded <=> tries.good > 0
        /\ tries.good = 0 => best = Unset
        /\ tries.good > 0 => /\ source.index = tries.good /\ source.used < source.index
                             /\ source.delay[source.used] = best
                             /\ \A i \in Places : best <= source.delay[i]
                             /\ 2 * Magnitude(server - epoch) <= best
IdleTries == pc \notin {"send", "wait"} => tries = NoTries

\* The place that was written k measurements ago.
Back(index, k) == IF k <= index THEN index - k ELSE index - k + Slots

\* The latest round trips lie behind the index, as many as there are places.
Ring ==
    thread = "select" =>
        /\ source.responded
        /\ Len(recent) \in 1 .. Slots
        /\ \A k \in 1 .. Len(recent) :
              source.delay[Back(source.index, k)] = recent[Len(recent) + 1 - k]
        /\ Len(recent) = 1 /\ ~jumped => 2 * Magnitude(server - epoch) <= best

Types == OwnerTypes /\ NetTypes /\ ClockTypes /\ RegisterTypes
Inv == Types /\ Fresh /\ Negotiated /\ IdleTries /\ Ring
----------------------------------------------------------------------------
(* Constants *)

LEMMA ConstantTypes ==
    /\ Slots \in Nat \ {0} /\ Enough \in Nat \ {0} /\ Window \in Nat \ {0} /\ Enough < Slots
    /\ Unset \in Int /\ Servers \subseteq Int
BY Counts, EnoughFits, Clocks

LEMMA PathTypes ==
    ASSUME NEW path \in Paths
    PROVE  path \in Nat \X Nat /\ 2 * (path[1] + path[2]) < Unset
BY PathDelays

LEMMA PlacesExist == 0 \in Places /\ 1 \in Places
BY ConstantTypes DEF Places

LEMMA OneMore ==
    ASSUME NEW S, IsFiniteSet(S), NEW x
    PROVE  /\ IsFiniteSet(S \cup {x})
           /\ Cardinality(S) \in Nat /\ Cardinality(S \cup {x}) \in Nat
           /\ Cardinality(S \cup {x}) <= Cardinality(S) + 1
<1>1. Cardinality(S) \in Nat
  BY FS_CardinalityType
<1>2. IsFiniteSet(S \cup {x})
      /\ Cardinality(S \cup {x}) = IF x \in S THEN Cardinality(S) ELSE Cardinality(S) + 1
  BY FS_AddElement
<1> QED
  BY <1>1, <1>2

----------------------------------------------------------------------------
(* Requests and replies *)

\* There are more ids than replies on the way.
LEMMA NewIdIsNew ==
    ASSUME NetTypes
    PROVE  NewId \in Ids /\ \A p \in net : p.id # NewId
<1>1. SUFFICES \E i \in Ids : \A p \in net : p.id # i
  BY DEF NewId
<1>2. SUFFICES ASSUME \A i \in Ids : \E p \in net : p.id = i PROVE FALSE
  OBVIOUS
<1> DEFINE f == [i \in Ids |-> CHOOSE p \in net : p.id = i]
<1>3. f \in [Ids -> net] /\ \A i \in Ids : f[i].id = i
  BY <1>2
<1>4. IsFiniteSet(Ids) /\ Cardinality(Ids) = Window + 1
  BY ConstantTypes, FS_Interval DEF Ids
<1>5. IsFiniteSet(net) /\ Cardinality(net) < Cardinality(Ids)
  BY <1>4, ConstantTypes, FS_CardinalityType DEF NetTypes
<1> HIDE DEF f
<1>6. \E x, y \in Ids : x # y /\ f[x] = f[y]
  <2>1. f \in [Ids -> net] /\ IsFiniteSet(Ids) /\ IsFiniteSet(net)
        /\ Cardinality(net) < Cardinality(Ids)
    BY <1>3, <1>4, <1>5
  <2> QED
    BY <2>1, FS_PigeonHole, Zenon
<1> QED
  BY <1>3, <1>6

\* A request is answered as of the time it was sent.
LEMMA RequestIsFresh ==
    ASSUME Types, SendRequest, UNCHANGED <<epoch, server>>
    PROVE  /\ NetTypes'
           /\ \A p \in net' : p.id = last' => p.sentAt = epoch' /\ p.server = server'
<1>1. last' = NewId /\ NewId \in Ids /\ \A p \in net : p.id # NewId
  BY NewIdIsNew DEF SendRequest, Types
<1>2. CASE UNCHANGED net
  BY <1>1, <1>2 DEF Types, NetTypes
<1>3. ASSUME Cardinality(net) < Window,
             NEW path \in Paths, NEW n \in 1 .. MaxCopies,
             net' = net \cup {[id |-> NewId, sentAt |-> epoch, server |-> server,
                               path |-> path, copies |-> n]}
      PROVE  /\ NetTypes'
             /\ \A p \in net' : p.id = last' => p.sentAt = epoch' /\ p.server = server'
  <2> DEFINE r == [id |-> NewId, sentAt |-> epoch, server |-> server, path |-> path, copies |-> n]
  <2>1. r \in Reply
    BY <1>1 DEF Reply, Types, ClockTypes
  <2>2. net' \subseteq Reply
    BY <1>3, <2>1 DEF Types, NetTypes
  <2>3. IsFiniteSet(net') /\ Cardinality(net') <= Cardinality(net) + 1
        /\ Cardinality(net) \in Nat /\ Cardinality(net') \in Nat
    <3>1. IsFiniteSet(net)
      BY DEF Types, NetTypes
    <3> HIDE DEF r
    <3>2. net' = net \cup {r}
      BY <1>3 DEF r
    <3> QED
      BY <3>1, <3>2, OneMore
  <2>4. NetTypes'
    BY <1>3, <2>2, <2>3, ConstantTypes DEF NetTypes
  <2> QED
    BY <1>1, <1>3, <2>4
<1> QED
  BY <1>2, <1>3 DEF SendRequest

\* A copy that is taken leaves no reply that was not there.
LEMMA TakenIsLess ==
    ASSUME NetTypes, NEW p \in net
    PROVE  /\ Taken(p) \subseteq Reply
           /\ IsFiniteSet(Taken(p)) /\ Cardinality(Taken(p)) <= Window
           /\ \A q \in Taken(p) : \E r \in net :
                 q.id = r.id /\ q.sentAt = r.sentAt /\ q.server = r.server
<1> DEFINE left == [p EXCEPT !.copies = @ - 1]
<1>1. p \in Reply
  BY DEF NetTypes
<1>2. left \in Reply /\ left.id = p.id /\ left.sentAt = p.sentAt /\ left.server = p.server
  BY <1>1 DEF Reply
<1>3. IsFiniteSet(net \ {p}) /\ Cardinality(net \ {p}) = Cardinality(net) - 1
      /\ Cardinality(net) \in Nat
  BY FS_RemoveElement, FS_CardinalityType DEF NetTypes
<1>4. IsFiniteSet((net \ {p}) \cup {left}) /\ Cardinality((net \ {p}) \cup {left}) \in Nat
      /\ Cardinality((net \ {p}) \cup {left}) <= Cardinality(net \ {p}) + 1
  BY <1>3, OneMore
<1>5. Taken(p) = net \ {p} \/ Taken(p) = (net \ {p}) \cup {left}
  BY DEF Taken, left
<1>6. IsFiniteSet(Taken(p)) /\ Cardinality(Taken(p)) <= Window
  BY <1>3, <1>4, <1>5, ConstantTypes DEF NetTypes
<1>7. Taken(p) \subseteq Reply
  BY <1>2, <1>5 DEF NetTypes
<1>8. \A q \in Taken(p) : \E r \in net : q.id = r.id /\ q.sentAt = r.sentAt /\ q.server = r.server
  <2> TAKE q \in Taken(p)
  <2>1. q \in net \/ q = left
    BY <1>5
  <2> QED
    BY <1>2, <2>1
<1> QED
  BY <1>6, <1>7, <1>8
----------------------------------------------------------------------------
(* Measurements *)

LEMMA MagnitudeType == ASSUME NEW x \in Int PROVE Magnitude(x) \in Nat
BY DEF Magnitude

LEMMA MeasuredTypes ==
    ASSUME ClockTypes, NEW p \in Reply
    PROVE  Offset(p) \in Int /\ RoundTrip(p) \in Int
<1>1. p.path \in Nat \X Nat /\ p.sentAt \in Int /\ p.server \in Int
  BY PathTypes DEF Reply
<1>2. p.path[1] \in Nat /\ p.path[2] \in Nat
  BY <1>1
<1> DEFINE ahead == (2 * p.server - p.sentAt - epoch) \div 2
<1>3. ahead \in Int
  BY <1>1 DEF ClockTypes
<1>4. Offset(p) = ahead + p.path[1] - p.path[2]
  BY DEF Offset
<1> HIDE DEF ahead
<1>5. Offset(p) \in Int
  BY <1>2, <1>3, <1>4
<1>6. RoundTrip(p) \in Int
  BY <1>1, <1>2, SMTT(60) DEF RoundTrip, ClockTypes
<1> QED
  BY <1>5, <1>6

\* A clock that is set by a fresh reply is off by less than half its round trip.
LEMMA FreshMeasurement ==
    ASSUME ClockTypes, NEW p \in Reply, p.sentAt = epoch, p.server = server
    PROVE  /\ RoundTrip(p) < Unset
           /\ 2 * Magnitude(server - (epoch + Offset(p))) <= RoundTrip(p)
<1>1. p.path[1] \in Nat /\ p.path[2] \in Nat /\ 2 * (p.path[1] + p.path[2]) < Unset
  <2>1. p.path \in Paths
    BY DEF Reply
  <2> QED
    BY <2>1, PathTypes
<1>2. RoundTrip(p) = 2 * (p.path[1] + p.path[2])
  BY <1>1 DEF RoundTrip, ClockTypes
<1>3. Offset(p) = server - epoch + p.path[1] - p.path[2]
  <2>1. (2 * server - epoch - epoch) \div 2 = server - epoch
    BY DEF ClockTypes
  <2> QED
    BY <1>1, <2>1 DEF Offset, ClockTypes
<1>4. server - (epoch + Offset(p)) = p.path[2] - p.path[1]
  BY <1>1, <1>3 DEF ClockTypes
<1>5. 2 * Magnitude(p.path[2] - p.path[1]) <= 2 * (p.path[1] + p.path[2])
  BY <1>1 DEF Magnitude
<1> QED
  BY <1>1, <1>2, <1>4, <1>5, ConstantTypes

LEMMA RegisterIsTyped ==
    ASSUME RegisterTypes
    PROVE  Register \in [responded : BOOLEAN, delay : [Places -> Int], index : Places, used : Places]
BY ConstantTypes, PlacesExist DEF RegisterTypes, Register

\* What a measurement leaves in the register.
LEMMA RecordedFields ==
    ASSUME RegisterTypes, NEW rtt \in Int
    PROVE  /\ Recorded(rtt) \in
                 [responded : BOOLEAN, delay : [Places -> Int], index : Places, used : Places]
           /\ Recorded(rtt).responded = (source.responded \/ UseMeasurement(rtt))
           /\ Recorded(rtt).index = NextPlace(Register.index)
           /\ Recorded(rtt).used = IF UseMeasurement(rtt) THEN Register.index ELSE Register.used
           /\ Recorded(rtt).delay[Register.index] = rtt
           /\ \A i \in Places \ {Register.index} : Recorded(rtt).delay[i] = Register.delay[i]
<1>1. Register \in [responded : BOOLEAN, delay : [Places -> Int], index : Places, used : Places]
  BY RegisterIsTyped
<1>2. NextPlace(Register.index) \in Places
  BY <1>1, ConstantTypes DEF NextPlace, Places
<1>3. (source.responded \/ UseMeasurement(rtt)) \in BOOLEAN
  BY DEF RegisterTypes, UseMeasurement
<1> QED
  BY <1>1, <1>2, <1>3 DEF Recorded

\* Places behind the index, before and after it moves on.
LEMMA BackMovesOn ==
    ASSUME NEW i \in Places, NEW k \in 1 .. Slots
    PROVE  Back(NextPlace(i), k) = IF k = 1 THEN i ELSE Back(i, k - 1)
<1>1. i \in Int /\ 0 <= i /\ i <= Slots - 1 /\ k \in Int /\ 1 <= k /\ k <= Slots /\ Slots \in Nat
  BY ConstantTypes DEF Places
<1>2. CASE i + 1 >= Slots
  BY <1>1, <1>2 DEF Back, NextPlace
<1>3. CASE ~(i + 1 >= Slots)
  BY <1>1, <1>3 DEF Back, NextPlace
<1> QED
  BY <1>2, <1>3

LEMMA BackIsAPlace ==
    ASSUME NEW i \in Places, NEW k \in 1 .. Slots
    PROVE  Back(i, k) \in Places
BY ConstantTypes DEF Back, Places

LEMMA BackIsElsewhere ==
    ASSUME NEW i \in Places, NEW k \in 1 .. Slots - 1
    PROVE  Back(i, k) \in Places \ {i}
BY ConstantTypes DEF Back, Places

\* The sequence of the latest measurements, Slots of them at most.
Latest(r, rtt) ==
    IF Len(Append(r, rtt)) > Slots THEN Tail(Append(r, rtt)) ELSE Append(r, rtt)

LEMMA LatestSequence ==
    ASSUME NEW r \in Seq(Int), Len(r) \in 1 .. Slots, NEW rtt \in Int
    PROVE  LET s == Latest(r, rtt) IN
           /\ s \in Seq(Int) /\ Len(s) \in 2 .. Slots /\ Len(s) <= Len(r) + 1
           /\ \A k \in 1 .. Len(s) :
                 s[Len(s) + 1 - k] = IF k = 1 THEN rtt ELSE r[Len(r) + 1 - (k - 1)]
<1> DEFINE s == Latest(r, rtt)
<1> DEFINE a == Append(r, rtt)
<1>1. /\ a \in Seq(Int) /\ Len(a) = Len(r) + 1 /\ Len(r) \in Nat /\ Slots \in Nat /\ Slots > 1
      /\ \A j \in 1 .. Len(r) + 1 : a[j] = IF j = Len(r) + 1 THEN rtt ELSE r[j]
  BY ConstantTypes
<1> HIDE DEF s
<1>2. /\ s \in Seq(Int) /\ Len(s) \in 2 .. Slots /\ Len(s) <= Len(r) + 1
      /\ \A k \in 1 .. Len(s) :
            s[Len(s) + 1 - k] = IF k = 1 THEN rtt ELSE r[Len(r) + 1 - (k - 1)]
  <2>1. CASE Len(r) = Slots
    <3>1. s = Tail(a)
      BY <1>1, <2>1 DEF Latest, s
    <3> HIDE DEF a
    <3>2. s \in Seq(Int) /\ Len(s) = Slots /\ \A j \in 1 .. Slots : s[j] = a[j + 1]
      BY <1>1, <2>1, <3>1
    <3>3. ASSUME NEW k \in 1 .. Slots
          PROVE  s[Slots + 1 - k] = IF k = 1 THEN rtt ELSE r[Slots + 1 - (k - 1)]
      <4>1. Slots + 1 - k \in 1 .. Slots
        BY <1>1
      <4>2. s[Slots + 1 - k] = a[Slots + 1 - k + 1]
        BY <3>2, <4>1
      <4>3. Slots + 1 - k + 1 = Slots + 1 - (k - 1) /\ Slots + 1 - (k - 1) \in 1 .. Slots + 1
            /\ (k = 1 <=> Slots + 1 - (k - 1) = Slots + 1)
        BY <1>1
      <4> QED
        BY <1>1, <2>1, <4>1, <4>2, <4>3
    <3> QED
      BY <1>1, <2>1, <3>2, <3>3
  <2>2. CASE Len(r) # Slots
    <3>1. s = a /\ Len(r) < Slots
      BY <1>1, <2>2 DEF Latest, s
    <3> HIDE DEF a
    <3>2. ASSUME NEW k \in 1 .. Len(r) + 1
          PROVE  a[Len(r) + 2 - k] = IF k = 1 THEN rtt ELSE r[Len(r) + 1 - (k - 1)]
      <4>1. Len(r) + 2 - k \in 1 .. Len(r) + 1 /\ Len(r) + 2 - k = Len(r) + 1 - (k - 1)
            /\ (k = 1 <=> Len(r) + 2 - k = Len(r) + 1)
        BY <1>1
      <4> QED
        BY <1>1, <4>1
    <3>3. a \in Seq(Int) /\ Len(a) \in 2 .. Slots /\ Len(a) <= Len(r) + 1
          /\ Len(a) + 1 = Len(r) + 2
      BY <1>1, <3>1
    <3>4. \A k \in 1 .. Len(a) :
             a[Len(a) + 1 - k] = IF k = 1 THEN rtt ELSE r[Len(r) + 1 - (k - 1)]
      BY <1>1, <3>2, <3>3
    <3> QED
      BY <3>1, <3>3, <3>4
  <2> QED
    BY <2>1, <2>2
<1> QED
  BY <1>2 DEF s

\* One more round trip in the ring.
LEMMA RingGoesOn ==
    ASSUME RegisterTypes, source.responded, NEW rtt \in Int, NEW r \in Seq(Int),
           Len(r) \in 1 .. Slots,
           \A k \in 1 .. Len(r) : source.delay[Back(source.index, k)] = r[Len(r) + 1 - k],
           NEW s, s = Latest(r, rtt)
    PROVE  /\ s \in Seq(Int) /\ Len(s) \in 2 .. Slots
           /\ \A k \in 1 .. Len(s) :
                 Recorded(rtt).delay[Back(Recorded(rtt).index, k)] = s[Len(s) + 1 - k]
<1>1. /\ s \in Seq(Int) /\ Len(s) \in 2 .. Slots /\ Len(s) <= Len(r) + 1
      /\ \A k \in 1 .. Len(s) :
            s[Len(s) + 1 - k] = IF k = 1 THEN rtt ELSE r[Len(r) + 1 - (k - 1)]
  BY LatestSequence
<1>2. Register = source /\ source.index \in Places
  BY DEF Register, RegisterTypes
<1> DEFINE new == Recorded(rtt)
<1>3. /\ new.index = NextPlace(source.index) /\ new.delay[source.index] = rtt
      /\ \A j \in Places \ {source.index} : new.delay[j] = source.delay[j]
  <2>1. /\ new.index = NextPlace(Register.index) /\ new.delay[Register.index] = rtt
        /\ \A j \in Places \ {Register.index} : new.delay[j] = Register.delay[j]
    BY RecordedFields
  <2> QED
    BY <1>2, <2>1
<1> HIDE DEF new
<1>4. ASSUME NEW k \in 1 .. Len(s)
      PROVE  new.delay[Back(new.index, k)] = s[Len(s) + 1 - k]
  <2>1. k \in 1 .. Slots /\ (k # 1 => k - 1 \in 1 .. Slots - 1 /\ k - 1 \in 1 .. Len(r))
    <3>1. \A m, n \in Int : m \in 2 .. Slots /\ m <= n + 1 /\ k \in 1 .. m =>
             k \in 1 .. Slots /\ (k # 1 => k - 1 \in 1 .. Slots - 1 /\ k - 1 \in 1 .. n)
      BY ConstantTypes
    <3>2. Len(s) \in Int /\ Len(r) \in Int
      BY <1>1
    <3> QED
      BY <1>1, <3>1, <3>2
  <2>2. Back(new.index, k) = IF k = 1 THEN source.index ELSE Back(source.index, k - 1)
    BY <1>2, <1>3, <2>1, BackMovesOn
  <2>3. CASE k = 1
    BY <1>1, <1>3, <2>2, <2>3, SMTT(60)
  <2>4. CASE k # 1
    <3>1. Back(source.index, k - 1) \in Places \ {source.index}
      BY <1>2, <2>1, <2>4, BackIsElsewhere
    <3>2. source.delay[Back(source.index, k - 1)] = r[Len(r) + 1 - (k - 1)]
      BY <2>1, <2>4
    <3>3. new.delay[Back(source.index, k - 1)] = source.delay[Back(source.index, k - 1)]
      BY <1>3, <3>1
    <3>4. s[Len(s) + 1 - k] = r[Len(r) + 1 - (k - 1)]
      BY <1>1, <2>4
    <3> QED
      BY <2>2, <2>4, <3>2, <3>3, <3>4
  <2> QED
    BY <2>3, <2>4
<1> QED
  BY <1>1, <1>4 DEF new
----------------------------------------------------------------------------
(* The steps *)

LEMMA InitInv == Init => Inv
<1> SUFFICES ASSUME Init PROVE Inv
  OBVIOUS
<1>1. OwnerTypes /\ IdleTries
  BY DEF Init, OwnerTypes, IdleTries, NoTries
<1>4. ClockTypes
  BY ConstantTypes DEF Init, ClockTypes
<1>5. RegisterTypes
  BY PlacesExist DEF Init, RegisterTypes
<1>2. NetTypes
  BY ConstantTypes, FS_EmptySet DEF Init, NetTypes
<1>3. Fresh /\ Negotiated /\ Ring
  BY DEF Init, Fresh, Negotiated, Ring
<1> QED
  BY <1>1, <1>2, <1>3, <1>4, <1>5 DEF Inv, Types

\* What a reply of the negotiation leaves: its best measurement is in the
\* register and the clock is as close as that one.
LEMMA NegotiationMeasures ==
    ASSUME Inv, pc = "wait", NEW p \in net, Matches(p), Adjust(p, TRUE),
           best' = Least(best, RoundTrip(p)), UNCHANGED server
    PROVE  LET new == Recorded(RoundTrip(p)) IN
           /\ new \in [responded : BOOLEAN, delay : [Places -> Int], index : Places, used : Places]
           /\ new.responded /\ new.index = tries.good + 1 /\ new.used < new.index
           /\ new.delay[new.used] = best' /\ \A i \in Places : best' <= new.delay[i]
           /\ 2 * Magnitude(server' - epoch') <= best'
           /\ best' \in Int /\ epoch' \in Int
<1> DEFINE rtt == RoundTrip(p)
<1> DEFINE new == Recorded(rtt)
<1>1. p \in Reply /\ p.sentAt = epoch /\ p.server = server
  BY DEF Inv, Types, NetTypes, Fresh, Matches
<1>2. rtt \in Int /\ Offset(p) \in Int
  BY <1>1, MeasuredTypes DEF Inv, Types
<1>3. rtt < Unset /\ 2 * Magnitude(server - (epoch + Offset(p))) <= rtt
  BY <1>1, FreshMeasurement DEF Inv, Types
<1>4. epoch' = IF UseMeasurement(rtt) THEN epoch + Offset(p) ELSE epoch
  BY DEF Adjust
<1>5. best' = IF best < rtt THEN best ELSE rtt
  BY DEF Least
<1>6. /\ ClockTypes /\ RegisterTypes /\ tries.good \in Nat /\ tries.good < Enough
      /\ source.responded <=> tries.good > 0
      /\ tries.good = 0 => best = Unset
      /\ tries.good > 0 => /\ source.index = tries.good /\ source.used < source.index
                           /\ source.delay[source.used] = best
                           /\ \A i \in Places : best <= source.delay[i]
                           /\ 2 * Magnitude(server - epoch) <= best
  BY DEF Inv, Types, OwnerTypes, Negotiated
<1>7. /\ new \in [responded : BOOLEAN, delay : [Places -> Int], index : Places, used : Places]
      /\ new.responded = (source.responded \/ UseMeasurement(rtt))
      /\ new.index = NextPlace(Register.index)
      /\ new.used = IF UseMeasurement(rtt) THEN Register.index ELSE Register.used
      /\ new.delay[Register.index] = rtt
      /\ \A i \in Places \ {Register.index} : new.delay[i] = Register.delay[i]
  BY <1>2, <1>6, RecordedFields
<1> HIDE DEF new, rtt
<1>8. epoch \in Int /\ server \in Int /\ best \in Int /\ epoch' \in Int /\ best' \in Int
      /\ server' = server
  BY <1>2, <1>4, <1>5, <1>6 DEF ClockTypes
<1>9. NextPlace(tries.good) = tries.good + 1 /\ tries.good \in Places
  BY <1>6, ConstantTypes DEF NextPlace, Places
<1>10. /\ new.responded /\ new.index = tries.good + 1 /\ new.used < new.index
       /\ new.delay[new.used] = best' /\ \A i \in Places : best' <= new.delay[i]
       /\ 2 * Magnitude(server' - epoch') <= best'
  <2>1. CASE tries.good = 0
    <3>1. Register.delay = [i \in Places |-> Unset] /\ Register.index = 0
      BY <1>6, <2>1 DEF Register, RegisterTypes
    <3>2. UseMeasurement(rtt) /\ best' = rtt
      BY <1>2, <1>3, <1>5, <1>6, <2>1, <3>1, ConstantTypes DEF UseMeasurement
    <3>3. new.index = 1 /\ new.used = 0 /\ new.responded /\ new.delay[0] = rtt
      BY <1>7, <1>9, <2>1, <3>1, <3>2
    <3>4. ASSUME NEW i \in Places PROVE rtt <= new.delay[i]
      BY <1>2, <1>3, <1>7, <3>1, <3>3, ConstantTypes
    <3>5. epoch' = epoch + Offset(p)
      BY <1>4, <3>2
    <3> QED
      BY <1>3, <1>8, <2>1, <3>2, <3>3, <3>4, <3>5
  <2>2. CASE tries.good > 0
    <3>1. Register = source /\ source.index = tries.good
      BY <1>6, <2>2 DEF Register
    <3>2. new.index = tries.good + 1 /\ new.responded
      BY <1>6, <1>7, <1>9, <2>2, <3>1
    <3>3. source.used \in Places /\ source.used < tries.good + 1 /\ source.used # tries.good
      BY <1>6, <2>2, <3>1, ConstantTypes DEF RegisterTypes, Places
    <3>4. CASE UseMeasurement(rtt)
      <4>1. \A i \in Places : rtt <= source.delay[i]
        BY <3>1, <3>4 DEF UseMeasurement
      <4>2. rtt <= best /\ best' = rtt
        BY <1>2, <1>5, <1>6, <1>8, <2>2, <3>3, <4>1
      <4>3. new.used = tries.good /\ new.delay[tries.good] = rtt
        BY <1>7, <3>1, <3>4
      <4>4. ASSUME NEW i \in Places PROVE rtt <= new.delay[i]
        BY <1>2, <1>7, <3>1, <4>1, <4>3
      <4>5. epoch' = epoch + Offset(p)
        BY <1>4, <3>4
      <4> QED
        BY <1>3, <1>6, <1>8, <3>2, <4>2, <4>3, <4>4, <4>5
    <3>5. CASE ~UseMeasurement(rtt)
      <4>1. PICK i \in Places : ~(rtt <= source.delay[i])
        BY <3>1, <3>5 DEF UseMeasurement
      <4>2. source.delay[i] \in Int
        BY <1>6 DEF RegisterTypes
      <4>3. best < rtt /\ best' = best
        BY <1>2, <1>5, <1>6, <1>8, <2>2, <4>1, <4>2
      <4>4. new.used = source.used /\ new.delay[source.used] = best
        BY <1>6, <1>7, <2>2, <3>1, <3>3, <3>5
      <4>5. ASSUME NEW j \in Places PROVE best <= new.delay[j]
        BY <1>2, <1>6, <1>7, <1>8, <2>2, <3>1, <4>3
      <4>6. epoch' = epoch
        BY <1>4, <3>5
      <4>7. 2 * Magnitude(server' - epoch') <= best'
        BY <1>6, <1>8, <2>2, <4>3, <4>6
      <4> QED
        BY <3>2, <3>3, <4>3, <4>4, <4>5, <4>7
    <3> QED
      BY <3>4, <3>5
  <2> QED
    BY <1>6, <2>1, <2>2
<1> QED
  BY <1>7, <1>8, <1>10 DEF new, rtt

LEMMA NegotiateReceivesKeepsInv ==
    ASSUME Inv, NEW p \in net, NegotiateReceives(p)
    PROVE  Inv'
<1> DEFINE rtt == RoundTrip(p)
<1> DEFINE new == Recorded(rtt)
<1>1. /\ pc = "wait" /\ thread = "none" /\ ~jumped /\ net' = Taken(p) /\ Matches(p)
      /\ best' = Least(best, rtt) /\ Adjust(p, TRUE) /\ UNCHANGED <<quit, server, jumped>>
  BY DEF Inv, Types, OwnerTypes, Negotiated, NegotiateReceives
<1>2. /\ new \in [responded : BOOLEAN, delay : [Places -> Int], index : Places, used : Places]
      /\ new.responded /\ new.index = tries.good + 1 /\ new.used < new.index
      /\ new.delay[new.used] = best' /\ \A i \in Places : best' <= new.delay[i]
      /\ 2 * Magnitude(server' - epoch') <= best'
      /\ best' \in Int /\ epoch' \in Int
  BY <1>1, NegotiationMeasures
<1>3. tries \in [good : Nat, bad : Nat, unsent : Nat] /\ tries.good < Enough /\ recent \in Seq(Int)
      /\ server \in Int /\ jumped \in BOOLEAN
  BY <1>1 DEF Inv, Types, OwnerTypes, ClockTypes, Negotiated
<1>4. NetTypes'
  BY <1>1, TakenIsLess DEF Inv, Types, NetTypes
<1> HIDE DEF new, rtt
<1>5. CASE tries.good + 1 < Enough
  <2>1. /\ pc' = "send" /\ tries' = [tries EXCEPT !.good = @ + 1] /\ source' = new
        /\ UNCHANGED <<thread, recent>>
    BY <1>5 DEF NegotiateReceives, new, rtt
  <2>2. tries' \in [good : Nat, bad : Nat, unsent : Nat] /\ tries'.good = tries.good + 1
        /\ tries'.good > 0
    BY <1>3, <2>1, SMTT(60)
  <2>3. OwnerTypes'
    BY <1>1, <1>3, <2>1, <2>2 DEF OwnerTypes
  <2>4. ClockTypes' /\ RegisterTypes'
    BY <1>1, <1>2, <1>3, <2>1 DEF ClockTypes, RegisterTypes
  <2>5. Fresh' /\ IdleTries' /\ Ring'
    BY <1>1, <2>1 DEF Fresh, IdleTries, Ring
  <2>6. Negotiated'
    BY <1>1, <1>2, <1>5, <2>1, <2>2 DEF Negotiated
  <2> QED
    BY <1>4, <2>3, <2>4, <2>5, <2>6 DEF Inv, Types
<1>6. CASE ~(tries.good + 1 < Enough)
  <2>1. /\ source' = BestFirst(new) /\ tries' = NoTries
        /\ \/ pc' = "up" /\ thread' = "select" /\ recent' = <<best'>>
           \/ pc' = "open" /\ UNCHANGED <<thread, recent>>
    BY <1>6 DEF NegotiateReceives, Leave, new, rtt
  <2>2. /\ source' \in [responded : BOOLEAN, delay : [Places -> Int], index : Places, used : Places]
        /\ source'.responded /\ source'.index = 1 /\ source'.delay[0] = best'
    BY <1>2, <2>1, PlacesExist DEF BestFirst
  <2>3. OwnerTypes' /\ IdleTries'
    BY <1>1, <1>3, <2>1 DEF OwnerTypes, IdleTries, NoTries
  <2>4. ClockTypes' /\ RegisterTypes'
    <3>1. recent' = <<best'>> \/ recent' = recent
      BY <2>1
    <3>2. recent' \in Seq(Int)
      <4>1. \A b \in Int : <<b>> \in Seq(Int)
        OBVIOUS
      <4> QED
        BY <1>2, <1>3, <3>1, <4>1
    <3> QED
      BY <1>1, <1>2, <1>3, <2>2, <3>2 DEF ClockTypes, RegisterTypes
  <2>5. Fresh' /\ Negotiated'
    BY <1>1, <2>1 DEF Fresh, Negotiated
  <2>6. Ring'
    <3>1. CASE thread' = "select"
      <4>1. recent' = <<best'>>
        BY <1>1, <2>1, <3>1
      <4>2. Len(recent') = 1 /\ recent'[1] = best'
        BY <4>1
      <4>3. Back(1, 1) = 0
        BY DEF Back
      <4>4. \A k \in 1 .. Len(recent') :
               source'.delay[Back(source'.index, k)] = recent'[Len(recent') + 1 - k]
        BY <2>2, <4>2, <4>3
      <4> QED
        BY <1>2, <2>2, <4>2, <4>4, ConstantTypes DEF Ring
    <3>2. CASE thread' # "select"
      BY <3>2 DEF Ring
    <3> QED
      BY <3>1, <3>2
  <2> QED
    BY <1>4, <2>3, <2>4, <2>5, <2>6 DEF Inv, Types
<1> QED
  BY <1>5, <1>6

LEMMA ThreadReceivesKeepsInv ==
    ASSUME Inv, NEW p \in net, ThreadReceives(p)
    PROVE  Inv'
<1> DEFINE rtt == RoundTrip(p)
<1> DEFINE new == Recorded(rtt)
<1>1. /\ thread = "select" /\ thread' = thread /\ net' = Taken(p) /\ Adjust(p, FALSE)
      /\ source' = new /\ recent' = Latest(recent, rtt)
      /\ UNCHANGED <<pc, tries, quit, best, server, jumped>>
  BY DEF ThreadReceives, Latest, ownerVars, new, rtt
<1>2. rtt \in Int /\ Offset(p) \in Int /\ ClockTypes /\ RegisterTypes
  BY MeasuredTypes DEF Inv, Types, NetTypes
<1>3. /\ source.responded /\ Len(recent) \in 1 .. Slots
      /\ \A k \in 1 .. Len(recent) :
            source.delay[Back(source.index, k)] = recent[Len(recent) + 1 - k]
  BY <1>1 DEF Inv, Ring
<1>4. /\ recent' \in Seq(Int) /\ Len(recent') \in 2 .. Slots
      /\ \A k \in 1 .. Len(recent') :
            new.delay[Back(new.index, k)] = recent'[Len(recent') + 1 - k]
  <2>1. rtt \in Int /\ recent \in Seq(Int) /\ RegisterTypes
    BY <1>2 DEF ClockTypes
  <2> HIDE DEF rtt
  <2> QED
    BY <1>1, <1>3, <2>1, RingGoesOn DEF new
<1>5. new \in [responded : BOOLEAN, delay : [Places -> Int], index : Places, used : Places]
      /\ new.responded
  BY <1>2, <1>3, RecordedFields
<1> HIDE DEF new, rtt
<1>6. NetTypes'
  BY <1>1, TakenIsLess DEF Inv, Types, NetTypes
<1>7. epoch' \in Int
  BY <1>1, <1>2 DEF Adjust, ClockTypes
<1>8. OwnerTypes' /\ IdleTries'
  BY <1>1 DEF Inv, Types, OwnerTypes, IdleTries
<1>9. ClockTypes' /\ RegisterTypes'
  BY <1>1, <1>2, <1>4, <1>5, <1>7 DEF ClockTypes, RegisterTypes
<1>10. Fresh' /\ Negotiated'
  BY <1>1 DEF Inv, Types, OwnerTypes, Fresh, Negotiated
<1>11. Ring'
  BY <1>1, <1>4, <1>5, ConstantTypes, SMTT(60) DEF Ring
<1> QED
  BY <1>6, <1>8, <1>9, <1>10, <1>11 DEF Inv, Types

\* A request that is sent, or noted and not sent.
LEMMA SendKeepsInv ==
    ASSUME Inv, NegotiateSends \/ NegotiateSendFails \/ ThreadSends \/ ThreadSendFails
    PROVE  Inv'
<1>1. UNCHANGED <<thread, source, epoch, best, recent, server, jumped>>
  BY DEF NegotiateSends, NegotiateSendFails, ThreadSends, ThreadSendFails
<1>2. ClockTypes' /\ RegisterTypes' /\ Ring'
  BY <1>1 DEF Inv, Types, ClockTypes, RegisterTypes, Ring
<1>3. CASE NegotiateSends
  <2>1. NetTypes' /\ Fresh'
    BY <1>1, <1>3, RequestIsFresh DEF Inv, NegotiateSends, Fresh
  <2>2. pc = "send" /\ pc' = "wait" /\ tries' = [tries EXCEPT !.unsent = 0]
    BY <1>3 DEF NegotiateSends
  <2>3. OwnerTypes' /\ IdleTries' /\ tries'.good = tries.good
    BY <1>1, <2>2 DEF Inv, Types, OwnerTypes, IdleTries
  <2>4. Negotiated'
    BY <1>1, <2>2, <2>3 DEF Inv, Negotiated
  <2> QED
    BY <1>2, <2>1, <2>3, <2>4 DEF Inv, Types
<1>4. CASE NegotiateSendFails
  <2>1. UNCHANGED net /\ pc = "send"
        /\ \/ pc' = "open" /\ tries' = NoTries
           \/ pc' = "send" /\ tries' = [tries EXCEPT !.unsent = @ + 1]
    BY <1>4 DEF NegotiateSendFails, Leave
  <2>2. NetTypes' /\ Fresh'
    BY <2>1 DEF Inv, Types, NetTypes, Fresh
  <2>3. OwnerTypes' /\ IdleTries' /\ (pc' = "send" => tries'.good = tries.good)
    BY <1>1, <2>1 DEF Inv, Types, OwnerTypes, IdleTries, NoTries
  <2>4. Negotiated'
    BY <1>1, <2>1, <2>3 DEF Inv, Negotiated
  <2> QED
    BY <1>2, <2>2, <2>3, <2>4 DEF Inv, Types
<1>5. CASE ThreadSends \/ ThreadSendFails
  <2>1. thread = "select" /\ UNCHANGED <<pc, tries>>
    BY <1>5 DEF ThreadSends, ThreadSendFails, ownerVars
  <2>2. NetTypes'
    BY <1>1, <1>5, RequestIsFresh DEF Inv, Types, ThreadSends, ThreadSendFails, NetTypes
  <2>3. OwnerTypes' /\ IdleTries' /\ Fresh' /\ Negotiated'
    BY <1>1, <2>1 DEF Inv, Types, OwnerTypes, IdleTries, Fresh, Negotiated
  <2> QED
    BY <1>2, <2>2, <2>3 DEF Inv, Types
<1> QED
  BY <1>3, <1>4, <1>5

\* A reply that is ignored or lost.
LEMMA IgnoredKeepsInv ==
    ASSUME Inv, NEW p \in net, NegotiateIgnores(p) \/ ThreadIgnores(p) \/ Lose(p)
    PROVE  Inv'
<1>1. UNCHANGED <<pc, tries, thread, quit, last, source, epoch, best, recent, server, jumped>>
      /\ (net' = Taken(p) \/ net' = net \ {p})
  BY DEF NegotiateIgnores, ThreadIgnores, Lose, ownerVars, measureVars
<1>2. IsFiniteSet(net \ {p}) /\ Cardinality(net \ {p}) <= Window
  <2>1. IsFiniteSet(net) /\ Cardinality(net) \in Nat /\ Cardinality(net) <= Window
    BY FS_CardinalityType DEF Inv, Types, NetTypes
  <2> QED
    BY <2>1, FS_RemoveElement, ConstantTypes
<1>3. NetTypes' /\ \A q \in net' : \E r \in net :
         q.id = r.id /\ q.sentAt = r.sentAt /\ q.server = r.server
  <2>1. CASE net' = Taken(p)
    BY <2>1, TakenIsLess DEF Inv, Types, NetTypes
  <2>2. CASE net' = net \ {p}
    BY <1>2, <2>2 DEF Inv, Types, NetTypes
  <2> QED
    BY <1>1, <2>1, <2>2
<1>4. Fresh'
  BY <1>1, <1>3 DEF Inv, Fresh
<1>5. OwnerTypes' /\ ClockTypes' /\ RegisterTypes' /\ Negotiated' /\ IdleTries' /\ Ring'
  BY <1>1 DEF Inv, Types, OwnerTypes, ClockTypes, RegisterTypes, Negotiated, IdleTries, Ring
<1> QED
  BY <1>3, <1>4, <1>5 DEF Inv, Types

\* A negotiation that begins, waits in vain or ends without success.
LEMMA NegotiateKeepsInv ==
    ASSUME Inv, Negotiate \/ NegotiateTimesOut \/ NegotiateRefused
    PROVE  Inv'
<1>1. UNCHANGED <<thread, epoch, server, net>>
  BY DEF Negotiate, NegotiateTimesOut, NegotiateRefused, measureVars
<1>2. thread = "none" /\ pc' \in {"open", "send"}
  BY DEF Inv, Types, OwnerTypes, Negotiate, NegotiateTimesOut, NegotiateRefused, Leave
<1>3. NetTypes' /\ Fresh' /\ Ring'
  BY <1>1, <1>2 DEF Inv, Types, NetTypes, Fresh, Ring
<1>4. CASE Negotiate
  <2>1. /\ pc = "open" /\ pc' = "send" /\ source' = [source EXCEPT !.responded = FALSE]
        /\ jumped' = FALSE /\ best' = Unset /\ recent' = <<>> /\ UNCHANGED tries
    BY <1>4 DEF Negotiate
  <2>2. tries = NoTries /\ tries.good = 0
    BY <2>1 DEF Inv, IdleTries, NoTries
  <2>3. OwnerTypes' /\ IdleTries'
    BY <1>1, <1>2, <2>1 DEF Inv, Types, OwnerTypes, IdleTries
  <2>4. ClockTypes'
    BY <1>1, <2>1, ConstantTypes DEF Inv, Types, ClockTypes
  <2>5. RegisterTypes' /\ ~source'.responded
    BY <2>1 DEF Inv, Types, RegisterTypes
  <2>6. Negotiated'
    BY <2>1, <2>2, <2>5, ConstantTypes DEF Negotiated
  <2> QED
    BY <1>3, <2>3, <2>4, <2>5, <2>6 DEF Inv, Types
<1>5. CASE NegotiateTimesOut \/ NegotiateRefused
  <2>1. /\ pc = "wait" /\ UNCHANGED <<source, best, recent, jumped>>
        /\ \/ pc' = "open" /\ tries' = NoTries
           \/ pc' = "send" /\ tries' = [tries EXCEPT !.bad = @ + 1]
    BY <1>5 DEF NegotiateTimesOut, NegotiateRefused, Leave, measureVars
  <2>2. OwnerTypes' /\ IdleTries' /\ (pc' = "send" => tries'.good = tries.good)
    BY <1>1, <1>2, <2>1 DEF Inv, Types, OwnerTypes, IdleTries, NoTries
  <2>3. ClockTypes' /\ RegisterTypes'
    BY <1>1, <2>1 DEF Inv, Types, ClockTypes, RegisterTypes
  <2>4. Negotiated'
    BY <1>1, <2>1, <2>2 DEF Inv, Negotiated
  <2> QED
    BY <1>3, <2>2, <2>3, <2>4 DEF Inv, Types
<1> QED
  BY <1>4, <1>5

\* What does not touch the measurement: the rest of the owner's and the thread's
\* steps, and a jump of the device's clock.
LEMMA OtherStepsKeepInv ==
    ASSUME Inv, Initialize \/ Finalize \/ Join \/ ThreadQuits \/ ServerJumps \/ UNCHANGED vars
    PROVE  Inv'
<1>1. UNCHANGED <<tries, source, best, recent, net, last>>
  BY DEF Initialize, Finalize, Join, ThreadQuits, ServerJumps, vars, ownerVars, measureVars
<1>2. NetTypes' /\ RegisterTypes'
  BY <1>1 DEF Inv, Types, NetTypes, RegisterTypes
<1>3. OwnerTypes' /\ IdleTries'
  BY <1>1 DEF Inv, Types, OwnerTypes, IdleTries, Initialize, Finalize, Join, ThreadQuits,
              ServerJumps, vars, ownerVars
<1>4. ClockTypes'
  <2>1. epoch' \in {epoch, 0}
    BY DEF Initialize, Finalize, Join, ThreadQuits, ServerJumps, vars, measureVars
  <2>2. server' \in Servers \cup {server}
    BY DEF Initialize, Finalize, Join, ThreadQuits, ServerJumps, vars
  <2> QED
    BY <1>1, <2>1, <2>2, ConstantTypes DEF Inv, Types, ClockTypes
<1>5. Fresh' /\ Negotiated' /\ Ring'
  <2>1. CASE Initialize
    BY <1>1, <2>1 DEF Inv, Types, OwnerTypes, Fresh, Negotiated, Ring, Initialize
  <2>2. CASE Finalize \/ Join
    BY <1>1, <2>2 DEF Inv, Types, OwnerTypes, Fresh, Negotiated, Ring, Finalize, Join, measureVars
  <2>3. CASE ThreadQuits
    <3>1. thread' = "exited" /\ UNCHANGED <<pc, epoch, server, jumped>>
      BY <2>3 DEF ThreadQuits, ownerVars, measureVars
    <3> QED
      BY <1>1, <3>1 DEF Inv, Fresh, Negotiated, Ring
  <2>4. CASE ServerJumps
    BY <1>1, <2>4 DEF Inv, Types, OwnerTypes, Fresh, Negotiated, Ring, ServerJumps, ownerVars,
                      measureVars
  <2>5. CASE UNCHANGED vars
    <3>1. UNCHANGED <<thread, pc, epoch, server, jumped>>
      BY <2>5 DEF vars, ownerVars, measureVars
    <3> QED
      BY <1>1, <3>1 DEF Inv, Fresh, Negotiated, Ring
  <2> QED
    BY <2>1, <2>2, <2>3, <2>4, <2>5
<1> QED
  BY <1>2, <1>3, <1>4, <1>5 DEF Inv, Types

LEMMA NextKeepsInv == Inv /\ [Next]_vars => Inv'
<1> SUFFICES ASSUME Inv, [Next]_vars PROVE Inv'
  OBVIOUS
<1>1. CASE Initialize \/ Finalize \/ Join \/ ThreadQuits \/ ServerJumps \/ UNCHANGED vars
  BY <1>1, OtherStepsKeepInv
<1>2. CASE Negotiate \/ NegotiateTimesOut \/ NegotiateRefused
  BY <1>2, NegotiateKeepsInv
<1>3. CASE NegotiateSends \/ NegotiateSendFails \/ ThreadSends \/ ThreadSendFails
  BY <1>3, SendKeepsInv
<1>4. CASE \E p \in net : NegotiateReceives(p)
  BY <1>4, NegotiateReceivesKeepsInv
<1>5. CASE \E p \in net : ThreadReceives(p)
  BY <1>5, ThreadReceivesKeepsInv
<1>6. CASE \E p \in net : NegotiateIgnores(p) \/ ThreadIgnores(p) \/ Lose(p)
  BY <1>6, IgnoredKeepsInv
<1> QED
  BY <1>1, <1>2, <1>3, <1>4, <1>5, <1>6 DEF Next, Owner, TimingThread
----------------------------------------------------------------------------
LEMMA SpecInv == Spec => []Inv
BY InitInv, NextKeepsInv, PTL DEF Spec

\* A negotiation is worth its best measurement, and the register keeps the latest
\* ones, whatever replies were lost, late or doubled while each of them stepped
\* the clock (_TimingNegotiate, _TimingProcessResponse).
THEOREM BestMeasurementCounts == Spec => []BestCounts
<1>1. Inv => BestCounts
  <2> SUFFICES ASSUME Inv, thread = "select"
               PROVE  /\ Len(recent) = 1 /\ ~jumped => 2 * Magnitude(server - epoch) <= best
                      /\ \A i \in 1 .. Len(recent) : \E j \in Places : source.delay[j] = recent[i]
    BY DEF BestCounts
  <2>1. /\ Len(recent) \in 1 .. Slots /\ source.index \in Places /\ recent \in Seq(Int)
        /\ \A k \in 1 .. Len(recent) :
              source.delay[Back(source.index, k)] = recent[Len(recent) + 1 - k]
        /\ Len(recent) = 1 /\ ~jumped => 2 * Magnitude(server - epoch) <= best
    BY DEF Inv, Types, RegisterTypes, ClockTypes, Ring
  <2>2. ASSUME NEW i \in 1 .. Len(recent)
        PROVE  \E j \in Places : source.delay[j] = recent[i]
    <3> DEFINE k == Len(recent) + 1 - i
    <3>1. k \in 1 .. Len(recent) /\ k \in 1 .. Slots /\ Len(recent) + 1 - k = i
      BY <2>1, ConstantTypes, SMTT(60)
    <3> HIDE DEF k
    <3>2. source.delay[Back(source.index, k)] = recent[i]
      BY <2>1, <3>1
    <3>3. Back(source.index, k) \in Places
      BY <2>1, <3>1, BackIsAPlace
    <3> QED
      BY <3>2, <3>3
  <2> QED
    BY <2>1, <2>2
<1> QED
  BY <1>1, SpecInv, PTL

----------------------------------------------------------------------------
(* The jitter buffer *)

\* The end of the last packet.
Top == First + MaxPackets * D

\* Timestamps of the stream do not wrap, and "before" is told in half their range.
NoWrap == Top + L < Modulus /\ 2 * (MaxPackets * D + L) < Modulus

\* The nodes hold more than the high watermark of the buffer does.
EnoughNodes == Desired <= (Nodes - 3) * D

\* A packet starts at ts; a node as it was received; what is left of one, or what the
\* decoder gave of it; what is left of one that was not decoded.
Starts(ts) == \E k \in 0 .. MaxPackets - 1 : ts = First + k * D
Whole(n) == Starts(n.ts) /\ n.len = D
Part(n) == \E t : Starts(t) /\ t <= n.ts /\ n.ts < t + D /\ n.ts + n.len <= t + D
Undecoded(n) == n.len > 0 /\ (Starts(n.ts) => n.len = D)

\* From the given place on, nodes are at least as far apart as their places.
Spaced(list, from) ==
    \A i, j \in from .. Len(list) : i <= j => (j - i) * D <= list[j].ts - list[i].ts
Follows(list) ==
    \A i, j \in DOMAIN list : i < j => /\ list[i].ts < list[j].ts
                                       /\ list[i].ts + list[i].len <= list[j].ts

ReceivedOK(r) == r \in Seq(Node) /\ (\A i \in DOMAIN r : Whole(r[i])) /\ Spaced(r, 1)
PreparedOK(p) ==
    /\ p \in Seq(Node)
    /\ \A i \in DOMAIN p : /\ Part(p[i])
                           /\ i > 1 => Starts(p[i].ts)
                           /\ ~decoder => Undecoded(p[i])
    /\ Spaced(p, 2) /\ Follows(p)

\* The prepared list ends where the decode thread is, or before.
EndsBy(p, ts) == \A i \in DOMAIN p : p[i].ts < ts /\ p[i].ts + p[i].len <= ts
Apart(p, r) == \A i \in DOMAIN p, j \in DOMAIN r : p[i].ts < r[j].ts
StartsFrom(p, ts) == \A i \in DOMAIN p : ts <= p[i].ts
Has(r, ts) == \E i \in DOMAIN r : r[i].ts = ts

\* A list without some of its nodes.
Picks(q, list) ==
    \E f \in [DOMAIN q -> DOMAIN list] :
        /\ \A i \in DOMAIN q : q[i] = list[f[i]]
        /\ \A i, j \in DOMAIN q : i <= j => j - i <= f[j] - f[i]

ListsInv == /\ ReceivedOK(received) /\ PreparedOK(prepared)
            /\ EndsBy(prepared, nextDecodeTS)
            /\ dpc # "pass" => Apart(prepared, received)
TimesInv == /\ heard \in First .. Top /\ (heard = First \/ heard <= nextDecodeTS)
            /\ nextDecodeTS \in 0 .. Top
            /\ ~buffering => nextTS \in First .. Top
            /\ StartsFrom(prepared, heard)
DecodeInv == dpc = "decode" => decoder /\ decoding = nextDecodeTS /\ Has(received, decoding)
CountsInv == /\ free + nodesUsed + (IF rx = "idle" THEN 0 ELSE 1) = Nodes
             /\ fpc # "freed" => nodesUsed = Len(received) + Len(prepared)
             /\ fpc # "no" => rx = "idle"
             /\ fpc = "freed" => dpc = "exit"
BufferInv == BufferTypeOK /\ ListsInv /\ TimesInv /\ DecodeInv /\ CountsInv

LEMMA BufferConstants ==
    /\ D \in Nat \ {0} /\ L \in Nat \ {0} /\ Desired \in Nat /\ D <= Desired
    /\ Nodes \in Nat /\ Nodes > 3
    /\ Modulus \in Nat \ {0} /\ First \in Nat /\ First < Modulus /\ MaxPackets \in Nat
    /\ MaxPackets * D \in Nat /\ Top \in Nat
BY NodesAssumption, SizesAssumption, TSAssumption DEF Top

\* In the range of the stream the comparisons are those of the integers.
LEMMA PlainOrder ==
    ASSUME NoWrap, NEW a \in First .. Top + L, NEW b \in First .. Top + L
    PROVE  /\ Before(a, b) <=> a < b
           /\ UpTo(a, b) <=> a <= b
  <1>1. ModCmp(a, b, Modulus) = a - b
    <2>1. /\ a \in 0 .. Modulus - 1 /\ b \in 0 .. Modulus - 1
          /\ 2 * (a - b) < Modulus /\ 2 * (b - a) < Modulus
      BY BufferConstants DEF NoWrap, Top
    <2>. QED BY <2>1, BufferConstants, ModCmpNear
  <1>2. a \in Int /\ b \in Int
    BY BufferConstants
  <1>. QED BY <1>1, <1>2 DEF Before, UpTo, ModLT, ModLE

\* Where a sum does not wrap it is the sum, and a difference the difference.
LEMMA PlainPlus ==
    ASSUME NEW a \in Nat, NEW n \in Nat, a + n < Modulus
    PROVE  Plus(a, n) = a + n
  BY BufferConstants, ModSmall DEF Plus

LEMMA PlainMinus ==
    ASSUME NEW a \in TS, NEW b \in TS, b <= a
    PROVE  Minus(a, b) = a - b
  <1>1. a + Modulus - b \in Modulus .. 2 * Modulus - 1
    BY BufferConstants DEF TS
  <1>2. (a + Modulus - b) - Modulus = a - b
    BY BufferConstants DEF TS
  <1>. QED BY <1>1, <1>2, BufferConstants, ModCarry DEF Minus

\* Starts of packets are a packet apart.
LEMMA Products ==
    ASSUME NEW a \in Nat, NEW b \in Nat, a < b
    PROVE  a * D + D <= b * D
  <1>1. b - a - 1 \in Nat /\ D \in Nat
    BY BufferConstants
  <1>2. b * D = a * D + D + (b - a - 1) * D /\ (b - a - 1) * D \in Nat /\ a * D \in Nat
    BY <1>1
  <1>. QED BY <1>1, <1>2

LEMMA StartsRange ==
    ASSUME NEW t, Starts(t)
    PROVE  t \in Nat /\ First <= t /\ t + D <= Top
  <1>1. PICK k \in 0 .. MaxPackets - 1 : t = First + k * D
    BY DEF Starts
  <1>2. k \in Nat /\ k < MaxPackets
    BY BufferConstants
  <1>3. k * D + D <= MaxPackets * D /\ k * D \in Nat
    BY <1>2, BufferConstants, Products
  <1>. QED BY <1>1, <1>3, BufferConstants DEF Top

LEMMA StartsApart ==
    ASSUME NEW s, NEW t, Starts(s), Starts(t), s < t
    PROVE  s + D <= t
  <1>1. PICK j \in 0 .. MaxPackets - 1 : s = First + j * D
    BY DEF Starts
  <1>2. PICK k \in 0 .. MaxPackets - 1 : t = First + k * D
    BY DEF Starts
  <1>3. j \in Nat /\ k \in Nat /\ D \in Nat /\ j * D \in Nat /\ k * D \in Nat /\ First \in Nat
    BY BufferConstants
  <1>4. j < k
    <2>1. CASE k < j
      <3>1. k * D + D <= j * D
        BY <1>3, <2>1, Products
      <3>. QED BY <1>1, <1>2, <1>3, <3>1
    <2>2. CASE k = j
      BY <1>1, <1>2, <1>3, <2>2
    <2>. QED BY <1>3, <2>1, <2>2
  <1>5. j * D + D <= k * D
    BY <1>3, <1>4, Products
  <1>. QED BY <1>1, <1>2, <1>3, <1>5

LEMMA NodeTypes ==
    ASSUME NEW n \in Node
    PROVE  n.ts \in Nat /\ n.ts < Modulus /\ n.len \in Nat /\ n.len <= D /\ n.ts \in TS
  BY BufferConstants DEF Node, TS

\* What is left of a node is in the stream and ends before the next packet starts.
LEMMA PartRange ==
    ASSUME NEW n \in Node, Part(n)
    PROVE  /\ First <= n.ts /\ n.ts < Top /\ n.ts + n.len <= Top
           /\ \A t : Starts(t) /\ n.ts < t => n.ts + n.len <= t
  <1>1. PICK s : Starts(s) /\ s <= n.ts /\ n.ts < s + D /\ n.ts + n.len <= s + D
    BY DEF Part
  <1>2. s \in Nat /\ First <= s /\ s + D <= Top /\ D \in Nat \ {0} /\ Top \in Nat
        /\ First \in Nat
    BY <1>1, StartsRange, BufferConstants
  <1>3. n.ts \in Nat /\ n.len \in Nat /\ n.len <= D
    BY NodeTypes
  <1>4. ASSUME NEW t, Starts(t), n.ts < t PROVE n.ts + n.len <= t
    <2>1. t \in Nat
      BY <1>4, StartsRange
    <2>2. s < t
      BY <1>1, <1>2, <1>3, <1>4, <2>1
    <2>3. s + D <= t
      BY <1>1, <1>4, <2>2, StartsApart
    <2>. QED BY <1>1, <1>2, <1>3, <1>4, <2>1, <2>3
  <1>6. First <= n.ts /\ n.ts < Top /\ n.ts + n.len <= Top
    BY <1>1, <1>2, <1>3
  <1>. QED BY <1>4, <1>6

LEMMA WholeIsPart ==
    ASSUME NEW n \in Node, Whole(n)
    PROVE  Part(n) /\ First <= n.ts /\ n.ts + D <= Top
  <1>1. Starts(n.ts) /\ n.len = D
    BY DEF Whole
  <1>2. n.ts \in Nat /\ D \in Nat \ {0}
    BY NodeTypes, BufferConstants
  <1>3. n.ts <= n.ts /\ n.ts < n.ts + D /\ n.ts + n.len <= n.ts + D
    BY <1>1, <1>2
  <1>. QED BY <1>1, <1>3, StartsRange DEF Part

----------------------------------------------------------------------------
(* Places in a list *)

\* Min and Max of places.
LEMMA LeastPlace ==
    ASSUME NEW n \in Nat, NEW S \in SUBSET (0 .. n), S # {}
    PROVE  Min(S) \in S /\ \A x \in S : Min(S) <= x
  <1>. DEFINE Less == {ss \in Nat \X Nat : ss[1] < ss[2]}
  <1>1. IsWellFoundedOn(Less, Nat)
    BY NatLessThanWellFounded DEF OpToRel
  <1>2. S \subseteq Nat
    OBVIOUS
  <1>3. PICK x \in S : \A y \in S : <<y, x>> \notin Less
    BY <1>1, <1>2, WFMin
  <1>4. ASSUME NEW y \in S PROVE x <= y
    <2>1. x \in Nat /\ y \in Nat
      BY <1>2
    <2>2. y < x => <<y, x>> \in Less
      BY <2>1
    <2>. QED BY <1>3, <2>1, <2>2
  <1>. QED BY <1>4 DEF Min

LEMMA GreatestPlace ==
    ASSUME NEW n \in Nat, NEW S \in SUBSET (0 .. n), S # {}
    PROVE  Max(S) \in S /\ \A x \in S : x <= Max(S)
  <1>. DEFINE T == {n - x : x \in S}
  <1>1. T \in SUBSET (0 .. n) /\ T # {}
    <2>1. \A x \in S : n - x \in 0 .. n
      OBVIOUS
    <2>. QED BY <2>1
  <1>2. Min(T) \in T /\ \A y \in T : Min(T) <= y
    BY <1>1, LeastPlace
  <1>3. PICK x \in S : Min(T) = n - x
    BY <1>2
  <1>. HIDE DEF T
  <1>4. ASSUME NEW y \in S PROVE y <= x
    <2>1. n - y \in T
      BY DEF T
    <2>. QED BY <1>2, <1>3, <2>1
  <1>. QED BY <1>4 DEF Max

LEMMA MoreThan ==
    ASSUME NEW a \in Int, NEW b \in Int, a <= b
    PROVE  a * D <= b * D
  <1>1. b - a \in Nat /\ D \in Nat
    BY BufferConstants
  <1>2. b * D = a * D + (b - a) * D /\ (b - a) * D \in Nat /\ a * D \in Int
    BY <1>1
  <1>. QED BY <1>1, <1>2

\* What the code takes out of a list is picked from it: a suffix, all but one, or all but
\* those behind the head.
LEMMA PicksAll ==
    ASSUME NEW S, NEW list \in Seq(S)
    PROVE  Picks(list, list)
  <1>. DEFINE f == [i \in DOMAIN list |-> i]
  <1>1. /\ f \in [DOMAIN list -> DOMAIN list] /\ DOMAIN list = 1 .. Len(list)
        /\ \A i \in DOMAIN list : f[i] = i
    BY LenProperties
  <1>. HIDE DEF f
  <1>. QED BY <1>1 DEF Picks

LEMMA PicksSuffix ==
    ASSUME NEW S, NEW list \in Seq(S), NEW k \in 0 .. Len(list)
    PROVE  LET q == SubSeq(list, k + 1, Len(list))
           IN /\ q \in Seq(S) /\ Len(q) = Len(list) - k /\ Picks(q, list)
              /\ \A i \in 1 .. Len(list) - k : q[i] = list[i + k]
  <1>. DEFINE q == SubSeq(list, k + 1, Len(list))
              f == [i \in DOMAIN q |-> i + k]
  <1>1. /\ q \in Seq(S) /\ Len(q) = Len(list) - k /\ Len(list) \in Nat /\ k \in Nat
        /\ \A i \in 1 .. Len(list) - k : q[i] = list[i + k]
    OBVIOUS
  <1>2. DOMAIN q = 1 .. Len(list) - k /\ DOMAIN list = 1 .. Len(list)
    BY <1>1, LenProperties
  <1>. HIDE DEF q
  <1>3. f \in [DOMAIN q -> DOMAIN list] /\ \A i \in DOMAIN q : f[i] = i + k
    BY <1>1, <1>2
  <1>. HIDE DEF f
  <1>4. Picks(q, list)
    <2>1. \A i \in DOMAIN q : q[i] = list[f[i]]
      BY <1>1, <1>2, <1>3
    <2>2. \A i, j \in DOMAIN q : i <= j => j - i <= f[j] - f[i]
      BY <1>1, <1>2, <1>3
    <2>. QED BY <1>3, <2>1, <2>2 DEF Picks
  <1>. QED BY <1>1, <1>4 DEF q

LEMMA PicksRemove ==
    ASSUME NEW S, NEW list \in Seq(S), NEW k \in 1 .. Len(list)
    PROVE  LET q == RemoveAt(list, k)
           IN /\ q \in Seq(S) /\ Len(q) = Len(list) - 1 /\ Picks(q, list)
              /\ \A i \in 1 .. Len(list) - 1 : q[i] = IF i < k THEN list[i] ELSE list[i + 1]
  <1>. DEFINE a == SubSeq(list, 1, k - 1)
              b == SubSeq(list, k + 1, Len(list))
              q == a \o b
              f == [i \in DOMAIN q |-> IF i < k THEN i ELSE i + 1]
  <1>1. /\ a \in Seq(S) /\ Len(a) = k - 1 /\ Len(list) \in Nat /\ k \in Nat
        /\ \A i \in 1 .. k - 1 : a[i] = list[i]
    OBVIOUS
  <1>2. /\ b \in Seq(S) /\ Len(b) = Len(list) - k
        /\ \A i \in 1 .. Len(list) - k : b[i] = list[i + k]
    OBVIOUS
  <1>. HIDE DEF a, b
  <1>3. /\ q \in Seq(S) /\ Len(q) = Len(list) - 1
        /\ \A i \in 1 .. Len(list) - 1 : q[i] = IF i < k THEN list[i] ELSE list[i + 1]
    <2>1. q \in Seq(S) /\ Len(q) = Len(list) - 1
      <3>1. q \in Seq(S) /\ Len(q) = Len(a) + Len(b)
        BY <1>1, <1>2, ConcatProperties
      <3>. HIDE DEF q
      <3>. QED BY <1>1, <1>2, <3>1
    <2>2. ASSUME NEW i \in 1 .. Len(list) - 1
          PROVE  q[i] = IF i < k THEN list[i] ELSE list[i + 1]
      <3>1. CASE i < k
        BY <1>1, <1>2, <3>1
      <3>2. CASE ~(i < k)
        <4>1. i - (k - 1) \in 1 .. Len(list) - k /\ (i - (k - 1)) + k = i + 1
          BY <1>1, <3>2
        <4>2. q[i] = b[i - (k - 1)]
          BY <1>1, <1>2, <3>2
        <4>. QED BY <1>2, <3>2, <4>1, <4>2
      <3>. QED BY <3>1, <3>2
    <2>. QED BY <2>1, <2>2
  <1>. HIDE DEF q
  <1>4. DOMAIN q = 1 .. Len(list) - 1 /\ DOMAIN list = 1 .. Len(list)
    BY <1>3, LenProperties
  <1>5. f \in [DOMAIN q -> DOMAIN list] /\ \A i \in DOMAIN q : f[i] = IF i < k THEN i ELSE i + 1
    BY <1>1, <1>4
  <1>. HIDE DEF f
  <1>6. Picks(q, list)
    <2>1. \A i \in DOMAIN q : q[i] = list[f[i]]
      BY <1>3, <1>4, <1>5
    <2>2. \A i, j \in DOMAIN q : i <= j => j - i <= f[j] - f[i]
      BY <1>1, <1>4, <1>5
    <2>. QED BY <1>5, <2>1, <2>2 DEF Picks
  <1>7. RemoveAt(list, k) = q
    BY DEF RemoveAt, q, a, b
  <1>. QED BY <1>3, <1>6, <1>7

\* What is picked from a list keeps its order and its distances.
PicksBy(f, q, list) ==
    /\ f \in [1 .. Len(q) -> 1 .. Len(list)]
    /\ \A i \in 1 .. Len(q) : q[i] = list[f[i]] /\ i <= f[i]
    /\ \A i, j \in 1 .. Len(q) : i <= j => j - i <= f[j] - f[i]

\* What is picked from a list is as well formed as the list.
LEMMA PickedPlaces ==
    ASSUME NEW S, NEW list \in Seq(S), NEW q \in Seq(S), Picks(q, list)
    PROVE  \E f : PicksBy(f, q, list)
  <1>1. DOMAIN q = 1 .. Len(q) /\ DOMAIN list = 1 .. Len(list) /\ Len(q) \in Nat /\ Len(list) \in Nat
    BY LenProperties
  <1>2. PICK f \in [1 .. Len(q) -> 1 .. Len(list)] :
             /\ \A i \in 1 .. Len(q) : q[i] = list[f[i]]
             /\ \A i, j \in 1 .. Len(q) : i <= j => j - i <= f[j] - f[i]
    BY <1>1 DEF Picks
  <1>3. ASSUME NEW i \in 1 .. Len(q) PROVE i <= f[i]
    <2>1. 1 \in 1 .. Len(q) /\ 1 <= i
      BY <1>1
    <2>2. i - 1 <= f[i] - f[1] /\ f[1] \in 1 .. Len(list) /\ f[i] \in 1 .. Len(list)
      BY <1>2, <2>1
    <2>. QED BY <1>1, <2>2
  <1>. QED BY <1>2, <1>3 DEF PicksBy

LEMMA PicksReceived ==
    ASSUME NEW list, NEW q \in Seq(Node), ReceivedOK(list), Picks(q, list)
    PROVE  ReceivedOK(q)
  <1>1. list \in Seq(Node) /\ DOMAIN list = 1 .. Len(list) /\ DOMAIN q = 1 .. Len(q)
        /\ Len(list) \in Nat /\ Len(q) \in Nat
    BY LenProperties DEF ReceivedOK
  <1>2. PICK f : PicksBy(f, q, list)
    BY <1>1, PickedPlaces
  <1>3. \A i \in 1 .. Len(q) : f[i] \in 1 .. Len(list) /\ q[i] = list[f[i]] /\ i <= f[i]
    BY <1>2 DEF PicksBy
  <1>4. \A i, j \in 1 .. Len(q) : i <= j => j - i <= f[j] - f[i]
    BY <1>2 DEF PicksBy
  <1>5. \A i \in DOMAIN q : Whole(q[i])
    BY <1>1, <1>3 DEF ReceivedOK
  <1>6. ASSUME NEW i \in 1 .. Len(q), NEW j \in 1 .. Len(q), i <= j
        PROVE  (j - i) * D <= q[j].ts - q[i].ts
    <2>1. f[i] \in 1 .. Len(list) /\ f[j] \in 1 .. Len(list) /\ j - i <= f[j] - f[i]
          /\ f[i] <= f[j] /\ j - i \in Int /\ f[j] - f[i] \in Int
      BY <1>1, <1>3, <1>4, <1>6
    <2>2. (f[j] - f[i]) * D <= q[j].ts - q[i].ts
      BY <1>3, <2>1 DEF ReceivedOK, Spaced
    <2>3. (j - i) * D <= (f[j] - f[i]) * D
      BY <2>1, MoreThan
    <2>4. (f[j] - f[i]) * D \in Int /\ (j - i) * D \in Int
      BY <2>1, BufferConstants
    <2>5. q[i].ts \in Nat /\ q[j].ts \in Nat
      BY NodeTypes, ElementOfSeq
    <2>. QED BY <2>2, <2>3, <2>4, <2>5
  <1>. QED BY <1>5, <1>6 DEF ReceivedOK, Spaced

LEMMA PicksPrepared ==
    ASSUME NEW list, NEW q \in Seq(Node), PreparedOK(list), Picks(q, list)
    PROVE  /\ PreparedOK(q)
           /\ \A ts : EndsBy(list, ts) => EndsBy(q, ts)
           /\ \A ts : StartsFrom(list, ts) => StartsFrom(q, ts)
           /\ \A r : Apart(list, r) => Apart(q, r)
  <1>1. list \in Seq(Node) /\ DOMAIN list = 1 .. Len(list) /\ DOMAIN q = 1 .. Len(q)
        /\ Len(list) \in Nat /\ Len(q) \in Nat
    BY LenProperties DEF PreparedOK
  <1>2. PICK f : PicksBy(f, q, list)
    BY <1>1, PickedPlaces
  <1>3. \A i \in 1 .. Len(q) : f[i] \in 1 .. Len(list) /\ q[i] = list[f[i]] /\ i <= f[i]
    BY <1>2 DEF PicksBy
  <1>4. \A i, j \in 1 .. Len(q) : i <= j => j - i <= f[j] - f[i]
    BY <1>2 DEF PicksBy
  <1>5. ASSUME NEW i \in DOMAIN q
        PROVE  Part(q[i]) /\ (i > 1 => Starts(q[i].ts)) /\ (~decoder => Undecoded(q[i]))
    <2>1. f[i] \in DOMAIN list /\ (i > 1 => f[i] > 1) /\ q[i] = list[f[i]]
      BY <1>1, <1>3
    <2>. QED BY <2>1 DEF PreparedOK
  <1>6. ASSUME NEW i \in 2 .. Len(q), NEW j \in 2 .. Len(q), i <= j
        PROVE  (j - i) * D <= q[j].ts - q[i].ts
    <2>1. f[i] \in 2 .. Len(list) /\ f[j] \in 2 .. Len(list) /\ j - i <= f[j] - f[i]
          /\ f[i] <= f[j] /\ j - i \in Int /\ f[j] - f[i] \in Int
      BY <1>1, <1>3, <1>4, <1>6
    <2>2. q[i] = list[f[i]] /\ q[j] = list[f[j]]
      BY <1>1, <1>3
    <2>3. (f[j] - f[i]) * D <= q[j].ts - q[i].ts
      BY <2>1, <2>2 DEF PreparedOK, Spaced
    <2>4. (j - i) * D <= (f[j] - f[i]) * D
      BY <2>1, MoreThan
    <2>5. (f[j] - f[i]) * D \in Int /\ (j - i) * D \in Int
      BY <2>1, BufferConstants
    <2>6. q[i].ts \in Nat /\ q[j].ts \in Nat
      BY <1>1, NodeTypes, ElementOfSeq
    <2>. QED BY <2>3, <2>4, <2>5, <2>6
  <1>7. Follows(q)
    <2>1. ASSUME NEW i \in DOMAIN q, NEW j \in DOMAIN q, i < j
          PROVE  q[i].ts < q[j].ts /\ q[i].ts + q[i].len <= q[j].ts
      <3>1. f[i] \in DOMAIN list /\ f[j] \in DOMAIN list /\ f[i] < f[j]
            /\ q[i] = list[f[i]] /\ q[j] = list[f[j]]
        BY <1>1, <1>3, <1>4, <2>1
      <3>. QED BY <3>1 DEF PreparedOK, Follows
    <2>. QED BY <2>1 DEF Follows
  <1>8. \A i \in DOMAIN q : f[i] \in DOMAIN list /\ q[i] = list[f[i]]
    BY <1>1, <1>3
  <1>. QED BY <1>5, <1>6, <1>7, <1>8 DEF PreparedOK, Spaced, EndsBy, StartsFrom, Apart
----------------------------------------------------------------------------
(* The excess *)

Headed(list, m, k) == <<list[m]>> \o SubSeq(list, k + 2, Len(list))

LEMMA PicksHeaded ==
    ASSUME NEW S, NEW list \in Seq(S), NEW k \in 1 .. Len(list), NEW m \in 1 .. k
    PROVE  LET q == Headed(list, m, k)
           IN /\ q \in Seq(S) /\ Picks(q, list) /\ q[1] = list[m]
              /\ Len(q) = IF k = Len(list) THEN 1 ELSE Len(list) - k
  <1>. DEFINE b == SubSeq(list, k + 2, Len(list))
              q == <<list[m]>> \o b
              f == [i \in DOMAIN q |-> IF i = 1 THEN m ELSE k + i]
  <1>1. Len(list) \in Nat /\ k \in Nat /\ m \in Nat /\ k <= Len(list) /\ m <= k /\ 1 <= m
    OBVIOUS
  <1>2. /\ b \in Seq(S) /\ Len(b) = IF k = Len(list) THEN 0 ELSE Len(list) - k - 1
        /\ \A i \in 1 .. Len(b) : b[i] = list[k + 1 + i]
    <2>1. CASE k = Len(list)
      <3>1. b = <<>>
        BY <1>1, <2>1
      <3>. QED BY <2>1, <3>1
    <2>2. CASE k < Len(list)
      BY <1>1, <2>2
    <2>. QED BY <1>1, <2>1, <2>2
  <1>. HIDE DEF b
  <1>3. list[m] \in S
    BY <1>1, ElementOfSeq
  <1>4. /\ q \in Seq(S) /\ Len(q) = 1 + Len(b)
        /\ q[1] = list[m] /\ \A i \in 2 .. Len(q) : q[i] = b[i - 1]
    <2>1. <<list[m]>> \in Seq(S) /\ Len(<<list[m]>>) = 1 /\ <<list[m]>>[1] = list[m]
      BY <1>3
    <2>2. q \in Seq(S) /\ Len(q) = 1 + Len(b)
      BY <1>2, <2>1, ConcatProperties
    <2>3. Len(b) \in Nat
      BY <1>2, LenProperties
    <2>4. \A i \in 1 .. 1 + Len(b) : q[i] = IF i <= 1 THEN <<list[m]>>[i] ELSE b[i - 1]
      BY <1>2, <2>1, ConcatProperties
    <2>. QED BY <2>1, <2>2, <2>3, <2>4
  <1>. HIDE DEF q
  <1>5. /\ DOMAIN q = 1 .. Len(q) /\ DOMAIN list = 1 .. Len(list) /\ Len(q) \in Nat
        /\ \A i \in 2 .. Len(q) : q[i] = list[k + i] /\ k + i \in 1 .. Len(list)
    <2>1. DOMAIN q = 1 .. Len(q) /\ DOMAIN list = 1 .. Len(list) /\ Len(q) \in Nat
      BY <1>4, LenProperties
    <2>2. ASSUME NEW i \in 2 .. Len(q) PROVE q[i] = list[k + i] /\ k + i \in 1 .. Len(list)
      <3>1. k < Len(list) /\ Len(b) = Len(list) - k - 1 /\ i \in Nat /\ 2 <= i /\ i <= 1 + Len(b)
        <4>1. CASE k = Len(list)
          BY <1>2, <1>4, <4>1
        <4>2. CASE k # Len(list)
          BY <1>1, <1>2, <1>4, <4>2
        <4>. QED BY <4>1, <4>2
      <3>2. i - 1 \in 1 .. Len(b) /\ k + 1 + (i - 1) = k + i
        BY <1>1, <3>1
      <3>3. k + i \in 1 .. Len(list)
        BY <1>1, <3>1
      <3>. QED BY <1>2, <1>4, <3>2, <3>3
    <2>. QED BY <2>1, <2>2
  <1>6. f \in [DOMAIN q -> DOMAIN list] /\ \A i \in DOMAIN q : f[i] = IF i = 1 THEN m ELSE k + i
    BY <1>1, <1>5
  <1>. HIDE DEF f
  <1>7. Picks(q, list)
    <2>1. ASSUME NEW i \in DOMAIN q PROVE q[i] = list[f[i]]
      <3>1. CASE i = 1
        BY <1>4, <1>6, <3>1
      <3>2. CASE i # 1
        BY <1>5, <1>6, <3>2
      <3>. QED BY <3>1, <3>2
    <2>2. \A i, j \in DOMAIN q : i <= j => j - i <= f[j] - f[i]
      BY <1>1, <1>5, <1>6
    <2>. QED BY <1>6, <2>1, <2>2 DEF Picks
  <1>8. Len(q) = IF k = Len(list) THEN 1 ELSE Len(list) - k
    BY <1>1, <1>2, <1>4
  <1>. QED BY <1>4, <1>7, <1>8 DEF q, b, Headed

\* What is kept when the first k nodes are tossed: the one in the decoder stays.
LEMMA DropFirstPicks ==
    ASSUME NEW list \in Seq(Node), NEW k \in 0 .. Len(list)
    PROVE  LET q == DropFirst(list, k)
           IN /\ q \in Seq(Node) /\ Picks(q, list)
              /\ k < Len(list) => Len(q) = Len(list) - k
              /\ k = Len(list) => Len(q) <= 1
              /\ k = Len(list) /\ (\A i \in DOMAIN list : ~InDecoder(list[i])) => q = <<>>
              /\ (\E i \in DOMAIN list : InDecoder(list[i])) =>
                    \E i \in DOMAIN q : InDecoder(q[i])
  <1>. DEFINE held == {i \in 1 .. k : InDecoder(list[i])}
  <1>1. Len(list) \in Nat /\ k \in Nat /\ k <= Len(list) /\ DOMAIN list = 1 .. Len(list)
    BY LenProperties
  <1>2. Len(list) \in Nat /\ k \in Nat /\ k <= Len(list)
    BY <1>1
  <1>3. CASE held = {}
    <2>. DEFINE q == SubSeq(list, k + 1, Len(list))
    <2>1. DropFirst(list, k) = q
      BY <1>3 DEF DropFirst
    <2>2. /\ q \in Seq(Node) /\ Len(q) = Len(list) - k /\ Picks(q, list)
          /\ \A i \in 1 .. Len(list) - k : q[i] = list[i + k]
      BY PicksSuffix
    <2>. HIDE DEF q
    <2>3. ASSUME NEW i \in DOMAIN list, InDecoder(list[i])
          PROVE  \E j \in DOMAIN q : InDecoder(q[j])
      <3>1. i \notin 1 .. k
        BY <1>3, <2>3
      <3>2. i - k \in 1 .. Len(list) - k /\ (i - k) + k = i
        BY <1>1, <3>1
      <3>3. q[i - k] = list[i] /\ i - k \in DOMAIN q
        BY <2>2, <3>2, LenProperties
      <3>. QED BY <2>3, <3>3
    <2>4. k = Len(list) => q = <<>>
      BY <1>1, <2>2, EmptySeq
    <2>5. k < Len(list) => Len(q) = Len(list) - k
      BY <2>2
    <2>6. k = Len(list) => Len(q) <= 1
      <3>1. Len(q) = Len(list) - k
        BY <2>2
      <3>. QED BY <1>1, <3>1
    <2>. QED BY <2>1, <2>2, <2>3, <2>4, <2>5, <2>6
  <1>4. CASE held # {}
    <2>1. Min(held) \in held
      <3>1. held \in SUBSET (0 .. Len(list))
        BY <1>1
      <3>. HIDE DEF held
      <3>. QED BY <1>1, <1>4, <3>1, LeastPlace
    <2>. DEFINE m == Min(held)
                q == Headed(list, m, k)
    <2>2. DropFirst(list, k) = q
      BY <1>4 DEF DropFirst, Headed
    <2>3. m \in 1 .. k /\ InDecoder(list[m]) /\ k \in 1 .. Len(list)
      BY <1>1, <2>1
    <2>. HIDE DEF m
    <2>4. /\ q \in Seq(Node) /\ Picks(q, list) /\ q[1] = list[m]
          /\ Len(q) = IF k = Len(list) THEN 1 ELSE Len(list) - k
      BY <2>3, PicksHeaded
    <2>. HIDE DEF q
    <2>5. 1 \in DOMAIN q
      <3>1. Len(q) \in Nat /\ DOMAIN q = 1 .. Len(q)
        BY <2>4, LenProperties
      <3>2. Len(q) = IF k = Len(list) THEN 1 ELSE Len(list) - k
        BY <2>4
      <3>3. 1 <= Len(q)
        <4>1. CASE k = Len(list)
          BY <3>2, <4>1
        <4>2. CASE k # Len(list)
          BY <1>2, <3>2, <4>2
        <4>. QED BY <4>1, <4>2
      <3>. QED BY <3>1, <3>3
    <2>6. k < Len(list) => Len(q) = Len(list) - k
      <3>1. CASE k < Len(list)
        <4>1. k # Len(list)
          BY <1>2, <3>1
        <4>. QED BY <2>4, <4>1
      <3>. QED BY <3>1
    <2>7. k = Len(list) => Len(q) <= 1
      <3>1. CASE k = Len(list)
        <4>1. Len(q) = 1
          BY <2>4, <3>1
        <4>. QED BY <4>1
      <3>. QED BY <3>1
    <2>8. ~(\A i \in DOMAIN list : ~InDecoder(list[i]))
      BY <1>1, <2>3
    <2>9. \E i \in DOMAIN q : InDecoder(q[i])
      BY <2>3, <2>4, <2>5
    <2>. QED BY <2>2, <2>4, <2>6, <2>7, <2>8, <2>9
  <1>. QED BY <1>3, <1>4

LEMMA PicksLen ==
    ASSUME NEW S, NEW list \in Seq(S), NEW q \in Seq(S), Picks(q, list)
    PROVE  Len(q) <= Len(list)
  <1>1. Len(q) \in Nat /\ Len(list) \in Nat
    BY LenProperties
  <1>2. PICK f : PicksBy(f, q, list)
    BY PickedPlaces
  <1>3. CASE 1 <= Len(q)
    <2>1. Len(q) \in 1 .. Len(q)
      BY <1>1, <1>3
    <2>2. Len(q) <= f[Len(q)] /\ f[Len(q)] \in 1 .. Len(list)
      BY <1>2, <2>1 DEF PicksBy
    <2>. QED BY <1>1, <2>2
  <1>. QED BY <1>1, <1>3

LEMMA PicksApart ==
    ASSUME NEW p, NEW list, NEW q, Apart(p, list), Picks(q, list)
    PROVE  Apart(p, q)
  BY DEF Apart, Picks

\* What BufferedSamples computes.
LEMMA SpanIs ==
    ASSUME NEW list \in Seq(Node), NEW final \in Nat
    PROVE  /\ list = <<>> => Span(list, final) = 0
           /\ Len(list) = 1 => Span(list, final) = final
           /\ list # <<>> /\ list[1].ts <= list[Len(list)].ts
                => Span(list, final) = list[Len(list)].ts - list[1].ts + final
  <1>1. CASE list = <<>>
    <2>1. Len(list) = 0
      BY <1>1, EmptySeq
    <2>. QED BY <1>1, <2>1 DEF Span
  <1>2. CASE list # <<>>
    <2>1. Len(list) \in Nat /\ 1 <= Len(list)
      BY <1>2, EmptySeq
    <2>2. list[1] \in Node /\ list[Len(list)] \in Node
      BY <2>1, ElementOfSeq
    <2>3. list[1].ts \in TS /\ list[Len(list)].ts \in TS /\ list[1].ts \in Nat /\ list[Len(list)].ts \in Nat
      BY <2>2, NodeTypes
    <2>4. Span(list, final) = Minus(list[Len(list)].ts, list[1].ts) + final
      BY <1>2 DEF Span, Last
    <2>5. ASSUME list[1].ts <= list[Len(list)].ts
          PROVE  Span(list, final) = list[Len(list)].ts - list[1].ts + final
      BY <2>3, <2>4, <2>5, PlainMinus
    <2>6. ASSUME Len(list) = 1 PROVE Span(list, final) = final
      BY <2>3, <2>5, <2>6
    <2>. QED BY <1>2, <2>5, <2>6
  <1>. QED BY <1>1, <1>2

LEMMA SpanInt ==
    ASSUME NEW list \in Seq(Node), NEW final \in Nat
    PROVE  Span(list, final) \in Int
  <1>1. CASE list # <<>>
    <2>1. Len(list) \in Nat /\ 1 <= Len(list)
      BY <1>1, EmptySeq
    <2>2. list[1] \in Node /\ list[Len(list)] \in Node
      BY <2>1, ElementOfSeq
    <2>3. list[1].ts \in Nat /\ list[Len(list)].ts \in Nat
      BY <2>2, NodeTypes
    <2>4. list[Len(list)].ts + Modulus - list[1].ts \in Int
      BY <2>3, BufferConstants
    <2>5. Minus(list[Len(list)].ts, list[1].ts) \in Int
      BY <2>4, BufferConstants DEF Minus
    <2>. QED BY <1>1, <2>5 DEF Span, Last
  <1>. QED BY <1>1 DEF Span

\* Nodes that are alone.
LEMMA AloneFits ==
    ASSUME NEW p \in Seq(Node), NEW r \in Seq(Node), decoder \in BOOLEAN, Len(p) + Len(r) <= 1
    PROVE  Samples(p, r) <= Desired
  <1>1. Len(p) \in Nat /\ Len(r) \in Nat
    BY LenProperties
  <1>2. FramesPerPacket \in Nat /\ FramesPerPacket <= D
        /\ D \in Nat /\ Desired \in Nat /\ D <= Desired
    BY BufferConstants DEF FramesPerPacket
  <1>3. CASE p = <<>>
    <2>1. PreparedSamples(p) = 0
      BY <1>3 DEF PreparedSamples, Span
    <2>2. Span(r, FramesPerPacket) \in Nat /\ Span(r, FramesPerPacket) <= D
      <3>1. CASE r = <<>>
        <4>1. Span(r, FramesPerPacket) = 0
          BY <3>1 DEF Span
        <4>. QED BY <1>2, <4>1
      <3>2. CASE r # <<>>
        <4>1. Len(r) = 1
          <5>1. 1 <= Len(r)
            BY <3>2, EmptySeq
          <5>2. \A a, b \in Nat : a + b <= 1 /\ 1 <= b => b = 1
            OBVIOUS
          <5>. QED BY <1>1, <5>1, <5>2, Zenon
        <4>. QED BY <1>2, <4>1, SpanIs
      <3>. QED BY <3>1, <3>2
    <2>. QED BY <1>2, <2>1, <2>2 DEF Samples
  <1>4. CASE p # <<>>
    <2>1. Len(p) = 1 /\ Len(r) = 0
      <3>1. 1 <= Len(p)
        BY <1>4, EmptySeq
      <3>. QED BY <1>1, <3>1
    <2>2. r = <<>>
      BY <2>1, EmptySeq
    <2>3. Span(r, FramesPerPacket) = 0
      BY <2>2 DEF Span
    <2>4. Last(p).len \in Nat /\ Last(p).len <= D
      <3>1. p[1] \in Node
        BY <2>1, ElementOfSeq
      <3>. QED BY <2>1, <3>1, NodeTypes DEF Last
    <2>5. PreparedSamples(p) = Last(p).len
      BY <1>4, <2>1, <2>4, SpanIs DEF PreparedSamples
    <2>. QED BY <1>2, <2>3, <2>4, <2>5 DEF Samples
  <1>. QED BY <1>3, <1>4

\* The least number of nodes is tossed, of the prepared list first.
LEMMA PreparedKeptIs ==
    ASSUME prepared \in Seq(Node)
    PROVE  \E k \in 0 .. Len(prepared) :
             /\ PreparedKept = DropFirst(prepared, k)
             /\ Samples(PreparedKept, received) <= Desired \/ k = Len(prepared)
             /\ \A m \in 0 .. Len(prepared) :
                   Samples(DropFirst(prepared, m), received) <= Desired => k <= m
  <1>. DEFINE S == {k \in 0 .. Len(prepared) : Samples(DropFirst(prepared, k), received) <= Desired}
                      \union {Len(prepared)}
  <1>1. Len(prepared) \in Nat /\ S # {} /\ S \in SUBSET (0 .. Len(prepared))
    BY LenProperties
  <1>2. PreparedKept = DropFirst(prepared, Min(S))
    BY DEF PreparedKept, Fewest
  <1>3. \A m \in 0 .. Len(prepared) : Samples(DropFirst(prepared, m), received) <= Desired => m \in S
    OBVIOUS
  <1>4. \A m \in S : Samples(DropFirst(prepared, m), received) <= Desired \/ m = Len(prepared)
    OBVIOUS
  <1>. HIDE DEF S
  <1>5. Min(S) \in S /\ \A x \in S : Min(S) <= x
    BY <1>1, LeastPlace
  <1>. QED BY <1>1, <1>2, <1>3, <1>4, <1>5

LEMMA ReceivedKeptIs ==
    ASSUME received \in Seq(Node)
    PROVE  \E k \in 0 .. Len(received) :
             /\ ReceivedKept = DropFirst(received, k)
             /\ Samples(PreparedKept, ReceivedKept) <= Desired \/ k = Len(received)
             /\ \A m \in 0 .. Len(received) :
                   Samples(PreparedKept, DropFirst(received, m)) <= Desired => k <= m
  <1>. DEFINE S == {k \in 0 .. Len(received) : Samples(PreparedKept, DropFirst(received, k)) <= Desired}
                      \union {Len(received)}
  <1>1. Len(received) \in Nat /\ S # {} /\ S \in SUBSET (0 .. Len(received))
    BY LenProperties
  <1>2. ReceivedKept = DropFirst(received, Min(S))
    BY DEF ReceivedKept, Fewest
  <1>3. \A m \in 0 .. Len(received) : Samples(PreparedKept, DropFirst(received, m)) <= Desired => m \in S
    OBVIOUS
  <1>4. \A m \in S : Samples(PreparedKept, DropFirst(received, m)) <= Desired \/ m = Len(received)
    OBVIOUS
  <1>. HIDE DEF S
  <1>5. Min(S) \in S /\ \A x \in S : Min(S) <= x
    BY <1>1, LeastPlace
  <1>. QED BY <1>1, <1>2, <1>3, <1>4, <1>5

\* What the lists are without their excess.
KeptOK(p, r) ==
    /\ PreparedOK(p) /\ ReceivedOK(r)
    /\ EndsBy(p, nextDecodeTS) /\ StartsFrom(p, heard)
    /\ dpc # "pass" => Apart(p, r)
    /\ dpc = "decode" => Has(r, decoding)
    /\ Len(p) <= Len(prepared) /\ Len(r) <= Len(received)
    /\ Samples(p, r) <= Desired
    /\ 1 <= Len(prepared) + Len(received) => 1 <= Len(p) + Len(r)

LEMMA DropNone ==
    ASSUME NEW list \in Seq(Node)
    PROVE  DropFirst(list, 0) = list
  <1>1. {i \in 1 .. 0 : InDecoder(list[i])} = {}
    OBVIOUS
  <1>2. DropFirst(list, 0) = SubSeq(list, 1, Len(list))
    BY <1>1 DEF DropFirst
  <1>. QED BY <1>2, SubSeqFull

\* A toss leaves both lists well formed.
LEMMA KeptLists ==
    ASSUME BufferTypeOK, ListsInv, TimesInv, DecodeInv
    PROVE  KeptOK(PreparedKept, ReceivedKept)
  <1>1. prepared \in Seq(Node) /\ received \in Seq(Node) /\ decoder \in BOOLEAN
    BY DEF BufferTypeOK
  <1>2. Len(prepared) \in Nat /\ Len(received) \in Nat
    BY <1>1, LenProperties
  <1>3. PICK k \in 0 .. Len(prepared) :
             /\ PreparedKept = DropFirst(prepared, k)
             /\ Samples(PreparedKept, received) <= Desired \/ k = Len(prepared)
             /\ \A m \in 0 .. Len(prepared) :
                   Samples(DropFirst(prepared, m), received) <= Desired => k <= m
    BY <1>1, PreparedKeptIs
  <1>4. PICK m \in 0 .. Len(received) :
             /\ ReceivedKept = DropFirst(received, m)
             /\ Samples(PreparedKept, ReceivedKept) <= Desired \/ m = Len(received)
             /\ \A x \in 0 .. Len(received) :
                   Samples(PreparedKept, DropFirst(received, x)) <= Desired => m <= x
    BY <1>1, ReceivedKeptIs
  <1>. DEFINE p == PreparedKept
              r == ReceivedKept
  <1>5. /\ p \in Seq(Node) /\ Picks(p, prepared)
        /\ k < Len(prepared) => Len(p) = Len(prepared) - k
        /\ k = Len(prepared) /\ (\A i \in DOMAIN prepared : ~InDecoder(prepared[i])) => p = <<>>
    BY <1>1, <1>3, DropFirstPicks
  <1>6. /\ r \in Seq(Node) /\ Picks(r, received)
        /\ m < Len(received) => Len(r) = Len(received) - m
        /\ m = Len(received) => Len(r) <= 1
        /\ (\E i \in DOMAIN received : InDecoder(received[i])) =>
              \E i \in DOMAIN r : InDecoder(r[i])
    BY <1>1, <1>4, DropFirstPicks
  <1>7. Len(p) \in Nat /\ Len(r) \in Nat
    BY <1>5, <1>6, LenProperties
  <1>8. /\ PreparedOK(p) /\ EndsBy(p, nextDecodeTS) /\ StartsFrom(p, heard)
        /\ Apart(prepared, received) => Apart(p, received)
    BY <1>5, PicksPrepared DEF ListsInv, TimesInv
  <1>9. ReceivedOK(r)
    BY <1>6, PicksReceived DEF ListsInv
  <1>10. dpc # "pass" => Apart(p, r)
    BY <1>6, <1>8, PicksApart DEF ListsInv
  <1>11. dpc = "decode" => Has(r, decoding)
    BY <1>6 DEF DecodeInv, Has, InDecoder
  <1>12. \A i \in DOMAIN prepared : ~InDecoder(prepared[i])
    <2>1. ASSUME NEW i \in DOMAIN prepared, InDecoder(prepared[i]) PROVE FALSE
      <3>1. prepared[i].ts < nextDecodeTS /\ prepared[i].ts = nextDecodeTS
        BY <2>1 DEF ListsInv, EndsBy, DecodeInv, InDecoder
      <3>2. nextDecodeTS \in Nat
        BY BufferConstants DEF BufferTypeOK, TS
      <3>. QED BY <3>1, <3>2
    <2>. QED BY <2>1
  <1>13. Len(p) <= Len(prepared) /\ Len(r) <= Len(received)
    BY <1>1, <1>5, <1>6, PicksLen
  <1>14. Samples(p, r) <= Desired
    <2>1. CASE k = Len(prepared)
      <3>1. p = <<>>
        BY <1>5, <1>12, <2>1
      <3>2. CASE m = Len(received)
        <4>1. Len(p) = 0 /\ Len(r) <= 1
          BY <1>6, <3>1, <3>2, EmptySeq
        <4>2. Len(p) + Len(r) <= 1
          BY <1>7, <4>1
        <4>. HIDE DEF p, r
        <4>. QED BY <1>1, <1>5, <1>6, <4>2, AloneFits
      <3>. QED BY <1>4, <3>2
    <2>2. CASE Samples(p, received) <= Desired
      <3>1. DropFirst(received, 0) = received
        BY <1>1, DropNone
      <3>2. m <= 0
        BY <1>4, <1>2, <2>2, <3>1
      <3>3. m = 0
        BY <1>2, <3>2
      <3>. QED BY <1>4, <2>2, <3>1, <3>3
    <2>. QED BY <1>3, <2>1, <2>2
  <1>15. ASSUME 1 <= Len(prepared) + Len(received) PROVE 1 <= Len(p) + Len(r)
    <2>1. CASE Len(received) = 0
      <3>1. 1 <= Len(prepared) /\ Len(prepared) - 1 \in 0 .. Len(prepared)
            /\ Len(prepared) - 1 < Len(prepared) /\ Len(prepared) - (Len(prepared) - 1) = 1
        BY <1>2, <1>15, <2>1
      <3>. DEFINE q == DropFirst(prepared, Len(prepared) - 1)
      <3>2. q \in Seq(Node) /\ Len(q) = 1
        BY <1>1, <3>1, DropFirstPicks
      <3>. HIDE DEF q
      <3>3. Samples(q, received) <= Desired
        <4>1. Len(q) + Len(received) <= 1
          BY <2>1, <3>2
        <4>. QED BY <1>1, <3>2, <4>1, AloneFits
      <3>4. k <= Len(prepared) - 1
        BY <1>3, <3>1, <3>3 DEF q
      <3>5. k \in Nat /\ k < Len(prepared)
        BY <1>2, <3>4
      <3>6. Len(p) = Len(prepared) - k
        BY <1>5, <3>5
      <3>. HIDE DEF p, r
      <3>. QED BY <1>2, <1>7, <3>4, <3>5, <3>6
    <2>2. CASE Len(received) # 0 /\ Len(p) = 0
      <3>1. 1 <= Len(received) /\ Len(received) - 1 \in 0 .. Len(received)
            /\ Len(received) - 1 < Len(received) /\ Len(received) - (Len(received) - 1) = 1
        BY <1>2, <2>2
      <3>. DEFINE q == DropFirst(received, Len(received) - 1)
      <3>2. q \in Seq(Node) /\ Len(q) = 1
        BY <1>1, <3>1, DropFirstPicks
      <3>. HIDE DEF q
      <3>3. Samples(p, q) <= Desired
        <4>1. Len(p) + Len(q) <= 1
          BY <2>2, <3>2
        <4>. QED BY <1>1, <1>5, <3>2, <4>1, AloneFits
      <3>4. m <= Len(received) - 1
        BY <1>4, <3>1, <3>3 DEF q
      <3>5. m \in Nat /\ m < Len(received)
        BY <1>2, <3>4
      <3>6. Len(r) = Len(received) - m
        BY <1>6, <3>5
      <3>. HIDE DEF p, r
      <3>. QED BY <1>2, <1>7, <3>4, <3>5, <3>6
    <2>. HIDE DEF p, r
    <2>3. CASE Len(p) # 0
      BY <1>7, <2>3
    <2>. QED BY <2>1, <2>2, <2>3
  <1>. QED BY <1>8, <1>9, <1>10, <1>11, <1>13, <1>14, <1>15 DEF KeptOK

\* A list with n nodes holds about n packets.
LEMMA PreparedSpan ==
    ASSUME NEW p, PreparedOK(p), decoder \in BOOLEAN, 1 <= Len(p)
    PROVE  /\ PreparedSamples(p) \in Nat
           /\ (Len(p) - 2) * D + 1 <= PreparedSamples(p)
           /\ ~decoder => (Len(p) - 1) * D + 1 <= PreparedSamples(p)
  <1>. DEFINE n == Len(p)
  <1>1. p \in Seq(Node) /\ DOMAIN p = 1 .. n
    BY LenProperties DEF PreparedOK
  <1>2. n \in Nat /\ 1 <= n
    BY <1>1, LenProperties
  <1>. HIDE DEF n
  <1>3. p[1] \in Node /\ p[n] \in Node /\ 1 \in 1 .. n /\ n \in 1 .. n
    BY <1>1, <1>2, ElementOfSeq DEF n
  <1>4. p[1].ts \in Nat /\ p[n].ts \in Nat /\ p[n].len \in Nat /\ D \in Nat \ {0}
    BY <1>3, NodeTypes, BufferConstants
  <1>5. p # <<>>
    BY <1>2, EmptySeq DEF n
  <1>6. CASE n = 1
    <2>1. PreparedSamples(p) = p[1].len
      BY <1>1, <1>4, <1>5, <1>6, SpanIs DEF PreparedSamples, Last, n
    <2>2. ~decoder => p[1].len > 0
      BY <1>1, <1>3 DEF PreparedOK, Undecoded
    <2>3. (n - 2) * D + 1 <= 0 /\ (n - 1) * D + 1 = 1
      <3>1. (n - 2) * D = -D /\ (n - 1) * D = 0
        BY <1>4, <1>6
      <3>. QED BY <1>4, <3>1
    <2>. QED BY <1>4, <1>6, <2>1, <2>2, <2>3 DEF n
  <1>7. CASE n >= 2
    <2>1. 2 \in 2 .. n /\ n \in 2 .. n /\ 2 \in 1 .. n
      BY <1>2, <1>7
    <2>2. p[2].ts \in Nat
      BY <1>1, <2>1, ElementOfSeq, NodeTypes DEF n
    <2>3. p[1].ts < p[2].ts
      <3>1. 1 \in DOMAIN p /\ 2 \in DOMAIN p
        BY <1>1, <1>3, <2>1
      <3>. QED BY <3>1 DEF PreparedOK, Follows
    <2>4. (n - 2) * D <= p[n].ts - p[2].ts
      BY <1>2, <1>7, <2>1 DEF PreparedOK, Spaced, n
    <2>5. (n - 2) * D \in Nat /\ (n - 1) * D = (n - 2) * D + D
      <3>1. n - 2 \in Nat /\ n - 1 = (n - 2) + 1
        BY <1>2, <1>7
      <3>2. \A x \in Nat : x * D \in Nat /\ (x + 1) * D = x * D + D
        BY <1>4
      <3>. QED BY <3>1, <3>2
    <2>6. p[1].ts <= p[n].ts
      BY <1>4, <2>2, <2>3, <2>4, <2>5, SMTT(60)
    <2>7. PreparedSamples(p) = p[n].ts - p[1].ts + p[n].len
      BY <1>1, <1>4, <1>5, <2>6, SpanIs DEF PreparedSamples, Last, n
    <2>8. ~decoder => p[n].len = D
      <3>1. Starts(p[n].ts) /\ (~decoder => Undecoded(p[n]))
        BY <1>1, <1>2, <1>3, <1>7 DEF PreparedOK
      <3>. QED BY <3>1 DEF Undecoded
    <2>. QED BY <1>4, <2>2, <2>3, <2>4, <2>5, <2>6, <2>7, <2>8, SMTT(60) DEF n
  <1>8. n = 1 \/ n >= 2
    BY <1>2
  <1>. QED BY <1>6, <1>7, <1>8

LEMMA ReceivedSpan ==
    ASSUME NEW r, ReceivedOK(r), NEW final \in Nat, 1 <= Len(r)
    PROVE  (Len(r) - 1) * D + final <= Span(r, final)
  <1>. DEFINE n == Len(r)
  <1>1. r \in Seq(Node) /\ DOMAIN r = 1 .. n
    BY LenProperties DEF ReceivedOK
  <1>2. n \in Nat /\ 1 <= n
    BY <1>1, LenProperties
  <1>. HIDE DEF n
  <1>3. r[1] \in Node /\ r[n] \in Node /\ 1 \in 1 .. n /\ n \in 1 .. n
    BY <1>1, <1>2, ElementOfSeq DEF n
  <1>4. r[1].ts \in Nat /\ r[n].ts \in Nat /\ D \in Nat \ {0}
    BY <1>3, NodeTypes, BufferConstants
  <1>5. r # <<>>
    BY <1>2, EmptySeq DEF n
  <1>6. (n - 1) * D <= r[n].ts - r[1].ts
    BY <1>2, <1>3 DEF ReceivedOK, Spaced, n
  <1>7. (n - 1) * D \in Nat
    <2>1. n - 1 \in Nat
      BY <1>2
    <2>. QED BY <1>4, <2>1
  <1>8. Span(r, final) = r[n].ts - r[1].ts + final
    <2>1. r[1].ts <= r[n].ts
      BY <1>4, <1>6, <1>7
    <2>. QED BY <1>1, <1>5, <2>1, SpanIs DEF n
  <1>. QED BY <1>4, <1>6, <1>7, <1>8 DEF n

\* A buffer without excess has a node to spare, also when the decode thread holds one.
LEMMA CountBound ==
    ASSUME EnoughNodes, NEW p, NEW r, PreparedOK(p), ReceivedOK(r), decoder \in BOOLEAN,
           Samples(p, r) <= Desired
    PROVE  Len(p) + Len(r) <= Nodes - 2
  <1>. DEFINE x == Len(p)
              y == Len(r)
              P == PreparedSamples(p)
              R == Span(r, FramesPerPacket)
  <1>1. p \in Seq(Node) /\ r \in Seq(Node)
    BY DEF PreparedOK, ReceivedOK
  <1>2. x \in Nat /\ y \in Nat
    BY <1>1, LenProperties
  <1>3. D \in Nat \ {0} /\ Desired \in Nat /\ Nodes \in Nat /\ Nodes > 3
    BY BufferConstants
  <1>4. FramesPerPacket \in Nat /\ 1 <= FramesPerPacket /\ (decoder => FramesPerPacket = D)
    BY <1>3 DEF FramesPerPacket
  <1>5. x >= 1 => /\ P \in Nat /\ (x - 2) * D + 1 <= P
                  /\ ~decoder => (x - 1) * D + 1 <= P
    BY <1>2, PreparedSpan
  <1>6. x = 0 => P = 0
    <2>1. x = 0 => p = <<>>
      BY <1>1, EmptySeq
    <2>. QED BY <2>1 DEF PreparedSamples, Span
  <1>7. y >= 1 => (y - 1) * D + FramesPerPacket <= R
    BY <1>2, <1>4, ReceivedSpan
  <1>8. y = 0 => R = 0
    <2>1. y = 0 => r = <<>>
      BY <1>1, EmptySeq
    <2>. QED BY <2>1 DEF Span
  <1>9. P + R <= Desired
    BY DEF Samples
  <1>10. Desired <= (Nodes - 3) * D
    BY DEF EnoughNodes
  <1>11. R \in Int /\ P \in Int
    <2>1. R \in Int
      BY <1>1, <1>4, SpanInt
    <2>. QED BY <1>2, <1>5, <1>6, <2>1
  <1>. HIDE DEF x, y, P, R
  <1>12. \A a, b \in Int : (a + b) * D = a * D + b * D /\ a * D \in Int
    BY <1>3
  <1>13. (x + y - 2) * D = (x - 2) * D + y * D /\ (x - 1) * D = (x - 2) * D + D
         /\ (y - 1) * D = y * D - D /\ (x - 2) * D \in Int /\ y * D \in Int /\ (x + y - 2) * D \in Int
    <2>1. x - 2 \in Int /\ y \in Int /\ x + y - 2 = (x - 2) + y /\ x - 1 = (x - 2) + 1
          /\ y - 1 = y + (-1) /\ 1 * D = D /\ (-1) * D = -D /\ x + y - 2 \in Int
      BY <1>2, <1>3
    <2>2. (x + y - 2) * D = (x - 2) * D + y * D /\ (x - 2) * D \in Int /\ y * D \in Int
      BY <1>12, <2>1
    <2>3. (x - 1) * D = (x - 2) * D + 1 * D
      BY <1>12, <2>1
    <2>4. (y - 1) * D = y * D + (-1) * D
      BY <1>12, <2>1
    <2>. QED BY <1>12, <2>1, <2>2, <2>3, <2>4
  <1>14. ASSUME x + y >= 1 PROVE (x + y - 2) * D + 1 <= Desired
    <2>1. CASE x >= 1 /\ y >= 1
      BY <1>3, <1>4, <1>5, <1>7, <1>9, <1>11, <1>13, <2>1
    <2>2. CASE x >= 1 /\ y = 0
      <3>1. y * D = 0
        BY <1>3, <2>2
      <3>. QED BY <1>3, <1>5, <1>8, <1>9, <1>11, <1>13, <2>2, <3>1
    <2>3. CASE x = 0 /\ y >= 1
      <3>1. (x - 2) * D = -(2 * D)
        BY <1>3, <2>3
      <3>. QED BY <1>3, <1>4, <1>6, <1>7, <1>9, <1>11, <1>13, <2>3, <3>1
    <2>. QED BY <1>2, <1>14, <2>1, <2>2, <2>3
  <1>15. CASE x + y >= 1
    <2>1. ASSUME Nodes - 3 <= x + y - 2 PROVE FALSE
      <3>1. (Nodes - 3) * D <= (x + y - 2) * D
        BY <1>2, <1>3, <2>1, MoreThan
      <3>2. (Nodes - 3) * D \in Int
        BY <1>3, <1>12
      <3>. QED BY <1>3, <1>10, <1>13, <1>14, <1>15, <3>1, <3>2
    <2>2. x + y <= Nodes - 2
      BY <1>2, <1>3, <2>1
    <2>. QED BY <2>2 DEF x, y
  <1>16. CASE ~(x + y >= 1)
    <2>1. x + y <= Nodes - 2
      BY <1>2, <1>3, <1>16
    <2>. QED BY <2>1 DEF x, y
  <1>. QED BY <1>15, <1>16

----------------------------------------------------------------------------
(* The place of a packet *)

\* A node inserted into a list.
LEMMA InsertIs ==
    ASSUME NEW S, NEW list \in Seq(S), NEW e \in S, NEW k \in 1 .. Len(list) + 1
    PROVE  LET q == InsertAt(list, k, e)
           IN /\ q \in Seq(S) /\ Len(q) = Len(list) + 1
              /\ \A i \in 1 .. Len(list) + 1 :
                    q[i] = IF i < k THEN list[i] ELSE IF i = k THEN e ELSE list[i - 1]
  <1>. DEFINE a == SubSeq(list, 1, k - 1)
              b == SubSeq(list, k, Len(list))
              c == a \o <<e>>
              q == c \o b
  <1>1. /\ a \in Seq(S) /\ Len(a) = k - 1 /\ Len(list) \in Nat /\ k \in Nat /\ k <= Len(list) + 1
        /\ \A i \in 1 .. k - 1 : a[i] = list[i]
    OBVIOUS
  <1>2. /\ b \in Seq(S) /\ Len(b) = Len(list) + 1 - k
        /\ \A i \in 1 .. Len(list) + 1 - k : b[i] = list[i + k - 1]
    OBVIOUS
  <1>. HIDE DEF a, b
  <1>3. <<e>> \in Seq(S) /\ Len(<<e>>) = 1 /\ <<e>>[1] = e
    OBVIOUS
  <1>4. /\ c \in Seq(S) /\ Len(c) = k
        /\ \A i \in 1 .. k : c[i] = IF i < k THEN list[i] ELSE e
    <2>1. /\ c \in Seq(S) /\ Len(c) = Len(a) + 1
          /\ \A i \in 1 .. Len(a) + 1 : c[i] = IF i <= Len(a) THEN a[i] ELSE <<e>>[i - Len(a)]
      BY <1>1, <1>3, ConcatProperties
    <2>2. Len(a) + 1 = k
      BY <1>1
    <2>. HIDE DEF c
    <2>3. ASSUME NEW i \in 1 .. k PROVE c[i] = IF i < k THEN list[i] ELSE e
      <3>1. CASE i < k
        BY <1>1, <2>1, <2>2, <3>1
      <3>2. CASE i = k
        <4>1. ~(i <= Len(a)) /\ i - Len(a) = 1 /\ i \in 1 .. Len(a) + 1 /\ ~(i < k)
          BY <1>1, <3>2
        <4>. QED BY <1>3, <2>1, <4>1
      <3>. QED BY <1>1, <3>1, <3>2
    <2>. QED BY <2>1, <2>2, <2>3
  <1>. HIDE DEF c
  <1>5. /\ q \in Seq(S) /\ Len(q) = Len(c) + Len(b)
        /\ \A i \in 1 .. Len(c) + Len(b) : q[i] = IF i <= Len(c) THEN c[i] ELSE b[i - Len(c)]
    BY <1>2, <1>4, ConcatProperties
  <1>6. Len(c) + Len(b) = Len(list) + 1
    BY <1>1, <1>2, <1>4
  <1>. HIDE DEF q
  <1>7. ASSUME NEW i \in 1 .. Len(list) + 1
        PROVE  q[i] = IF i < k THEN list[i] ELSE IF i = k THEN e ELSE list[i - 1]
    <2>1. CASE i <= k
      <3>1. i \in 1 .. k /\ i <= Len(c)
        BY <1>1, <1>4, <2>1
      <3>2. q[i] = c[i]
        BY <1>5, <1>6, <3>1
      <3>. QED BY <1>1, <1>4, <3>1, <3>2
    <2>2. CASE ~(i <= k)
      <3>1. i - k \in 1 .. Len(list) + 1 - k /\ (i - k) + k - 1 = i - 1 /\ ~(i < k) /\ i # k
        BY <1>1, <2>2
      <3>2. q[i] = b[i - k]
        BY <1>4, <1>5, <1>6, <2>2
      <3>. QED BY <1>2, <3>1, <3>2
    <2>. QED BY <2>1, <2>2
  <1>8. InsertAt(list, k, e) = q
    BY DEF InsertAt, q, a, b, c
  <1>. QED BY <1>5, <1>6, <1>7, <1>8

\* Where a packet that is not refused belongs: after what is before it.
LEMMA PlaceIs ==
    ASSUME NoWrap, NEW p, NEW r, PreparedOK(p), ReceivedOK(r), Apart(p, r),
           NEW ts, Starts(ts), ~Refused(p, r, ts)
    PROVE  /\ Place(r, ts) \in 1 .. Len(r) + 1
           /\ \A i \in DOMAIN r : IF i < Place(r, ts) THEN r[i].ts < ts ELSE ts < r[i].ts
           /\ \A i \in DOMAIN p : p[i].ts < ts
  <1>. DEFINE N == NotAfter(r, ts)
              m == Max(N \union {0})
  <1>1. r \in Seq(Node) /\ Len(r) \in Nat /\ DOMAIN r = 1 .. Len(r)
    BY LenProperties DEF ReceivedOK
  <1>2. ts \in Nat /\ First <= ts /\ ts + D <= Top /\ ts \in First .. Top + L
    <2>1. ts \in Nat /\ First <= ts /\ ts + D <= Top
      BY StartsRange
    <2>. QED BY <2>1, BufferConstants
  <1>3. \A i \in DOMAIN r : r[i].ts \in Nat /\ Starts(r[i].ts) /\ r[i].ts \in First .. Top + L
    <2>1. ASSUME NEW i \in DOMAIN r PROVE r[i].ts \in Nat /\ Starts(r[i].ts) /\ r[i].ts \in First .. Top + L
      <3>1. Starts(r[i].ts)
        BY DEF ReceivedOK, Whole
      <3>2. r[i].ts \in Nat /\ First <= r[i].ts /\ r[i].ts + D <= Top
        BY <3>1, StartsRange
      <3>. QED BY <3>1, <3>2, BufferConstants
    <2>. QED BY <2>1
  <1>4. \A i \in DOMAIN r : i \in N <=> r[i].ts <= ts
    <2>1. \A i \in DOMAIN r : UpTo(r[i].ts, ts) <=> r[i].ts <= ts
      BY <1>2, <1>3, PlainOrder
    <2>. QED BY <2>1 DEF NotAfter
  <1>5. N \in SUBSET (0 .. Len(r)) /\ N \union {0} \in SUBSET (0 .. Len(r)) /\ N \subseteq DOMAIN r
    BY <1>1 DEF NotAfter
  <1>. HIDE DEF N
  <1>6. m \in N \union {0} /\ \A x \in N \union {0} : x <= m
    BY <1>1, <1>5, GreatestPlace
  <1>. HIDE DEF m
  <1>7. m \in 0 .. Len(r)
    BY <1>5, <1>6
  <1>8. Place(r, ts) = m + 1
    BY DEF Place, N, m
  <1>9. ASSUME NEW i \in DOMAIN r, ~(i < m + 1) PROVE ts < r[i].ts
    <2>1. i \notin N
      BY <1>1, <1>6, <1>7, <1>9
    <2>. QED BY <1>2, <1>3, <1>4, <2>1
  <1>10. ASSUME N # {} PROVE m \in N /\ r[m].ts < ts
    <2>1. Max(N) \in N /\ \A x \in N : x <= Max(N)
      BY <1>1, <1>5, <1>10, GreatestPlace
    <2>2. m \in N
      <3>1. Max(N) \in 1 .. Len(r) /\ Max(N) <= m
        BY <1>1, <1>5, <1>6, <2>1
      <3>. QED BY <1>1, <1>6, <1>7, <3>1
    <2>3. Max(N) = m
      <3>1. Max(N) <= m /\ m <= Max(N) /\ Max(N) \in Nat
        BY <1>1, <1>5, <1>6, <2>1, <2>2
      <3>. QED BY <1>7, <3>1
    <2>4. r[m].ts # ts
      BY <1>10, <2>3 DEF Refused, N
    <2>5. r[m].ts <= ts /\ r[m].ts \in Nat
      BY <1>3, <1>4, <1>5, <2>2
    <2>. QED BY <1>2, <2>2, <2>4, <2>5
  <1>11. ASSUME NEW i \in DOMAIN r, i < m + 1 PROVE r[i].ts < ts
    <2>1. m \in 1 .. Len(r) /\ i \in 1 .. Len(r) /\ i <= m
      BY <1>1, <1>7, <1>11
    <2>2. m \in N /\ r[m].ts < ts
      <3>1. N # {}
        BY <1>6, <2>1
      <3>. QED BY <1>10, <3>1
    <2>3. (m - i) * D <= r[m].ts - r[i].ts
      BY <2>1 DEF ReceivedOK, Spaced
    <2>4. (m - i) * D \in Nat
      <3>1. m - i \in Nat /\ D \in Nat
        BY <2>1, BufferConstants
      <3>. QED BY <3>1
    <2>. QED BY <1>1, <1>2, <1>3, <2>1, <2>2, <2>3, <2>4
  <1>12. ASSUME NEW i \in DOMAIN p PROVE p[i].ts < ts
    <2>1. p \in Seq(Node) /\ Len(p) \in Nat /\ DOMAIN p = 1 .. Len(p)
      BY LenProperties DEF PreparedOK
    <2>2. p[i].ts \in Nat
      BY <2>1, ElementOfSeq, NodeTypes
    <2>3. CASE N # {}
      <3>1. m \in N /\ r[m].ts < ts
        BY <1>10, <2>3
      <3>2. p[i].ts < r[m].ts /\ r[m].ts \in Nat
        BY <1>3, <1>5, <3>1 DEF Apart
      <3>. QED BY <1>2, <2>2, <3>1, <3>2
    <2>4. CASE N = {}
      <3>1. p # <<>> /\ Len(p) >= 1 /\ Len(p) \in DOMAIN p
        BY <2>1, EmptySeq
      <3>2. Before(Last(p).ts, ts)
        BY <2>4, <3>1 DEF Refused, N
      <3>3. p[Len(p)] \in Node /\ Part(p[Len(p)])
        BY <2>1, <3>1, ElementOfSeq DEF PreparedOK
      <3>4. First <= p[Len(p)].ts /\ p[Len(p)].ts < Top /\ p[Len(p)].ts \in Nat
        BY <3>3, PartRange, NodeTypes
      <3>5. p[Len(p)].ts \in First .. Top + L
        BY <3>4, BufferConstants
      <3>6. p[Len(p)].ts < ts
        BY <1>2, <3>2, <3>5, PlainOrder DEF Last
      <3>7. CASE i = Len(p)
        BY <3>6, <3>7
      <3>8. CASE i < Len(p)
        <4>1. p[i].ts < p[Len(p)].ts
          BY <3>1, <3>8 DEF PreparedOK, Follows
        <4>. QED BY <1>2, <2>2, <3>4, <3>6, <4>1
      <3>. QED BY <2>1, <3>7, <3>8
    <2>. QED BY <2>3, <2>4
  <1>13. m + 1 \in 1 .. Len(r) + 1
    BY <1>1, <1>7
  <1>. QED BY <1>8, <1>9, <1>11, <1>12, <1>13

\* Each change of a list keeps it well formed and the two lists apart.
LEMMA InsertKeeps ==
    ASSUME NoWrap, NEW p, NEW r, PreparedOK(p), ReceivedOK(r), Apart(p, r),
           NEW ts, Starts(ts), ~Refused(p, r, ts)
    PROVE  LET q == InsertAt(r, Place(r, ts), [ts |-> ts, len |-> D])
           IN /\ ReceivedOK(q) /\ Apart(p, q) /\ Len(q) = Len(r) + 1
              /\ \A x : Has(r, x) => Has(q, x)
  <1>. DEFINE n == Len(r)
              k == Place(r, ts)
              e == [ts |-> ts, len |-> D]
              q == InsertAt(r, k, e)
  <1>1. r \in Seq(Node) /\ n \in Nat /\ DOMAIN r = 1 .. n
    BY LenProperties DEF ReceivedOK
  <1>2. /\ k \in 1 .. n + 1
        /\ \A i \in DOMAIN r : IF i < k THEN r[i].ts < ts ELSE ts < r[i].ts
        /\ \A i \in DOMAIN p : p[i].ts < ts
    BY PlaceIs
  <1>3. ts \in Nat /\ ts \in TS /\ D \in Nat \ {0}
    BY StartsRange, BufferConstants DEF NoWrap, TS
  <1>4. e \in Node /\ e.ts = ts /\ e.len = D
    BY <1>3 DEF Node
  <1>. HIDE DEF e
  <1>5. /\ q \in Seq(Node) /\ Len(q) = n + 1
        /\ \A i \in 1 .. n + 1 : q[i] = IF i < k THEN r[i] ELSE IF i = k THEN e ELSE r[i - 1]
    <2>. HIDE DEF k
    <2>1. r \in Seq(Node) /\ k \in 1 .. Len(r) + 1 /\ e \in Node
      BY <1>1, <1>2, <1>4
    <2>. QED BY <2>1, InsertIs
  <1>. HIDE DEF q, k
  <1>6. DOMAIN q = 1 .. n + 1 /\ k \in Nat /\ 1 <= k /\ k <= n + 1
    BY <1>1, <1>2, <1>5, LenProperties
  <1>. HIDE DEF n
  <1>7. \A i \in 1 .. n : r[i].ts \in Nat /\ Starts(r[i].ts) /\ Whole(r[i])
    <2>1. \A i \in 1 .. n : Whole(r[i]) /\ Starts(r[i].ts)
      BY <1>1 DEF ReceivedOK, Whole
    <2>. QED BY <2>1, StartsRange
  <1>8. \A i, j \in 1 .. n : i <= j => (j - i) * D <= r[j].ts - r[i].ts
    BY DEF ReceivedOK, Spaced, n
  <1>9. \A a, b \in Int : (a + b) * D = a * D + b * D /\ a * D \in Int /\ 1 * D = D /\ 0 * D = 0
    BY <1>3
  <1>10. \A a \in Int : (a + 1) * D = a * D + D /\ a * D \in Int
    BY <1>3
  <1>11. ASSUME NEW i \in 1 .. n, i < k PROVE (k - i) * D <= ts - r[i].ts
    <2>1. k - 1 \in 1 .. n /\ i <= k - 1 /\ k - 1 < k /\ (k - 1) - i \in Int
          /\ k - i = ((k - 1) - i) + 1
      BY <1>1, <1>6, <1>11
    <2>2. r[k - 1].ts + D <= ts
      <3>1. r[k - 1].ts < ts
        BY <1>1, <1>2, <2>1
      <3>. QED BY <1>7, <2>1, <3>1, StartsApart
    <2>3. ((k - 1) - i) * D <= r[k - 1].ts - r[i].ts
      BY <1>8, <2>1
    <2>4. (k - i) * D = ((k - 1) - i) * D + D /\ ((k - 1) - i) * D \in Int
      BY <1>10, <2>1, Zenon
    <2>5. r[k - 1].ts \in Nat /\ r[i].ts \in Nat
      BY <1>7, <2>1
    <2>. QED BY <1>3, <2>2, <2>3, <2>4, <2>5
  <1>12. ASSUME NEW j \in 1 .. n, k <= j PROVE (j + 1 - k) * D <= r[j].ts - ts
    <2>1. k \in 1 .. n /\ j - k \in Int /\ j + 1 - k = (j - k) + 1 /\ ~(k < k)
      BY <1>1, <1>6, <1>12
    <2>2. ts + D <= r[k].ts
      <3>1. ts < r[k].ts
        BY <1>1, <1>2, <2>1
      <3>. QED BY <1>7, <2>1, <3>1, StartsApart
    <2>3. (j - k) * D <= r[j].ts - r[k].ts
      BY <1>8, <1>12, <2>1
    <2>4. (j + 1 - k) * D = (j - k) * D + D /\ (j - k) * D \in Int
      BY <1>10, <2>1, Zenon
    <2>5. r[k].ts \in Nat /\ r[j].ts \in Nat
      BY <1>7, <2>1
    <2>. QED BY <1>3, <2>2, <2>3, <2>4, <2>5
  <1>13. \A i \in DOMAIN q : Whole(q[i])
    <2>1. ASSUME NEW i \in 1 .. n + 1 PROVE Whole(q[i])
      <3>1. CASE i < k
        <4>1. q[i] = r[i] /\ i \in 1 .. n
          BY <1>1, <1>5, <1>6, <3>1
        <4>. QED BY <1>7, <4>1
      <3>2. CASE i = k
        BY <1>4, <1>5, <3>2 DEF Whole
      <3>3. CASE i > k
        <4>1. q[i] = r[i - 1] /\ i - 1 \in 1 .. n
          BY <1>1, <1>5, <1>6, <3>3
        <4>. QED BY <1>7, <4>1
      <3>. QED BY <1>6, <3>1, <3>2, <3>3
    <2>. QED BY <1>6, <2>1
  <1>14. ASSUME NEW i \in 1 .. n + 1, NEW j \in 1 .. n + 1, i <= j
         PROVE  (j - i) * D <= q[j].ts - q[i].ts
    <2>1. CASE j < k
      <3>1. q[i] = r[i] /\ q[j] = r[j] /\ i \in 1 .. n /\ j \in 1 .. n
        BY <1>1, <1>5, <1>6, <1>14, <2>1
      <3>. QED BY <1>8, <1>14, <3>1
    <2>2. CASE k < i
      <3>1. q[i] = r[i - 1] /\ q[j] = r[j - 1] /\ i - 1 \in 1 .. n /\ j - 1 \in 1 .. n
            /\ i - 1 <= j - 1 /\ (j - 1) - (i - 1) = j - i
        BY <1>1, <1>5, <1>6, <1>14, <2>2
      <3>. QED BY <1>8, <3>1
    <2>3. CASE i < k /\ j = k
      <3>1. q[i] = r[i] /\ q[j].ts = ts /\ i \in 1 .. n
        BY <1>1, <1>4, <1>5, <1>6, <2>3
      <3>. QED BY <1>11, <2>3, <3>1
    <2>4. CASE i = k /\ j = k
      <3>1. j - i = 0 /\ q[i].ts = ts /\ q[j].ts = ts
        BY <1>4, <1>5, <1>6, <2>4
      <3>. QED BY <1>3, <1>9, <3>1
    <2>5. CASE i = k /\ k < j
      <3>1. q[i].ts = ts /\ q[j] = r[j - 1] /\ j - 1 \in 1 .. n /\ k <= j - 1
            /\ (j - 1) + 1 - k = j - i
        BY <1>1, <1>4, <1>5, <1>6, <2>5
      <3>. QED BY <1>12, <3>1
    <2>6. CASE i < k /\ k < j
      <3>1. q[i] = r[i] /\ i \in 1 .. n
        BY <1>1, <1>5, <1>6, <2>6
      <3>2. q[j] = r[j - 1] /\ j - 1 \in 1 .. n /\ k <= j - 1
            /\ (j - 1) + 1 - k = j - k
        BY <1>1, <1>5, <1>6, <2>6
      <3>3. (k - i) * D <= ts - r[i].ts
        BY <1>11, <2>6, <3>1
      <3>4. (j - k) * D <= r[j - 1].ts - ts
        BY <1>12, <3>2
      <3>5. (j - i) * D = (j - k) * D + (k - i) * D /\ (j - k) * D \in Int /\ (k - i) * D \in Int
        <4>1. j - k \in Int /\ k - i \in Int /\ j - i = (j - k) + (k - i)
          BY <1>1, <1>6
        <4>. QED BY <1>9, <4>1
      <3>6. r[i].ts \in Nat /\ r[j - 1].ts \in Nat
        BY <1>7, <3>1, <3>2
      <3>. QED BY <1>3, <3>1, <3>2, <3>3, <3>4, <3>5, <3>6
    <2>7. j < k \/ k < i \/ (i < k /\ j = k) \/ (i = k /\ j = k) \/ (i = k /\ k < j) \/ (i < k /\ k < j)
      BY <1>1, <1>6, <1>14
    <2>. QED BY <2>1, <2>2, <2>3, <2>4, <2>5, <2>6, <2>7
  <1>15. ReceivedOK(q)
    BY <1>5, <1>13, <1>14 DEF ReceivedOK, Spaced
  <1>16. \A j \in 1 .. n + 1 : q[j].ts = ts \/ \E i \in DOMAIN r : q[j] = r[i]
    <2>1. ASSUME NEW i \in 1 .. n + 1 PROVE q[i].ts = ts \/ \E j \in DOMAIN r : q[i] = r[j]
      <3>1. CASE i < k
        <4>1. q[i] = r[i] /\ i \in 1 .. n
          BY <1>1, <1>5, <1>6, <3>1
        <4>. QED BY <1>1, <4>1
      <3>2. CASE i = k
        BY <1>4, <1>5, <3>2
      <3>3. CASE i > k
        <4>1. q[i] = r[i - 1] /\ i - 1 \in 1 .. n
          BY <1>1, <1>5, <1>6, <3>3
        <4>. QED BY <1>1, <4>1
      <3>. QED BY <1>6, <3>1, <3>2, <3>3
    <2>. QED BY <2>1
  <1>17. Apart(p, q)
    BY <1>2, <1>6, <1>16 DEF Apart
  <1>18. ASSUME NEW x, Has(r, x) PROVE Has(q, x)
    <2>1. PICK i \in 1 .. n : r[i].ts = x
      BY <1>1, <1>18 DEF Has
    <2>2. CASE i < k
      <3>1. q[i] = r[i] /\ i \in DOMAIN q
        BY <1>1, <1>5, <1>6, <2>2
      <3>. QED BY <2>1, <3>1 DEF Has
    <2>3. CASE k <= i
      <3>1. i + 1 \in 1 .. n + 1 /\ ~(i + 1 < k) /\ i + 1 # k /\ (i + 1) - 1 = i
        BY <1>1, <1>6, <2>3
      <3>2. q[i + 1] = r[i] /\ i + 1 \in DOMAIN q
        BY <1>5, <1>6, <3>1
      <3>. QED BY <2>1, <3>2 DEF Has
    <2>. QED BY <1>6, <2>2, <2>3
  <1>. QED BY <1>5, <1>15, <1>17, <1>18 DEF n, k, e, q

----------------------------------------------------------------------------
(* From the received to the prepared list *)

LEMMA AppendKeeps ==
    ASSUME NEW p, PreparedOK(p), NEW ts, Starts(ts), EndsBy(p, ts),
           NEW n \in Node, n.ts = ts, n.len = D \/ decoder
    PROVE  LET q == Append(p, n)
           IN /\ PreparedOK(q) /\ EndsBy(q, ts + D) /\ Len(q) = Len(p) + 1
              /\ \A h \in Nat : StartsFrom(p, h) /\ h <= ts => StartsFrom(q, h)
  <1>. DEFINE m == Len(p)
              q == Append(p, n)
  <1>1. p \in Seq(Node) /\ m \in Nat /\ DOMAIN p = 1 .. m
    BY LenProperties DEF PreparedOK
  <1>2. ts \in Nat /\ D \in Nat \ {0} /\ n.len \in Nat /\ n.len <= D
    BY StartsRange, BufferConstants, NodeTypes
  <1>3. q \in Seq(Node) /\ Len(q) = m + 1 /\ (\A i \in 1 .. m : q[i] = p[i]) /\ q[m + 1] = n
    BY <1>1, AppendProperties
  <1>. HIDE DEF q
  <1>4. DOMAIN q = 1 .. m + 1
    BY <1>3, LenProperties
  <1>. HIDE DEF m
  <1>5. \A i \in 1 .. m : /\ q[i] = p[i] /\ Part(p[i]) /\ (i > 1 => Starts(p[i].ts))
                          /\ (~decoder => Undecoded(p[i]))
                          /\ p[i].ts < ts /\ p[i].ts + p[i].len <= ts
    BY <1>1, <1>3 DEF PreparedOK, EndsBy
  <1>6. \A i \in 1 .. m : p[i].ts \in Nat /\ p[i].len \in Nat
    BY <1>1, ElementOfSeq, NodeTypes DEF m
  <1>7. Part(n)
    <2>1. Starts(ts) /\ ts <= n.ts /\ n.ts < ts + D /\ n.ts + n.len <= ts + D
      BY <1>2
    <2>. QED BY <2>1 DEF Part
  <1>8. ~decoder => Undecoded(n)
    BY <1>2 DEF Undecoded
  <1>9. \A i \in DOMAIN q : i \in 1 .. m \/ i = m + 1
    BY <1>1, <1>4
  <1>10. ASSUME NEW i \in DOMAIN q
         PROVE  Part(q[i]) /\ (i > 1 => Starts(q[i].ts)) /\ (~decoder => Undecoded(q[i]))
    BY <1>3, <1>5, <1>7, <1>8, <1>9
  <1>11. ASSUME NEW i \in 2 .. m + 1, NEW j \in 2 .. m + 1, i <= j
         PROVE  (j - i) * D <= q[j].ts - q[i].ts
    <2>1. CASE j <= m
      <3>1. i \in 2 .. m /\ j \in 2 .. m /\ q[i] = p[i] /\ q[j] = p[j]
        BY <1>1, <1>3, <1>11, <2>1
      <3>. QED BY <1>11, <3>1 DEF PreparedOK, Spaced, m
    <2>2. CASE i = m + 1 /\ j = m + 1
      <3>1. (j - i) * D = 0 /\ q[i].ts = ts /\ q[j].ts = ts
        BY <1>1, <1>2, <1>3, <2>2
      <3>. QED BY <1>2, <3>1
    <2>3. CASE i <= m /\ j = m + 1
      <3>1. i \in 2 .. m /\ m \in 2 .. m /\ m \in 1 .. m /\ i \in 1 .. m /\ m > 1
            /\ m - i \in Int /\ j - i = (m - i) + 1
        BY <1>1, <1>11, <2>3
      <3>2. (m - i) * D <= p[m].ts - p[i].ts
        BY <3>1 DEF PreparedOK, Spaced, m
      <3>3. p[m].ts + D <= ts
        BY <1>5, <3>1, StartsApart
      <3>4. \A a \in Int : (a + 1) * D = a * D + D /\ a * D \in Int
        BY <1>2
      <3>5. (j - i) * D = (m - i) * D + D /\ (m - i) * D \in Int
        BY <3>1, <3>4, Zenon
      <3>6. q[j].ts = ts /\ q[i] = p[i] /\ p[i].ts \in Nat /\ p[m].ts \in Nat
        BY <1>3, <1>6, <2>3, <3>1
      <3>. QED BY <1>2, <3>2, <3>3, <3>5, <3>6
    <2>. QED BY <1>1, <1>11, <2>1, <2>2, <2>3
  <1>12. Follows(q)
    <2>1. ASSUME NEW i \in DOMAIN q, NEW j \in DOMAIN q, i < j
          PROVE  q[i].ts < q[j].ts /\ q[i].ts + q[i].len <= q[j].ts
      <3>1. i \in 1 .. m /\ q[i] = p[i] /\ i \in DOMAIN p
        BY <1>1, <1>3, <1>4, <2>1
      <3>2. CASE j = m + 1
        BY <1>3, <1>5, <3>1, <3>2
      <3>3. CASE j \in 1 .. m
        <4>1. q[j] = p[j] /\ j \in DOMAIN p
          BY <1>1, <1>3, <3>3
        <4>. QED BY <2>1, <3>1, <4>1 DEF PreparedOK, Follows
      <3>. QED BY <1>9, <3>2, <3>3
    <2>. QED BY <2>1 DEF Follows
  <1>13. Spaced(q, 2)
    BY <1>3, <1>11 DEF Spaced
  <1>14. PreparedOK(q)
    BY <1>3, <1>10, <1>12, <1>13 DEF PreparedOK
  <1>15. EndsBy(q, ts + D)
    <2>1. ASSUME NEW i \in DOMAIN q PROVE q[i].ts < ts + D /\ q[i].ts + q[i].len <= ts + D
      <3>1. CASE i = m + 1
        BY <1>2, <1>3, <3>1
      <3>2. CASE i \in 1 .. m
        <4>1. q[i] = p[i] /\ p[i].ts < ts /\ p[i].ts + p[i].len <= ts
          BY <1>5, <3>2
        <4>2. p[i].ts \in Nat /\ p[i].len \in Nat
          BY <1>6, <3>2
        <4>. QED BY <1>2, <4>1, <4>2
      <3>. QED BY <1>9, <3>1, <3>2
    <2>. QED BY <2>1 DEF EndsBy
  <1>16. ASSUME NEW h \in Nat, StartsFrom(p, h), h <= ts PROVE StartsFrom(q, h)
    BY <1>1, <1>3, <1>9, <1>16 DEF StartsFrom
  <1>. QED BY <1>3, <1>14, <1>15, <1>16 DEF m, q

LEMMA WithoutKeeps ==
    ASSUME NEW r, ReceivedOK(r), NEW ts, Has(r, ts)
    PROVE  LET q == Without(r, ts)
           IN /\ ReceivedOK(q) /\ Len(q) = Len(r) - 1 /\ 1 <= Len(r)
              /\ \A p : Apart(p, r) => Apart(p, q)
  <1>. DEFINE k == CHOOSE i \in DOMAIN r : r[i].ts = ts
  <1>1. r \in Seq(Node) /\ DOMAIN r = 1 .. Len(r) /\ Len(r) \in Nat
    BY LenProperties DEF ReceivedOK
  <1>2. k \in 1 .. Len(r)
    BY <1>1 DEF Has
  <1>. HIDE DEF k
  <1>3. 1 <= Len(r)
    BY <1>1, <1>2
  <1>. DEFINE q == RemoveAt(r, k)
  <1>4. q \in Seq(Node) /\ Len(q) = Len(r) - 1 /\ Picks(q, r)
    BY <1>1, <1>2, PicksRemove
  <1>5. Without(r, ts) = q
    BY DEF Without, k
  <1>. HIDE DEF q
  <1>6. ReceivedOK(q)
    BY <1>4, PicksReceived
  <1>. QED BY <1>3, <1>4, <1>5, <1>6, PicksApart

LEMMA TailKeeps ==
    ASSUME NEW r, ReceivedOK(r), r # <<>>
    PROVE  /\ ReceivedOK(Tail(r)) /\ Len(Tail(r)) = Len(r) - 1 /\ 1 <= Len(r)
           /\ \A p : Apart(p, r) => Apart(p, Tail(r))
           /\ Head(r) = r[1] /\ 1 \in DOMAIN r /\ Head(r) \in Node /\ Whole(Head(r))
           /\ \A i \in DOMAIN r : Head(r).ts <= r[i].ts
  <1>1. r \in Seq(Node) /\ DOMAIN r = 1 .. Len(r) /\ Len(r) \in Nat /\ 1 <= Len(r)
    BY LenProperties, EmptySeq DEF ReceivedOK
  <1>2. Tail(r) = SubSeq(r, 1 + 1, Len(r)) /\ 1 \in 0 .. Len(r)
    BY <1>1, TailIsSubSeq
  <1>3. Tail(r) \in Seq(Node) /\ Len(Tail(r)) = Len(r) - 1 /\ Picks(Tail(r), r)
    BY <1>1, <1>2, PicksSuffix
  <1>4. ReceivedOK(Tail(r)) /\ \A p : Apart(p, r) => Apart(p, Tail(r))
    BY <1>3, PicksReceived, PicksApart
  <1>5. Head(r) = r[1] /\ 1 \in DOMAIN r
    BY <1>1
  <1>6. Head(r) \in Node /\ Whole(Head(r))
    BY <1>1, <1>5, ElementOfSeq DEF ReceivedOK
  <1>7. ASSUME NEW i \in DOMAIN r PROVE r[1].ts <= r[i].ts
    <2>1. i \in 1 .. Len(r) /\ 1 \in 1 .. Len(r) /\ 1 <= i /\ i - 1 \in Nat /\ D \in Nat
      BY <1>1, BufferConstants
    <2>2. (i - 1) * D <= r[i].ts - r[1].ts
      BY <2>1 DEF ReceivedOK, Spaced
    <2>3. (i - 1) * D \in Nat
      BY <2>1
    <2>4. r[i].ts \in Nat /\ r[1].ts \in Nat
      BY <1>1, <2>1, ElementOfSeq, NodeTypes
    <2>. QED BY <2>2, <2>3, <2>4
  <1>. QED BY <1>1, <1>3, <1>4, <1>5, <1>6, <1>7

----------------------------------------------------------------------------
(* A read *)

\* A node that ends by lim.
Passed(n, lim) == n.ts < lim /\ n.ts + n.len <= lim

\* What a read looks at: the nodes before its limit are a prefix of the list.
LEMMA PlainNode ==
    ASSUME NoWrap, NEW n \in Node, Part(n), NEW lim \in First .. Top + L
    PROVE  /\ End(n) = n.ts + n.len /\ n.ts \in Nat /\ n.len \in Nat
           /\ First <= n.ts /\ n.ts + n.len <= Top /\ n.ts <= Top
           /\ Before(n.ts, lim) <=> n.ts < lim
           /\ UpTo(End(n), lim) <=> n.ts + n.len <= lim
  <1>1. n.ts \in Nat /\ n.len \in Nat /\ First <= n.ts /\ n.ts < Top /\ n.ts + n.len <= Top
        /\ First \in Nat /\ Top \in Nat /\ L \in Nat /\ Modulus \in Nat /\ Top + L < Modulus
    BY NodeTypes, PartRange, BufferConstants DEF NoWrap
  <1>2. n.ts + n.len < Modulus
    BY <1>1
  <1>3. End(n) = n.ts + n.len
    BY <1>1, <1>2, PlainPlus DEF End
  <1>4. n.ts \in First .. Top + L /\ n.ts + n.len \in First .. Top + L
    BY <1>1
  <1>. QED BY <1>1, <1>3, <1>4, PlainOrder

LEMMA ReachIs ==
    ASSUME NoWrap, NEW p, PreparedOK(p), NEW lim \in First .. Top + L
    PROVE  \E c \in 0 .. Len(p) :
              /\ Reaches(p, lim) = 1 .. c /\ Rest(p, lim) = SubSeq(p, c + 1, Len(p))
              /\ \A i \in 1 .. c : Passed(p[i], lim)
              /\ c < Len(p) => ~Passed(p[c + 1], lim)
  <1>. DEFINE R == Reaches(p, lim)
              c == Max(R \union {0})
  <1>1. p \in Seq(Node) /\ Len(p) \in Nat /\ DOMAIN p = 1 .. Len(p)
    BY LenProperties DEF PreparedOK
  <1>2. \A i \in 1 .. Len(p) :
           Before(p[i].ts, lim) /\ UpTo(End(p[i]), lim) <=> Passed(p[i], lim)
    <2>1. \A i \in 1 .. Len(p) : p[i] \in Node /\ Part(p[i])
      BY <1>1, ElementOfSeq DEF PreparedOK
    <2>. QED BY <2>1, PlainNode DEF Passed
  <1>3. R = {i \in 1 .. Len(p) : \A j \in 1 .. i : Passed(p[j], lim)}
    <2>1. \A i \in 1 .. Len(p) : (\A j \in 1 .. i : Before(p[j].ts, lim) /\ UpTo(End(p[j]), lim))
                                   <=> \A j \in 1 .. i : Passed(p[j], lim)
      <3>1. \A i \in 1 .. Len(p) : \A j \in 1 .. i : j \in 1 .. Len(p)
        BY <1>1
      <3>. QED BY <1>2, <3>1, Zenon
    <2>. QED BY <1>1, <2>1 DEF Reaches
  <1>. HIDE DEF R
  <1>4. R \union {0} \in SUBSET (0 .. Len(p)) /\ R \union {0} # {}
    BY <1>1, <1>3
  <1>5. c \in R \union {0} /\ \A x \in R \union {0} : x <= c
    BY <1>1, <1>4, GreatestPlace
  <1>. HIDE DEF c
  <1>6. c \in 0 .. Len(p)
    BY <1>4, <1>5
  <1>7. \A i \in 1 .. c : Passed(p[i], lim)
    <2>1. CASE c = 0
      BY <2>1
    <2>2. CASE c \in R
      BY <1>3, <2>2
    <2>. QED BY <1>5, <2>1, <2>2
  <1>8. R = 1 .. c
    <2>1. ASSUME NEW i \in R PROVE i \in 1 .. c
      <3>1. i \in 1 .. Len(p) /\ i <= c
        BY <1>3, <1>5
      <3>. QED BY <1>1, <1>6, <3>1
    <2>2. ASSUME NEW i \in 1 .. c PROVE i \in R
      <3>1. i \in 1 .. Len(p) /\ \A j \in 1 .. i : j \in 1 .. c
        BY <1>1, <1>6
      <3>. QED BY <1>3, <1>7, <3>1
    <2>. QED BY <2>1, <2>2
  <1>9. ASSUME c < Len(p), Passed(p[c + 1], lim) PROVE FALSE
    <2>1. c + 1 \in 1 .. Len(p) /\ \A j \in 1 .. c + 1 : j \in 1 .. c \/ j = c + 1
      BY <1>1, <1>6, <1>9
    <2>2. c + 1 \in R
      BY <1>3, <1>7, <1>9, <2>1
    <2>3. c + 1 <= c
      BY <1>5, <2>2
    <2>. QED BY <1>6, <2>3
  <1>10. Cardinality(R) = c
    <2>1. c \in Int /\ 1 \in Int /\ 1 <= c + 1 /\ c - 1 + 1 = c
      BY <1>6
    <2>. QED BY <1>8, <1>6, <2>1, FS_Interval
  <1>11. Rest(p, lim) = SubSeq(p, c + 1, Len(p))
    BY <1>10 DEF Rest, R
  <1>. QED BY <1>6, <1>7, <1>8, <1>9, <1>11 DEF R

\* The first node that stays is cut at the limit.
LEMMA CutKeeps ==
    ASSUME NoWrap, NEW r, PreparedOK(r), NEW lim \in First .. Top + L,
           r # <<>> => ~Passed(r[1], lim)
    PROVE  LET q == CutRest(r, lim)
           IN /\ PreparedOK(q) /\ Len(q) = Len(r) /\ StartsFrom(q, lim)
              /\ \A ts \in Nat : EndsBy(r, ts) => EndsBy(q, ts)
              /\ \A h \in First .. Top : StartsFrom(r, h) => StartsFrom(q, h)
              /\ \A s : ReceivedOK(s) /\ Apart(r, s) => Apart(q, s)
  <1>1. r \in Seq(Node) /\ Len(r) \in Nat /\ DOMAIN r = 1 .. Len(r)
    BY LenProperties DEF PreparedOK
  <1>2. lim \in Nat /\ D \in Nat \ {0}
    BY BufferConstants
  <1>3. ASSUME NEW i \in 1 .. Len(r)
        PROVE  /\ r[i] \in Node /\ Part(r[i]) /\ End(r[i]) = r[i].ts + r[i].len
               /\ r[i].ts \in Nat /\ r[i].len \in Nat /\ r[i].ts + r[i].len <= Top
               /\ First <= r[i].ts
               /\ Before(r[i].ts, lim) <=> r[i].ts < lim
    <2>1. r[i] \in Node /\ Part(r[i])
      BY <1>1, ElementOfSeq DEF PreparedOK
    <2>. QED BY <2>1, PlainNode
  <1>4. \A i \in 1 .. Len(r) : 1 < i => r[1].ts < r[i].ts /\ r[1].ts + r[1].len <= r[i].ts
    <2>1. ASSUME NEW i \in 1 .. Len(r), 1 < i
          PROVE  r[1].ts < r[i].ts /\ r[1].ts + r[1].len <= r[i].ts
      <3>1. 1 \in DOMAIN r /\ i \in DOMAIN r
        BY <1>1, <2>1
      <3>. QED BY <2>1, <3>1 DEF PreparedOK, Follows
    <2>. QED BY <2>1
  <1>5. CASE r = <<>>
    <2>1. CutRest(r, lim) = r /\ DOMAIN r = {}
      BY <1>5 DEF CutRest
    <2>. QED BY <2>1 DEF StartsFrom
  <1>6. CASE r # <<>> /\ lim <= r[1].ts
    <2>1. 1 \in 1 .. Len(r) /\ Head(r) = r[1]
      BY <1>1, <1>6, EmptySeq
    <2>2. ~(r[1].ts < lim)
      BY <1>2, <1>3, <1>6, <2>1
    <2>3. ~Before(r[1].ts, lim)
      BY <1>3, <2>1, <2>2
    <2>4. CutRest(r, lim) = r
      BY <2>1, <2>3 DEF CutRest
    <2>5. StartsFrom(r, lim)
      <3>1. ASSUME NEW i \in 1 .. Len(r) PROVE lim <= r[i].ts
        <4>1. CASE i = 1
          BY <1>6, <4>1
        <4>2. CASE 1 < i
          <5>1. r[1].ts < r[i].ts /\ r[1].ts \in Nat /\ r[i].ts \in Nat
            BY <1>3, <1>4, <2>1, <4>2
          <5>. QED BY <1>2, <1>6, <5>1
        <4>. QED BY <1>1, <4>1, <4>2
      <3>. QED BY <1>1, <3>1 DEF StartsFrom
    <2>. QED BY <2>4, <2>5
  <1>7. CASE r # <<>> /\ ~(lim <= r[1].ts)
    <2>1. 1 \in 1 .. Len(r) /\ Head(r) = r[1]
      BY <1>1, <1>7, EmptySeq
    <2>. DEFINE e == r[1].ts + r[1].len
                x == [ts |-> lim, len |-> Minus(End(r[1]), lim)]
                q == <<x>> \o Tail(r)
    <2>2. r[1].ts < lim /\ r[1].ts \in Nat /\ r[1].len \in Nat /\ e \in Nat /\ lim < e /\ e <= Top
          /\ First <= r[1].ts /\ End(r[1]) = e
      <3>1. r[1].ts < lim /\ r[1].ts \in Nat /\ r[1].len \in Nat /\ e \in Nat /\ e <= Top
            /\ First <= r[1].ts /\ End(r[1]) = e
        BY <1>2, <1>3, <1>7, <2>1
      <3>2. ~(e <= lim)
        BY <1>7, <3>1 DEF Passed
      <3>. QED BY <1>2, <3>1, <3>2
    <2>3. e \in TS /\ lim \in TS
      <3>1. Top \in Nat /\ L \in Nat /\ Modulus \in Nat /\ Top + L < Modulus
        BY BufferConstants DEF NoWrap
      <3>2. e < Modulus /\ lim < Modulus
        BY <1>2, <2>2, <3>1
      <3>. QED BY <1>2, <2>2, <3>1, <3>2 DEF TS
    <2>4. Minus(End(r[1]), lim) = e - lim
      BY <1>2, <2>2, <2>3, PlainMinus
    <2>5. PICK t : Starts(t) /\ t <= r[1].ts /\ r[1].ts < t + D /\ r[1].ts + r[1].len <= t + D
      BY <1>3, <2>1 DEF Part
    <2>6. t \in Nat /\ e <= t + D /\ D \in Nat \ {0} /\ r[1].len <= D
      <3>1. e = r[1].ts + r[1].len /\ r[1].len <= D
        BY <1>3, <2>1, NodeTypes
      <3>. QED BY <2>5, <3>1, StartsRange, BufferConstants
    <2>7. /\ x \in Node /\ x.ts = lim /\ x.len = e - lim /\ x.ts + x.len = e /\ Part(x)
          /\ Undecoded(x)
      <3>1. e - lim \in 0 .. D /\ lim \in TS /\ e - lim > 0 /\ lim + (e - lim) = e
        BY <1>2, <2>2, <2>5, <2>6, <2>3, SMTT(60)
      <3>2. x \in Node /\ x.ts = lim /\ x.len = e - lim
        BY <2>4, <3>1 DEF Node
      <3>3. Starts(t) /\ t <= x.ts /\ x.ts < t + D /\ x.ts + x.len <= t + D
        BY <1>2, <2>2, <2>5, <2>6, <3>1, <3>2
      <3>4. ~Starts(lim)
        <4>1. Starts(lim) => e <= lim
          BY <1>3, <2>1, <2>2, PartRange
        <4>. QED BY <1>2, <2>2, <4>1
      <3>. QED BY <2>6, <3>1, <3>2, <3>3, <3>4 DEF Part, Undecoded
    <2>8. CutRest(r, lim) = q
      <3>1. Before(r[1].ts, lim)
        BY <1>3, <2>1, <2>2
      <3>. QED BY <1>7, <2>1, <3>1 DEF CutRest
    <2>. HIDE DEF x
    <2>9. /\ q \in Seq(Node) /\ Len(q) = Len(r) /\ DOMAIN q = 1 .. Len(r)
          /\ q[1] = x /\ \A i \in 2 .. Len(r) : q[i] = r[i]
      <3>1. Tail(r) \in Seq(Node) /\ Len(Tail(r)) = Len(r) - 1
            /\ \A i \in 1 .. Len(r) - 1 : Tail(r)[i] = r[i + 1]
        BY <1>1, <1>7, HeadTailProperties
      <3>2. <<x>> \in Seq(Node) /\ Len(<<x>>) = 1 /\ <<x>>[1] = x
        BY <2>7
      <3>3. /\ q \in Seq(Node) /\ Len(q) = 1 + Len(Tail(r))
            /\ \A i \in 1 .. 1 + Len(Tail(r)) : q[i] = IF i <= 1 THEN <<x>>[i] ELSE Tail(r)[i - 1]
        BY <3>1, <3>2, ConcatProperties
      <3>. HIDE DEF q
      <3>4. Len(q) = Len(r) /\ 1 + Len(Tail(r)) = Len(r)
        BY <1>1, <3>1, <3>3
      <3>5. q[1] = x
        BY <2>1, <3>2, <3>3, <3>4
      <3>6. ASSUME NEW i \in 2 .. Len(r) PROVE q[i] = r[i]
        <4>1. i \in 1 .. Len(r) /\ ~(i <= 1) /\ i - 1 \in 1 .. Len(r) - 1 /\ (i - 1) + 1 = i
          BY <1>1, <3>6
        <4>. QED BY <3>1, <3>3, <3>4, <4>1
      <3>. QED BY <3>3, <3>4, <3>5, <3>6, LenProperties
    <2>. HIDE DEF q, e
    <2>10. \A i \in DOMAIN q : i = 1 \/ (i \in 2 .. Len(r) /\ i \in 1 .. Len(r) /\ i > 1 /\ q[i] = r[i] /\ i \in DOMAIN r)
      BY <1>1, <2>9
    <2>11. \A i \in DOMAIN q : /\ Part(q[i]) /\ (i > 1 => Starts(q[i].ts))
                               /\ (~decoder => Undecoded(q[i]))
      BY <2>7, <2>9, <2>10 DEF PreparedOK
    <2>12. Spaced(q, 2)
      <3>1. ASSUME NEW i \in 2 .. Len(r), NEW j \in 2 .. Len(r), i <= j
            PROVE  (j - i) * D <= q[j].ts - q[i].ts
        BY <2>9, <3>1 DEF PreparedOK, Spaced
      <3>. QED BY <2>9, <3>1 DEF Spaced
    <2>13. Follows(q)
      <3>1. ASSUME NEW i \in DOMAIN q, NEW j \in DOMAIN q, i < j
            PROVE  q[i].ts < q[j].ts /\ q[i].ts + q[i].len <= q[j].ts
        <4>1. j \in 2 .. Len(r) /\ j \in 1 .. Len(r) /\ j > 1 /\ q[j] = r[j] /\ j \in DOMAIN r
          BY <1>1, <2>9, <2>10, <3>1
        <4>2. CASE i = 1
          <5>1. e <= r[j].ts /\ r[j].ts \in Nat
            BY <1>3, <1>4, <4>1 DEF e
          <5>. QED BY <1>2, <2>2, <2>7, <2>9, <4>1, <4>2, <5>1
        <4>3. CASE i # 1
          <5>1. q[i] = r[i] /\ i \in DOMAIN r
            BY <2>10, <4>3
          <5>. QED BY <3>1, <4>1, <5>1 DEF PreparedOK, Follows
        <4>. QED BY <4>2, <4>3
      <3>. QED BY <3>1 DEF Follows
    <2>14. PreparedOK(q)
      BY <2>9, <2>11, <2>12, <2>13 DEF PreparedOK
    <2>15. StartsFrom(q, lim)
      <3>1. ASSUME NEW i \in DOMAIN q PROVE lim <= q[i].ts
        <4>1. CASE i = 1
          BY <1>2, <2>7, <2>9, <4>1
        <4>2. CASE i # 1
          <5>1. q[i] = r[i] /\ i \in 1 .. Len(r) /\ i > 1
            BY <2>10, <4>2
          <5>2. e <= r[i].ts /\ r[i].ts \in Nat
            BY <1>3, <1>4, <5>1 DEF e
          <5>. QED BY <1>2, <2>2, <5>1, <5>2
        <4>. QED BY <4>1, <4>2
      <3>. QED BY <3>1 DEF StartsFrom
    <2>16. ASSUME NEW ts \in Nat, EndsBy(r, ts) PROVE EndsBy(q, ts)
      <3>1. e <= ts
        BY <1>1, <2>1, <2>16 DEF EndsBy, e
      <3>2. lim < ts
        BY <1>2, <2>2, <3>1
      <3>3. x.ts < ts /\ x.ts + x.len <= ts
        BY <2>7, <3>1, <3>2
      <3>4. \A i \in DOMAIN r : r[i].ts < ts /\ r[i].ts + r[i].len <= ts
        BY <2>16 DEF EndsBy
      <3>. QED BY <2>9, <2>10, <3>3, <3>4 DEF EndsBy
    <2>17. ASSUME NEW h \in First .. Top, StartsFrom(r, h) PROVE StartsFrom(q, h)
      <3>1. \A i \in DOMAIN r : h <= r[i].ts
        BY <2>17 DEF StartsFrom
      <3>2. h <= x.ts
        <4>1. h <= r[1].ts /\ h \in Nat
          BY <1>1, <2>1, <3>1, BufferConstants
        <4>. QED BY <1>2, <2>2, <2>7, <4>1
      <3>. QED BY <2>9, <2>10, <3>1, <3>2 DEF StartsFrom
    <2>18. ASSUME NEW s, ReceivedOK(s), Apart(r, s) PROVE Apart(q, s)
      <3>1. ASSUME NEW j \in DOMAIN s PROVE x.ts < s[j].ts /\ \A i \in DOMAIN r : r[i].ts < s[j].ts
        <4>1. \A i \in DOMAIN r : r[i].ts < s[j].ts
          BY <2>18 DEF Apart
        <4>2. Starts(s[j].ts)
          BY <2>18 DEF ReceivedOK, Whole
        <4>3. r[1].ts < s[j].ts /\ s[j].ts \in Nat
          BY <1>1, <2>1, <4>1, <4>2, StartsRange
        <4>4. e <= s[j].ts
          BY <1>3, <2>1, <4>2, <4>3, PartRange DEF e
        <4>. QED BY <1>2, <2>2, <2>7, <4>1, <4>3, <4>4
      <3>. QED BY <2>9, <2>10, <3>1 DEF Apart
    <2>. QED BY <2>8, <2>9, <2>14, <2>15, <2>16, <2>17, <2>18
  <1>. QED BY <1>5, <1>6, <1>7

\* What was heard moves on with a read.
LEMMA FurthestIs ==
    ASSUME NoWrap, NEW S \in SUBSET (First .. Top), NEW ts
    PROVE  /\ S = {} => Furthest(S, ts) = ts
           /\ S # {} => Furthest(S, ts) \in S
  <1>1. ASSUME S # {} PROVE \E e \in S : \A f \in S : UpTo(f, e)
    <2>1. Top \in Nat /\ First \in Nat /\ L \in Nat
      BY BufferConstants
    <2>2. S \in SUBSET (0 .. Top)
      BY <2>1
    <2>3. Max(S) \in S /\ \A x \in S : x <= Max(S)
      BY <1>1, <2>1, <2>2, GreatestPlace
    <2>4. ASSUME NEW f \in S PROVE UpTo(f, Max(S))
      <3>1. \A x \in S : x \in First .. Top + L
        BY <2>1
      <3>2. f \in First .. Top + L /\ Max(S) \in First .. Top + L /\ f <= Max(S)
        BY <2>3, <3>1
      <3>. QED BY <3>2, PlainOrder
    <2>. QED BY <2>3, <2>4
  <1>2. ASSUME S # {} PROVE Furthest(S, ts) \in S
    <2>1. Furthest(S, ts) = CHOOSE e \in S : \A f \in S : UpTo(f, e)
      BY <1>2 DEF Furthest
    <2>. QED BY <1>1, <1>2, <2>1
  <1>. QED BY <1>2 DEF Furthest

LEMMA ReadKeeps ==
    ASSUME NoWrap, NEW p, PreparedOK(p), NEW dts \in 0 .. Top, EndsBy(p, dts),
           heard \in First .. Top, heard = First \/ heard <= dts, StartsFrom(p, heard),
           NEW base \in First .. Top
    PROVE  LET lim == Plus(base, L)
               rest == Rest(p, lim)
               q == CutRest(rest, lim)
               h == Furthest(HeardEnds(p, base, lim), heard)
           IN /\ PreparedOK(q) /\ EndsBy(q, dts) /\ StartsFrom(q, h)
              /\ Len(q) = Len(rest) /\ Len(rest) <= Len(p)
              /\ h \in First .. Top /\ (h = First \/ h <= dts)
              /\ \A s : ReceivedOK(s) /\ Apart(p, s) => Apart(q, s)
              /\ rest # <<>> \/ lim \in {End(p[i]) : i \in DOMAIN p} => lim \in First .. Top
  <1>. DEFINE lim == Plus(base, L)
              rest == Rest(p, lim)
              q == CutRest(rest, lim)
              ends == HeardEnds(p, base, lim)
              h == Furthest(ends, heard)
  <1>1. Top \in Nat /\ L \in Nat \ {0} /\ Modulus \in Nat /\ First \in Nat /\ base \in Nat /\ Top + L < Modulus
    BY BufferConstants DEF NoWrap
  <1>2. lim = base + L
    BY <1>1, PlainPlus
  <1>3. lim \in First .. Top + L /\ lim \in Nat /\ First <= lim
    BY <1>1, <1>2
  <1>. HIDE DEF lim
  <1>4. p \in Seq(Node) /\ Len(p) \in Nat /\ DOMAIN p = 1 .. Len(p)
    BY LenProperties DEF PreparedOK
  <1>5. PICK c \in 0 .. Len(p) :
              /\ Reaches(p, lim) = 1 .. c /\ Rest(p, lim) = SubSeq(p, c + 1, Len(p))
              /\ \A i \in 1 .. c : Passed(p[i], lim)
              /\ c < Len(p) => ~Passed(p[c + 1], lim)
    BY <1>3, ReachIs
  <1>6. /\ rest \in Seq(Node) /\ Len(rest) = Len(p) - c /\ Picks(rest, p)
        /\ \A i \in 1 .. Len(p) - c : rest[i] = p[i + c]
    <2>1. rest = SubSeq(p, c + 1, Len(p))
      BY <1>5
    <2>2. p \in Seq(Node) /\ c \in 0 .. Len(p)
      BY <1>4
    <2>. HIDE DEF rest
    <2>. QED BY <2>1, <2>2, PicksSuffix
  <1>. HIDE DEF rest
  <1>7. /\ PreparedOK(rest) /\ EndsBy(rest, dts) /\ StartsFrom(rest, heard)
        /\ \A s : Apart(p, s) => Apart(rest, s)
    BY <1>6, PicksPrepared
  <1>8. rest # <<>> => c + 1 \in 1 .. Len(p) /\ c < Len(p) /\ rest[1] = p[c + 1]
    <2>1. ASSUME rest # <<>> PROVE c + 1 \in 1 .. Len(p) /\ c < Len(p) /\ rest[1] = p[c + 1]
      <3>1. 1 <= Len(rest)
        BY <1>6, <2>1, EmptySeq
      <3>2. 1 \in 1 .. Len(p) - c /\ 1 + c = c + 1 /\ c + 1 \in 1 .. Len(p) /\ c < Len(p)
        BY <1>4, <1>6, <3>1
      <3>. QED BY <1>6, <3>2
    <2>. QED BY <2>1
  <1>9. /\ PreparedOK(q) /\ Len(q) = Len(rest) /\ StartsFrom(q, lim) /\ EndsBy(q, dts)
        /\ StartsFrom(q, heard)
        /\ \A s : ReceivedOK(s) /\ Apart(rest, s) => Apart(q, s)
    <2>1. rest # <<>> => ~Passed(rest[1], lim)
      BY <1>5, <1>8
    <2>2. dts \in Nat
      BY <1>1
    <2>. QED BY <1>3, <1>7, <2>1, <2>2, CutKeeps
  <1>. HIDE DEF q
  <1>10. ASSUME NEW i \in 1 .. Len(p)
        PROVE  /\ p[i] \in Node /\ Part(p[i]) /\ End(p[i]) = p[i].ts + p[i].len
               /\ p[i].ts \in Nat /\ p[i].len \in Nat /\ p[i].ts + p[i].len <= Top
               /\ First <= p[i].ts /\ p[i].ts + p[i].len <= dts
               /\ Before(p[i].ts, lim) <=> p[i].ts < lim
    <2>1. p[i] \in Node /\ Part(p[i])
      BY <1>4, ElementOfSeq DEF PreparedOK
    <2>2. p[i].ts + p[i].len <= dts
      BY <1>4 DEF EndsBy
    <2>. QED BY <1>3, <2>1, <2>2, PlainNode
  <1>11. ASSUME NEW i \in c + 1 .. Len(p), p[i].ts < lim
         PROVE  lim <= Top /\ lim <= dts
    <2>1. c + 1 \in 1 .. Len(p) /\ i \in 1 .. Len(p) /\ c < Len(p)
      BY <1>4
    <2>2. p[c + 1].ts < lim
      <3>1. CASE i = c + 1
        BY <1>11, <3>1
      <3>2. CASE c + 1 < i
        <4>1. p[c + 1].ts < p[i].ts
          BY <1>4, <2>1, <3>2 DEF PreparedOK, Follows
        <4>2. p[c + 1].ts \in Nat /\ p[i].ts \in Nat
          BY <1>10, <2>1
        <4>. QED BY <1>3, <1>11, <4>1, <4>2
      <3>. QED BY <1>4, <2>1, <3>1, <3>2
    <2>3. ~(p[c + 1].ts + p[c + 1].len <= lim)
      BY <1>5, <2>1, <2>2 DEF Passed
    <2>4. /\ p[c + 1].ts \in Nat /\ p[c + 1].len \in Nat /\ p[c + 1].ts + p[c + 1].len <= Top
          /\ p[c + 1].ts + p[c + 1].len <= dts
      BY <1>10, <2>1
    <2>5. dts \in Nat
      BY <1>1
    <2>. QED BY <1>1, <1>3, <2>3, <2>4, <2>5
  <1>12. ASSUME NEW e \in ends PROVE e \in First .. Top /\ e <= dts /\ e <= lim
    <2>1. CASE \E i \in Reaches(p, lim) : e = End(p[i])
      <3>1. PICK i \in 1 .. c : e = End(p[i])
        BY <1>5, <2>1
      <3>2. i \in 1 .. Len(p)
        BY <1>4
      <3>3. p[i].ts + p[i].len <= lim
        BY <1>5 DEF Passed
      <3>4. /\ e = p[i].ts + p[i].len /\ p[i].ts \in Nat /\ p[i].len \in Nat
            /\ p[i].ts + p[i].len <= Top /\ First <= p[i].ts /\ p[i].ts + p[i].len <= dts
        BY <1>10, <3>1, <3>2
      <3>. QED BY <1>1, <3>3, <3>4, SMTT(60)
    <2>2. CASE \E i \in DOMAIN p \ Reaches(p, lim) : e = lim /\ Before(p[i].ts, lim)
      <3>1. PICK i \in DOMAIN p \ Reaches(p, lim) : e = lim /\ Before(p[i].ts, lim)
        BY <2>2
      <3>2. i \in 1 .. Len(p) /\ i \in c + 1 .. Len(p)
        BY <1>4, <1>5, <3>1
      <3>3. p[i].ts < lim
        BY <1>10, <3>1, <3>2
      <3>4. lim <= Top /\ lim <= dts
        BY <1>11, <3>2, <3>3
      <3>. QED BY <1>1, <1>3, <3>1, <3>4
    <2>3. ends = {End(p[i]) : i \in {j \in Reaches(p, lim) : p[j].len > 0 /\ Before(base, End(p[j]))}}
                   \union {lim : i \in {j \in DOMAIN p \ Reaches(p, lim) : Before(p[j].ts, lim)}}
      BY DEF HeardEnds
    <2>. HIDE DEF ends
    <2>. QED BY <2>1, <2>2, <2>3
  <1>. HIDE DEF ends
  <1>13. ends \in SUBSET (First .. Top)
    BY <1>12
  <1>14. h = heard \/ h \in ends
    BY <1>13, FurthestIs
  <1>. HIDE DEF h
  <1>15. h \in First .. Top /\ (h = First \/ h <= dts)
    BY <1>12, <1>14
  <1>16. StartsFrom(q, h)
    <2>1. CASE h = heard
      BY <1>9, <2>1
    <2>2. CASE h \in ends
      <3>1. h <= lim /\ h \in Nat
        BY <1>1, <1>12, <2>2
      <3>2. q \in Seq(Node) /\ \A i \in DOMAIN q : q[i].ts \in Nat
        <4>1. q \in Seq(Node)
          BY <1>9 DEF PreparedOK
        <4>2. \A i \in DOMAIN q : q[i] \in Node
          BY <4>1, ElementOfSeq, LenProperties
        <4>. QED BY <4>1, <4>2, NodeTypes
      <3>3. ASSUME NEW i \in DOMAIN q PROVE h <= q[i].ts
        <4>1. lim <= q[i].ts /\ q[i].ts \in Nat
          BY <1>9, <3>2 DEF StartsFrom
        <4>. QED BY <1>3, <3>1, <4>1
      <3>. QED BY <3>3 DEF StartsFrom
    <2>. QED BY <1>14, <2>1, <2>2
  <1>17. Len(rest) <= Len(p)
    BY <1>4, <1>6
  <1>18. rest # <<>> \/ lim \in {End(p[i]) : i \in DOMAIN p} => lim \in First .. Top
    <2>1. CASE rest # <<>>
      <3>1. c + 1 \in 1 .. Len(p) /\ c + 1 \in c + 1 .. Len(p)
        BY <1>4, <1>8, <2>1
      <3>2. CASE p[c + 1].ts < lim
        <4>1. lim <= Top
          BY <1>11, <3>1, <3>2
        <4>. QED BY <1>1, <1>3, <4>1
      <3>3. CASE ~(p[c + 1].ts < lim)
        <4>. DEFINE t == p[c + 1].ts
                    n == p[c + 1].len
        <4>1. t \in Nat /\ n \in Nat /\ t + n <= Top /\ ~(t < lim)
          BY <1>10, <3>1, <3>3
        <4>. HIDE DEF t, n
        <4>2. lim <= Top
          BY <1>1, <1>3, <4>1
        <4>. QED BY <1>1, <1>3, <4>2
      <3>. QED BY <3>2, <3>3
    <2>2. CASE lim \in {End(p[i]) : i \in DOMAIN p}
      <3>1. PICK i \in 1 .. Len(p) : lim = End(p[i])
        BY <1>4, <2>2
      <3>2. lim = p[i].ts + p[i].len /\ p[i].ts + p[i].len <= Top
        BY <1>10, <3>1
      <3>. QED BY <1>1, <1>3, <3>2
    <2>. QED BY <2>1, <2>2
  <1>19. \A s : ReceivedOK(s) /\ Apart(p, s) => Apart(q, s)
    BY <1>7, <1>9
  <1>. QED BY <1>9, <1>15, <1>16, <1>17, <1>18, <1>19 DEF h, ends, q, rest, lim

----------------------------------------------------------------------------
(* The steps of the threads *)

\* The parts of the invariant stay when what they speak of does.
LEMMA ListsNext ==
    ASSUME decoder' = decoder, NEW p, NEW r, prepared' = p, received' = r,
           PreparedOK(p), ReceivedOK(r), EndsBy(p, nextDecodeTS'),
           dpc' # "pass" => Apart(p, r)
    PROVE  ListsInv'
  <1>1. ReceivedOK(received)'
    BY DEF ReceivedOK, Spaced
  <1>2. PreparedOK(prepared)'
    BY DEF PreparedOK, Spaced, Follows
  <1>3. EndsBy(prepared, nextDecodeTS)'
    BY DEF EndsBy
  <1>4. (dpc # "pass" => Apart(prepared, received))'
    BY DEF Apart
  <1>. QED BY <1>1, <1>2, <1>3, <1>4 DEF ListsInv

LEMMA ListsStay ==
    ASSUME ListsInv, UNCHANGED <<decoder, received, prepared, nextDecodeTS>>,
           dpc' # "pass" => dpc # "pass" \/ Apart(prepared, received)
    PROVE  ListsInv'
  BY ListsNext DEF ListsInv

LEMMA TimesNext ==
    ASSUME NEW p, NEW h, prepared' = p, heard' = h, h \in First .. Top,
           h = First \/ h <= nextDecodeTS', nextDecodeTS' \in 0 .. Top,
           ~buffering' => nextTS' \in First .. Top, StartsFrom(p, h)
    PROVE  TimesInv'
  BY DEF TimesInv, StartsFrom

LEMMA TimesStay ==
    ASSUME TimesInv, UNCHANGED <<prepared, nextDecodeTS, heard, nextTS, buffering>>
    PROVE  TimesInv'
  BY TimesNext DEF TimesInv

LEMMA SignalledIs ==
    ASSUME BufferTypeOK
    PROVE  /\ Signalled \in {"check", "lock", "waiting", "woken", "pass", "decode", "exit"}
           /\ Signalled = "pass" <=> dpc = "pass"
           /\ Signalled = "decode" <=> dpc = "decode"
           /\ Signalled = "exit" <=> dpc = "exit"
  BY DEF BufferTypeOK, Signalled

\* The steps.
LEMMA BufferInitInv ==
    ASSUME BufferInit
    PROVE  BufferInv
  <1>1. First \in First .. Top /\ 0 \in 0 .. Top /\ First \in TS /\ 0 \in TS
    BY BufferConstants DEF Top, TS
  <1>2. <<>> \in Seq(Node) /\ Len(<<>>) = 0 /\ DOMAIN <<>> = {}
    BY EmptySeq
  <1>3. BufferTypeOK
    <2>1. Nodes \in 0 .. Nodes /\ 0 \in 0 .. Nodes /\ 0 \in 0 .. MaxPackets
      BY BufferConstants
    <2>. QED BY <1>1, <1>2, <2>1 DEF BufferInit, BufferTypeOK
  <1>4. ReceivedOK(<<>>) /\ PreparedOK(<<>>)
    <2>1. \A i, j : ~(i \in 1 .. 0) /\ ~(i \in 2 .. 0)
      OBVIOUS
    <2>. QED BY <1>2, <2>1 DEF ReceivedOK, PreparedOK, Spaced, Follows
  <1>5. ListsInv
    BY <1>2, <1>4 DEF BufferInit, ListsInv, EndsBy, Apart
  <1>6. TimesInv
    BY <1>1, <1>2 DEF BufferInit, TimesInv, StartsFrom
  <1>7. CountsInv
    BY <1>2, BufferConstants DEF BufferInit, CountsInv
  <1>. QED BY <1>3, <1>5, <1>6, <1>7 DEF BufferInit, DecodeInv, BufferInv

\* Steps that touch no list.
LEMMA FreeSteps ==
    ASSUME NoWrap, BufferInv,
           GetFreeNode \/ PacketFails \/ PutFreeNode \/ BufferingEnds \/ SetDone \/ SignalDone
    PROVE  BufferInv'
  <1>. USE DEF BufferInv
  <1>1. UNCHANGED <<decoder, received, prepared, nextDecodeTS, heard, nextTS, buffering,
                    nodesUsed, decoding>>
    BY DEF GetFreeNode, PacketFails, PutFreeNode, BufferingEnds, SetDone, SignalDone, lists,
           play, decode, teardown
  <1>2. dpc' = dpc \/ dpc' = Signalled
    BY DEF GetFreeNode, PacketFails, PutFreeNode, BufferingEnds, SetDone, SignalDone, decode
  <1>3. /\ dpc' \in {"check", "lock", "waiting", "woken", "pass", "decode", "exit"}
        /\ dpc' = "pass" <=> dpc = "pass"
        /\ dpc' = "decode" <=> dpc = "decode"
        /\ dpc' = "exit" <=> dpc = "exit"
    BY <1>2, SignalledIs DEF BufferTypeOK
  <1>4. ListsInv' /\ TimesInv'
    BY <1>1, <1>3, ListsStay, TimesStay
  <1>5. DecodeInv'
    BY <1>1, <1>3 DEF DecodeInv, Has
  <1>6. CountsInv' /\ free' \in 0 .. Nodes
    <2>1. free \in Nat /\ nodesUsed \in Nat /\ Nodes \in Nat /\ free <= Nodes
      BY BufferConstants DEF BufferTypeOK
    <2>2. fpc' = "freed" => fpc = "freed"
      BY DEF GetFreeNode, PacketFails, PutFreeNode, BufferingEnds, SetDone, SignalDone, teardown
    <2>3. fpc = "freed" => fpc' = "freed"
      BY DEF GetFreeNode, PacketFails, PutFreeNode, BufferingEnds, SetDone, SignalDone, teardown
    <2>4. fpc' # "no" => rx' = "idle"
      BY DEF GetFreeNode, PacketFails, PutFreeNode, BufferingEnds, SetDone, SignalDone,
             teardown, CountsInv
    <2>5. /\ free' + nodesUsed + (IF rx' = "idle" THEN 0 ELSE 1) = Nodes
          /\ free' \in 0 .. Nodes
      <3>1. CASE GetFreeNode
        BY <2>1, <3>1 DEF GetFreeNode, CountsInv
      <3>2. CASE PutFreeNode
        BY <2>1, <3>2 DEF PutFreeNode, CountsInv
      <3>3. CASE PacketFails
        BY <2>1, <3>3 DEF PacketFails, CountsInv, lists
      <3>4. CASE BufferingEnds \/ SetDone \/ SignalDone
        BY <2>1, <3>4 DEF BufferingEnds, SetDone, SignalDone, CountsInv, lists
      <3>. QED BY <3>1, <3>2, <3>3, <3>4
    <2>6. (free + nodesUsed + (IF rx = "idle" THEN 0 ELSE 1) = Nodes)'
      BY <1>1, <2>5
    <2>7. (fpc # "freed" => nodesUsed = Len(received) + Len(prepared))'
      BY <1>1, <2>2, <2>3 DEF CountsInv
    <2>8. (fpc = "freed" => dpc = "exit")'
      BY <1>3, <2>2 DEF CountsInv
    <2>. QED BY <2>4, <2>5, <2>6, <2>7, <2>8 DEF CountsInv
  <1>7. BufferTypeOK'
    <2>1. /\ start' \in {"none", "ahead", "past"} /\ rx' \in {"idle", "node", "put"}
          /\ decodeDone' \in BOOLEAN /\ fpc' \in {"no", "signal", "join", "freed"}
          /\ sent' = sent
      BY DEF GetFreeNode, PacketFails, PutFreeNode, BufferingEnds, SetDone, SignalDone,
             play, teardown, BufferTypeOK
    <2>. QED BY <1>1, <1>3, <1>6, <2>1 DEF BufferTypeOK
  <1>. QED BY <1>4, <1>5, <1>6, <1>7

\* Timestamps of the stream.
LEMMA StreamTS ==
    ASSUME NoWrap
    PROVE  /\ First .. Top \subseteq TS
           /\ 0 .. Top \subseteq TS
           /\ \A k \in 0 .. MaxPackets - 1 : Plus(First, k * D) = First + k * D /\ Starts(First + k * D)
  <1>1. First \in Nat /\ Top \in Nat /\ L \in Nat /\ Modulus \in Nat /\ Top + L < Modulus /\ D \in Nat
        /\ MaxPackets \in Nat
    BY BufferConstants DEF NoWrap
  <1>2. First .. Top \subseteq TS /\ 0 .. Top \subseteq TS
    BY <1>1 DEF TS
  <1>3. ASSUME NEW k \in 0 .. MaxPackets - 1
        PROVE  Plus(First, k * D) = First + k * D /\ Starts(First + k * D)
    <2>1. Starts(First + k * D)
      BY DEF Starts
    <2>2. First + k * D + D <= Top
      BY <2>1, StartsRange
    <2>3. k * D \in Nat
      <3>1. k \in Nat
        BY <1>1
      <3>. QED BY <1>1, <3>1
    <2>4. First + k * D < Modulus
      BY <1>1, <2>2, <2>3
    <2>. QED BY <1>1, <2>1, <2>3, <2>4, PlainPlus
  <1>. QED BY <1>2, <1>3

\* The timestamp of the first node in the buffer.
LEMMA FirstOfBoth ==
    ASSUME NEW p, NEW r, PreparedOK(p), ReceivedOK(r)
    PROVE  /\ 1 <= Len(p) + Len(r) => Head(p \o r).ts \in First .. Top /\ p \o r # <<>>
           /\ p \o r # <<>> => 1 <= Len(p) + Len(r)
  <1>1. p \in Seq(Node) /\ r \in Seq(Node)
    BY DEF PreparedOK, ReceivedOK
  <1>2. Len(p) \in Nat /\ Len(r) \in Nat /\ DOMAIN p = 1 .. Len(p) /\ DOMAIN r = 1 .. Len(r)
    BY <1>1, LenProperties
  <1>3. /\ p \o r \in Seq(Node) /\ Len(p \o r) = Len(p) + Len(r)
        /\ \A i \in 1 .. Len(p) + Len(r) : (p \o r)[i] = IF i <= Len(p) THEN p[i] ELSE r[i - Len(p)]
    BY <1>1, ConcatProperties
  <1>4. ASSUME 1 <= Len(p) + Len(r) PROVE Head(p \o r).ts \in First .. Top /\ p \o r # <<>>
    <2>1. p \o r # <<>>
      <3>1. Len(p \o r) # 0
        BY <1>2, <1>3, <1>4
      <3>. QED BY <3>1, EmptySeq
    <2>. DEFINE q == p \o r
    <2>2. Head(q) = q[1] /\ 1 \in 1 .. Len(p) + Len(r)
      BY <1>2, <1>3, <1>4
    <2>. HIDE DEF q
    <2>3. q[1] \in Node /\ Part(q[1])
      <3>1. CASE 1 <= Len(p)
        <4>1. q[1] = p[1] /\ 1 \in DOMAIN p
          BY <1>2, <1>3, <2>2, <3>1 DEF q
        <4>. QED BY <1>1, <1>2, <4>1, ElementOfSeq DEF PreparedOK
      <3>2. CASE ~(1 <= Len(p))
        <4>1. Len(p) = 0
          BY <1>2, <3>2
        <4>2. q[1] = r[1] /\ 1 \in 1 .. Len(r)
          <5>1. 1 - Len(p) = 1 /\ 1 \in 1 .. Len(r)
            BY <1>2, <1>4, <4>1
          <5>. QED BY <1>3, <2>2, <3>2, <5>1 DEF q
        <4>3. r[1] \in Node /\ Whole(r[1])
          BY <1>1, <1>2, <4>2, ElementOfSeq DEF ReceivedOK
        <4>. QED BY <4>2, <4>3, WholeIsPart
      <3>. QED BY <3>1, <3>2
    <2>4. First <= q[1].ts /\ q[1].ts < Top /\ q[1].ts \in Nat
      BY <2>3, PartRange, NodeTypes
    <2>5. q[1].ts \in First .. Top
      BY <2>4, BufferConstants
    <2>. QED BY <2>1, <2>2, <2>5 DEF q
  <1>5. ASSUME p \o r # <<>> PROVE 1 <= Len(p) + Len(r)
    <2>. DEFINE q == p \o r
    <2>1. Len(q) \in Nat \ {0}
      <3>1. q \in Seq(Node) /\ q # <<>>
        BY <1>3, <1>5
      <3>. HIDE DEF q
      <3>. QED BY <3>1, EmptySeq
    <2>2. Len(q) = Len(p) + Len(r)
      BY <1>3
    <2>. HIDE DEF q
    <2>. QED BY <1>2, <2>1, <2>2
  <1>. QED BY <1>4, <1>5

\* RTPJitterBufferPut tosses what is too late or too much, and puts the node in its place.
LEMMA ReceiveStep ==
    ASSUME NoWrap, BufferInv, NEW k \in 0 .. MaxPackets - 1, Receive(k)
    PROVE  /\ BufferInv'
           /\ EnoughNodes => (rx = "idle" => free > 0)'
  <1>. USE DEF BufferInv
  <1>. DEFINE ts == First + k * D
              p == IF Crowded THEN PreparedKept ELSE prepared
              r == IF Crowded THEN ReceivedKept ELSE received
              gone == IF Crowded THEN Discarded ELSE 0
              ok == ~Refused(p, r, ts)
              x == Len(p)
              y == Len(r)
  <1>1. PutBusyNode(ts) /\ Starts(ts)
    BY StreamTS DEF Receive
  <1>. HIDE DEF ts
  <1>2. /\ rx = "node" /\ dpc # "pass"
        /\ prepared' = p
        /\ received' = IF ok THEN InsertAt(r, Place(r, ts), [ts |-> ts, len |-> D]) ELSE r
        /\ nextTS' = IF Crowded THEN Head(p \o r).ts ELSE nextTS
        /\ nodesUsed' = nodesUsed - gone + (IF ok THEN 1 ELSE 0)
        /\ free' = free + gone
        /\ dpc' = IF ok THEN Signalled ELSE dpc
        /\ start' = IF ok /\ buffering /\ start = "none" THEN "ahead" ELSE start
        /\ rx' = IF ok THEN "idle" ELSE "put"
        /\ UNCHANGED <<decoder, buffering, heard, nextDecodeTS, decoding, teardown>>
    BY <1>1 DEF PutBusyNode, Unlocked
  <1>3. fpc = "no" /\ fpc' = "no" /\ decodeDone' = decodeDone
    BY <1>2 DEF CountsInv, teardown
  <1>4. /\ PreparedOK(p) /\ ReceivedOK(r) /\ EndsBy(p, nextDecodeTS) /\ StartsFrom(p, heard)
        /\ Apart(p, r) /\ (dpc = "decode" => Has(r, decoding))
        /\ Crowded => Samples(p, r) <= Desired
    <2>1. CASE Crowded
      BY <1>2, <2>1, KeptLists DEF KeptOK
    <2>2. CASE ~Crowded
      BY <1>2, <2>2 DEF ListsInv, TimesInv, DecodeInv
    <2>. QED BY <2>1, <2>2
  <1>5. x \in Nat /\ y \in Nat
    BY <1>4, LenProperties DEF PreparedOK, ReceivedOK
  <1>6. /\ free \in Nat /\ nodesUsed \in Nat /\ Nodes \in Nat /\ Nodes > 3
        /\ free + nodesUsed + 1 = Nodes
    BY <1>2, BufferConstants DEF CountsInv, BufferTypeOK
  <1>7. gone \in Nat /\ nodesUsed - gone = x + y /\ (Crowded => 1 <= x + y)
        /\ (~Crowded => nodesUsed < Nodes - 3 /\ gone = 0)
    <2>1. nodesUsed = Len(received) + Len(prepared) /\ Len(received) \in Nat /\ Len(prepared) \in Nat
      BY <1>3, LenProperties DEF CountsInv, BufferTypeOK
    <2>2. CASE Crowded
      <3>1. Len(PreparedKept) <= Len(prepared) /\ Len(ReceivedKept) <= Len(received)
            /\ (1 <= Len(prepared) + Len(received) => 1 <= Len(PreparedKept) + Len(ReceivedKept))
        BY KeptLists DEF KeptOK
      <3>2. p = PreparedKept /\ r = ReceivedKept /\ gone = Discarded
        BY <2>2
      <3>3. gone = Len(prepared) + Len(received) - x - y /\ x <= Len(prepared) /\ y <= Len(received)
            /\ (1 <= Len(prepared) + Len(received) => 1 <= x + y)
        BY <3>1, <3>2 DEF Discarded
      <3>4. nodesUsed >= Nodes - 3
        BY <2>2 DEF Crowded
      <3>. HIDE DEF p, r, gone, x, y
      <3>5. 1 <= Len(prepared) + Len(received)
        BY <1>6, <2>1, <3>4
      <3>. QED BY <1>5, <2>1, <2>2, <3>3, <3>5
    <2>3. CASE ~Crowded
      <3>1. gone = 0 /\ x = Len(prepared) /\ y = Len(received) /\ ~(nodesUsed >= Nodes - 3)
        BY <2>3 DEF Crowded
      <3>. HIDE DEF p, r, gone, x, y
      <3>. QED BY <1>6, <2>1, <2>3, <3>1
    <2>. QED BY <2>2, <2>3
  <1>. HIDE DEF p, r, gone, ok
  <1>8. TimesInv' /\ nextTS' \in TS
    <2>1. Crowded => nextTS' \in First .. Top
      <3>1. CASE Crowded
        <4>1. Head(p \o r).ts \in First .. Top
          BY <1>4, <1>7, <3>1, FirstOfBoth
        <4>. QED BY <1>2, <3>1, <4>1
      <3>. QED BY <3>1
    <2>2. nextTS' \in TS
      BY <1>2, <2>1, StreamTS DEF BufferTypeOK
    <2>3. ~buffering' => nextTS' \in First .. Top
      BY <1>2, <2>1 DEF TimesInv
    <2>4. heard \in First .. Top /\ (heard = First \/ heard <= nextDecodeTS)
          /\ nextDecodeTS \in 0 .. Top
      BY DEF TimesInv
    <2>. QED BY <1>2, <1>4, <2>2, <2>3, <2>4, TimesNext
  <1>9. /\ start' \in {"none", "ahead", "past"} /\ rx' \in {"idle", "node", "put"}
         /\ sent' \in 0 .. MaxPackets
    <2>1. start' \in {"none", "ahead", "past"} /\ rx' \in {"idle", "node", "put"}
      BY <1>2 DEF BufferTypeOK
    <2>2. sent' = sent \/ sent' = k + 1
      BY DEF Receive
    <2>3. k + 1 \in 0 .. MaxPackets
      BY BufferConstants
    <2>. QED BY <2>1, <2>2, <2>3 DEF BufferTypeOK
  <1>10. ASSUME ListsInv', dpc' \in {"check", "lock", "waiting", "woken", "pass", "decode", "exit"},
                free' \in 0 .. Nodes, nodesUsed' \in 0 .. Nodes
         PROVE  BufferTypeOK'
    <2>1. (received \in Seq(Node) /\ prepared \in Seq(Node))'
      BY <1>10 DEF ListsInv, ReceivedOK, PreparedOK
    <2>. QED BY <1>2, <1>3, <1>8, <1>9, <1>10, <2>1 DEF BufferTypeOK
  <1>11. CASE ok
    <2>. DEFINE q == InsertAt(r, Place(r, ts), [ts |-> ts, len |-> D])
    <2>1. /\ ReceivedOK(q) /\ Apart(p, q) /\ Len(q) = y + 1
          /\ \A t : Has(r, t) => Has(q, t)
      BY <1>1, <1>4, <1>11, InsertKeeps DEF ok
    <2>2. received' = q /\ prepared' = p /\ dpc' = Signalled /\ rx' = "idle"
          /\ nodesUsed' = nodesUsed - gone + 1 /\ free' = free + gone
      BY <1>2, <1>11
    <2>. HIDE DEF q
    <2>3. /\ dpc' \in {"check", "lock", "waiting", "woken", "pass", "decode", "exit"}
          /\ dpc' = "pass" <=> dpc = "pass"
          /\ dpc' = "decode" <=> dpc = "decode"
          /\ dpc' = "exit" <=> dpc = "exit"
      BY <2>2, SignalledIs
    <2>4. ListsInv'
      BY <1>2, <1>4, <2>1, <2>2, <2>3, ListsNext
    <2>5. DecodeInv'
      BY <1>2, <1>4, <2>1, <2>2, <2>3 DEF DecodeInv, Has
    <2>6. CountsInv' /\ free' \in 0 .. Nodes /\ nodesUsed' \in 0 .. Nodes
      <3>1. nodesUsed' = Len(received') + Len(prepared')
        BY <1>5, <1>6, <1>7, <2>1, <2>2 DEF x, y
      <3>2. free' + nodesUsed' = Nodes /\ free' \in 0 .. Nodes /\ nodesUsed' \in 0 .. Nodes
        BY <1>5, <1>6, <1>7, <2>2
      <3>3. (free + nodesUsed + (IF rx = "idle" THEN 0 ELSE 1) = Nodes)'
        BY <1>6, <1>7, <2>2, <3>2
      <3>. QED BY <1>3, <2>2, <3>1, <3>2, <3>3 DEF CountsInv
    <2>7. EnoughNodes => free' > 0
      <3>1. ASSUME EnoughNodes PROVE x + y < Nodes - 1
        <4>1. CASE Crowded
          <5>1. Len(p) + Len(r) <= Nodes - 2
            BY <1>4, <3>1, <4>1, CountBound DEF BufferTypeOK
          <5>. QED BY <1>5, <1>6, <5>1
        <4>2. CASE ~Crowded
          BY <1>5, <1>6, <1>7, <4>2
        <4>. QED BY <4>1, <4>2
      <3>2. x + y < Nodes - 1 => free' > 0
        BY <1>5, <1>6, <1>7, <2>2
      <3>. QED BY <3>1, <3>2
    <2>8. BufferTypeOK'
      BY <1>10, <2>3, <2>4, <2>6
    <2>. QED BY <1>8, <2>2, <2>4, <2>5, <2>6, <2>7, <2>8
  <1>12. CASE ~ok
    <2>1. received' = r /\ prepared' = p /\ dpc' = dpc /\ rx' = "put"
          /\ nodesUsed' = nodesUsed - gone /\ free' = free + gone
      BY <1>2, <1>6, <1>7, <1>12
    <2>2. ListsInv'
      BY <1>2, <1>4, <2>1, ListsNext
    <2>3. DecodeInv'
      BY <1>2, <1>4, <2>1 DEF DecodeInv, Has
    <2>4. CountsInv' /\ free' \in 0 .. Nodes /\ nodesUsed' \in 0 .. Nodes
      <3>1. nodesUsed' = Len(received') + Len(prepared')
        BY <1>5, <1>6, <1>7, <2>1 DEF x, y
      <3>2. free' + nodesUsed' + 1 = Nodes /\ free' \in 0 .. Nodes /\ nodesUsed' \in 0 .. Nodes
        BY <1>5, <1>6, <1>7, <2>1
      <3>3. (free + nodesUsed + (IF rx = "idle" THEN 0 ELSE 1) = Nodes)'
        BY <2>1, <3>2
      <3>. QED BY <1>3, <2>1, <3>1, <3>2, <3>3 DEF CountsInv
    <2>5. BufferTypeOK'
      BY <1>10, <2>1, <2>2, <2>4 DEF BufferTypeOK
    <2>. QED BY <1>8, <2>1, <2>2, <2>3, <2>4, <2>5
  <1>. QED BY <1>11, <1>12

\* A list that ends by a time ends by any later one.
LEMMA EndsByLater ==
    ASSUME NEW p \in Seq(Node), NEW a \in Nat, NEW b \in Nat, a <= b, EndsBy(p, a)
    PROVE  EndsBy(p, b)
  <1>1. \A i \in DOMAIN p : p[i].ts \in Nat /\ p[i].len \in Nat
    BY ElementOfSeq, LenProperties, NodeTypes
  <1>2. ASSUME NEW i \in DOMAIN p PROVE p[i].ts < b /\ p[i].ts + p[i].len <= b
    <2>1. p[i].ts < a /\ p[i].ts + p[i].len <= a /\ p[i].ts \in Nat /\ p[i].len \in Nat
      BY <1>1 DEF EndsBy
    <2>. QED BY <2>1
  <1>. QED BY <1>2 DEF EndsBy

\* Steps of the decode thread that move no node.
LEMMA ThinkSteps ==
    ASSUME NoWrap, BufferInv, ToWait \/ Wait \/ Woken \/ StartDecode \/ SkipGap \/ EndPass
    PROVE  BufferInv' /\ free' = free /\ rx' = rx
  <1>. USE DEF BufferInv
  <1>1. /\ UNCHANGED <<decoder, free, received, prepared, nodesUsed, nextTS, buffering, start, heard,
                       rx, decodeDone, fpc, sent>>
        /\ dpc # "exit"
    BY DEF ToWait, Wait, Woken, StartDecode, SkipGap, EndPass, Looks, lists, play, teardown
  <1>2. CountsInv'
    BY <1>1 DEF CountsInv
  <1>3. ReceivedOK(received) /\ PreparedOK(prepared) /\ EndsBy(prepared, nextDecodeTS)
        /\ prepared \in Seq(Node) /\ received \in Seq(Node) /\ nextDecodeTS \in Nat
    BY BufferConstants DEF ListsInv, TimesInv, BufferTypeOK, TS
  <1>4. ASSUME received # <<>>
        PROVE  /\ Starts(Head(received).ts) /\ Head(received).ts \in Nat /\ Head(received).ts \in 0 .. Top
               /\ \A i \in DOMAIN received : Head(received).ts <= received[i].ts
               /\ \A i \in DOMAIN received : received[i].ts \in Nat
               /\ Has(received, Head(received).ts)
    <2>1. Whole(Head(received)) /\ (\A i \in DOMAIN received : Head(received).ts <= received[i].ts)
          /\ Head(received) = received[1] /\ 1 \in DOMAIN received
      BY <1>3, <1>4, TailKeeps
    <2>2. Starts(Head(received).ts) /\ \A i \in DOMAIN received : Starts(received[i].ts)
      BY <1>3, <2>1 DEF Whole, ReceivedOK
    <2>3. Head(received).ts \in Nat /\ Head(received).ts + D <= Top
      BY <2>2, StartsRange
    <2>4. Head(received).ts \in 0 .. Top
      BY <2>3, BufferConstants
    <2>. QED BY <2>1, <2>2, <2>3, <2>4, StartsRange DEF Has
  <1>5. CASE ToWait \/ Wait \/ Woken
    <2>1. /\ dpc # "pass" /\ dpc' \in {"lock", "waiting", "pass", "exit"}
          /\ nextDecodeTS' = nextDecodeTS /\ decoding' = decoding
      BY <1>5 DEF ToWait, Wait, Woken
    <2>2. ListsInv' /\ TimesInv'
      BY <1>1, <2>1, ListsStay, TimesStay
    <2>3. BufferTypeOK'
      BY <1>1, <2>1 DEF BufferTypeOK
    <2>. QED BY <1>1, <1>2, <2>1, <2>2, <2>3 DEF DecodeInv
  <1>6. CASE StartDecode
    <2>1. /\ received # <<>> /\ Head(received).ts = nextDecodeTS /\ decoder
          /\ decoding' = nextDecodeTS /\ dpc' = "decode" /\ nextDecodeTS' = nextDecodeTS
      BY <1>6 DEF StartDecode, Looks, InTurn
    <2>2. Apart(prepared, received)
      <3>1. ASSUME NEW i \in DOMAIN prepared, NEW j \in DOMAIN received
            PROVE  prepared[i].ts < received[j].ts
        <4>1. prepared[i].ts < nextDecodeTS /\ nextDecodeTS <= received[j].ts /\ received[j].ts \in Nat
          BY <1>3, <1>4, <2>1 DEF EndsBy
        <4>2. prepared[i].ts \in Nat
          BY <1>3, ElementOfSeq, LenProperties, NodeTypes
        <4>. QED BY <1>3, <4>1, <4>2
      <3>. QED BY <3>1 DEF Apart
    <2>3. ListsInv' /\ TimesInv'
      BY <1>1, <2>1, <2>2, ListsStay, TimesStay
    <2>4. DecodeInv'
      BY <1>1, <1>4, <2>1 DEF DecodeInv, Has
    <2>5. BufferTypeOK'
      BY <1>1, <2>1 DEF BufferTypeOK
    <2>. QED BY <1>1, <1>2, <2>3, <2>4, <2>5
  <1>7. CASE SkipGap
    <2>1. /\ received # <<>> /\ Head(received).ts > nextDecodeTS /\ dpc = "pass" /\ dpc' = "pass"
          /\ nextDecodeTS' = Head(received).ts /\ decoding' = decoding
      BY <1>7 DEF SkipGap, Looks, Ahead
    <2>2. Head(received).ts \in Nat /\ nextDecodeTS <= Head(received).ts
          /\ Head(received).ts \in 0 .. Top
      BY <1>3, <1>4, <2>1
    <2>3. EndsBy(prepared, nextDecodeTS')
      BY <1>3, <2>1, <2>2, EndsByLater
    <2>4. ListsInv'
      BY <1>1, <1>3, <2>1, <2>3, ListsNext
    <2>5. TimesInv'
      <3>1. heard \in First .. Top /\ (heard = First \/ heard <= nextDecodeTS) /\ heard \in Nat
            /\ (~buffering => nextTS \in First .. Top) /\ StartsFrom(prepared, heard)
        BY BufferConstants DEF TimesInv
      <3>2. heard = First \/ heard <= nextDecodeTS'
        BY <1>3, <2>1, <2>2, <3>1
      <3>. QED BY <1>1, <2>1, <2>2, <3>1, <3>2, TimesNext
    <2>6. BufferTypeOK'
      BY <1>1, <2>1, <2>2, StreamTS DEF BufferTypeOK
    <2>. QED BY <1>1, <1>2, <2>1, <2>4, <2>5, <2>6 DEF DecodeInv
  <1>8. CASE EndPass
    <2>1. /\ received # <<>> => Head(received).ts > nextDecodeTS
          /\ dpc' = "check" /\ nextDecodeTS' = nextDecodeTS /\ decoding' = decoding
      BY <1>8 DEF EndPass, Ahead
    <2>2. Apart(prepared, received)
      <3>1. ASSUME NEW i \in DOMAIN prepared, NEW j \in DOMAIN received
            PROVE  prepared[i].ts < received[j].ts
        <4>1. received # <<>>
          BY EmptySeq
        <4>2. prepared[i].ts < nextDecodeTS /\ Head(received).ts <= received[j].ts
              /\ received[j].ts \in Nat /\ Head(received).ts > nextDecodeTS /\ Head(received).ts \in Nat
          BY <1>3, <1>4, <2>1, <4>1 DEF EndsBy
        <4>3. prepared[i].ts \in Nat
          BY <1>3, ElementOfSeq, LenProperties, NodeTypes
        <4>. QED BY <1>3, <4>2, <4>3
      <3>. QED BY <3>1 DEF Apart
    <2>3. ListsInv' /\ TimesInv'
      BY <1>1, <2>1, <2>2, ListsStay, TimesStay
    <2>4. BufferTypeOK'
      BY <1>1, <2>1 DEF BufferTypeOK
    <2>. QED BY <1>1, <1>2, <2>1, <2>3, <2>4 DEF DecodeInv
  <1>. QED BY <1>5, <1>6, <1>7, <1>8

\* Steps of the decode thread that move a node or give it back.
LEMMA MoveSteps ==
    ASSUME NoWrap, BufferInv, DecodeFails \/ Move \/ Toss \/ (\E len \in 0 .. D : Decoded(len))
    PROVE  BufferInv' /\ free' >= free /\ rx' = rx
  <1>. USE DEF BufferInv
  <1>1. /\ UNCHANGED <<decoder, nextTS, buffering, start, heard, rx, decodeDone, fpc, sent, decoding>>
        /\ dpc # "exit" /\ dpc' = "pass"
    BY DEF DecodeFails, Move, Toss, Decoded, Looks, play, teardown, decode
  <1>2. ReceivedOK(received) /\ PreparedOK(prepared) /\ EndsBy(prepared, nextDecodeTS)
        /\ prepared \in Seq(Node) /\ received \in Seq(Node)
        /\ Len(received) \in Nat /\ Len(prepared) \in Nat
    BY LenProperties DEF ListsInv, BufferTypeOK
  <1>3. fpc # "freed" /\ nodesUsed = Len(received) + Len(prepared)
        /\ free + nodesUsed + (IF rx = "idle" THEN 0 ELSE 1) = Nodes
        /\ free \in Nat /\ nodesUsed \in Nat /\ Nodes \in Nat
    BY <1>1, BufferConstants DEF CountsInv, BufferTypeOK
  <1>4. heard \in First .. Top /\ (heard = First \/ heard <= nextDecodeTS) /\ heard \in Nat
        /\ nextDecodeTS \in 0 .. Top /\ nextDecodeTS \in Nat
        /\ (~buffering => nextTS \in First .. Top) /\ StartsFrom(prepared, heard)
    BY BufferConstants DEF TimesInv
  <1>5. DecodeInv'
    BY <1>1 DEF DecodeInv
  <1>6. ASSUME ListsInv', TimesInv', free' \in Nat, free' >= free, nodesUsed' \in Nat,
               nodesUsed' = Len(received') + Len(prepared'), free' + nodesUsed' = free + nodesUsed
        PROVE  BufferInv' /\ free' >= free /\ rx' = rx
    <2>1. CountsInv'
      BY <1>1, <1>3, <1>6 DEF CountsInv
    <2>2. (received \in Seq(Node) /\ prepared \in Seq(Node))'
      BY <1>6 DEF ListsInv, ReceivedOK, PreparedOK
    <2>3. free' \in 0 .. Nodes /\ nodesUsed' \in 0 .. Nodes
      BY <1>3, <1>6
    <2>4. nextDecodeTS' \in TS
      BY <1>6, StreamTS DEF TimesInv
    <2>5. BufferTypeOK'
      BY <1>1, <2>2, <2>3, <2>4 DEF BufferTypeOK
    <2>. QED BY <1>1, <1>5, <1>6, <2>1, <2>5
  <1>7. CASE DecodeFails
    <2>. DEFINE q == Without(received, decoding)
    <2>1. /\ dpc = "decode" /\ received' = q /\ free' = free + 1 /\ nodesUsed' = nodesUsed - 1
          /\ prepared' = prepared /\ nextDecodeTS' = nextDecodeTS
      BY <1>7 DEF DecodeFails, UsedWithout
    <2>2. ReceivedOK(q) /\ Len(q) = Len(received) - 1 /\ 1 <= Len(received)
      BY <1>2, <2>1, WithoutKeeps DEF DecodeInv
    <2>. HIDE DEF q
    <2>3. ListsInv'
      BY <1>1, <1>2, <2>1, <2>2, ListsNext
    <2>4. TimesInv'
      BY <1>1, <2>1, TimesStay
    <2>5. free' \in Nat /\ free' >= free /\ nodesUsed' \in Nat
          /\ nodesUsed' = Len(received') + Len(prepared') /\ free' + nodesUsed' = free + nodesUsed
      BY <1>2, <1>3, <2>1, <2>2
    <2>. QED BY <1>6, <2>3, <2>4, <2>5
  <1>8. CASE Toss
    <2>. DEFINE q == Tail(received)
    <2>1. /\ received # <<>> /\ received' = q /\ free' = free + 1 /\ nodesUsed' = nodesUsed - 1
          /\ prepared' = prepared /\ nextDecodeTS' = nextDecodeTS
      BY <1>8 DEF Toss, Looks, decode
    <2>2. ReceivedOK(q) /\ Len(q) = Len(received) - 1 /\ 1 <= Len(received)
      BY <1>2, <2>1, TailKeeps
    <2>. HIDE DEF q
    <2>3. ListsInv'
      BY <1>1, <1>2, <2>1, <2>2, ListsNext
    <2>4. TimesInv'
      BY <1>1, <2>1, TimesStay
    <2>5. free' \in Nat /\ free' >= free /\ nodesUsed' \in Nat
          /\ nodesUsed' = Len(received') + Len(prepared') /\ free' + nodesUsed' = free + nodesUsed
      BY <1>2, <1>3, <2>1, <2>2
    <2>. QED BY <1>6, <2>3, <2>4, <2>5
  <1>9. ASSUME NEW n \in Node, n.ts = nextDecodeTS, n.len = D \/ decoder, NEW q,
               ReceivedOK(q), Len(q) = Len(received) - 1, 1 <= Len(received), Starts(n.ts),
               received' = q, prepared' = Append(prepared, n), nextDecodeTS' = Plus(nextDecodeTS, D),
               UNCHANGED <<free, nodesUsed>>
        PROVE  BufferInv' /\ free' >= free /\ rx' = rx
    <2>. DEFINE p == Append(prepared, n)
    <2>1. /\ PreparedOK(p) /\ EndsBy(p, nextDecodeTS + D) /\ Len(p) = Len(prepared) + 1
          /\ \A h \in Nat : StartsFrom(prepared, h) /\ h <= nextDecodeTS => StartsFrom(p, h)
      BY <1>2, <1>9, AppendKeeps
    <2>2. prepared' = p
      BY <1>9
    <2>. HIDE DEF p
    <2>3. First <= nextDecodeTS /\ nextDecodeTS + D <= Top
      BY <1>9, StartsRange
    <2>4. nextDecodeTS' = nextDecodeTS + D /\ nextDecodeTS + D \in 0 .. Top
          /\ nextDecodeTS <= nextDecodeTS + D
      <3>1. Top < Modulus /\ D \in Nat /\ Top \in Nat /\ Modulus \in Nat
        BY BufferConstants DEF NoWrap
      <3>2. nextDecodeTS + D < Modulus
        BY <1>4, <2>3, <3>1
      <3>. QED BY <1>4, <1>9, <2>3, <3>1, <3>2, PlainPlus
    <2>5. ListsInv'
      BY <1>1, <1>9, <2>1, <2>2, <2>4, ListsNext
    <2>6. TimesInv'
      <3>1. heard <= nextDecodeTS
        BY <1>4, <2>3
      <3>2. StartsFrom(p, heard)
        BY <1>4, <2>1, <3>1
      <3>3. heard = First \/ heard <= nextDecodeTS'
        BY <1>4, <2>4, <3>1
      <3>. QED BY <1>1, <1>4, <2>2, <2>4, <3>2, <3>3, TimesNext
    <2>7. free' \in Nat /\ free' >= free /\ nodesUsed' \in Nat
          /\ nodesUsed' = Len(received') + Len(prepared') /\ free' + nodesUsed' = free + nodesUsed
      BY <1>2, <1>3, <1>9, <2>1, <2>2
    <2>. QED BY <1>6, <2>5, <2>6, <2>7
  <1>10. CASE Move
    <2>1. /\ received # <<>> /\ Head(received).ts = nextDecodeTS
          /\ received' = Tail(received) /\ prepared' = Append(prepared, Head(received))
          /\ nextDecodeTS' = Plus(nextDecodeTS, Head(received).len)
          /\ UNCHANGED <<free, nodesUsed>>
      BY <1>10 DEF Move, Looks, InTurn
    <2>2. /\ ReceivedOK(Tail(received)) /\ Len(Tail(received)) = Len(received) - 1
          /\ 1 <= Len(received) /\ Head(received) \in Node /\ Whole(Head(received))
      BY <1>2, <2>1, TailKeeps
    <2>3. Starts(Head(received).ts) /\ Head(received).len = D
      BY <2>2 DEF Whole
    <2>. QED BY <1>9, <2>1, <2>2, <2>3
  <1>11. ASSUME NEW len \in 0 .. D, Decoded(len) PROVE BufferInv' /\ free' >= free /\ rx' = rx
    <2>. DEFINE n == [ts |-> decoding, len |-> len]
                q == Without(received, decoding)
    <2>1. /\ dpc = "decode" /\ received' = q /\ prepared' = Append(prepared, n)
          /\ nextDecodeTS' = Plus(nextDecodeTS, D) /\ UNCHANGED <<free, nodesUsed>>
      BY <1>11 DEF Decoded
    <2>2. decoder /\ decoding = nextDecodeTS /\ Has(received, decoding)
      BY <2>1 DEF DecodeInv
    <2>3. ReceivedOK(q) /\ Len(q) = Len(received) - 1 /\ 1 <= Len(received)
      BY <1>2, <2>2, WithoutKeeps
    <2>4. Starts(decoding)
      BY <1>2, <2>2 DEF Has, ReceivedOK, Whole
    <2>5. n \in Node /\ n.ts = nextDecodeTS /\ (n.len = D \/ decoder)
      <3>1. decoding \in TS /\ len \in 0 .. D
        BY BufferConstants DEF BufferTypeOK
      <3>. QED BY <2>2, <3>1 DEF Node
    <2>. HIDE DEF n, q
    <2>. QED BY <1>9, <2>1, <2>2, <2>3, <2>4, <2>5
  <1>. QED BY <1>7, <1>8, <1>10, <1>11

\* RTPJitterBufferRead.
LEMMA ReadStep ==
    ASSUME NoWrap, BufferInv, Read
    PROVE  BufferInv' /\ free' >= free /\ rx' = rx
  <1>. USE DEF BufferInv
  <1>. DEFINE trims == buffering /\ prepared \o received # <<>>
              p == IF trims THEN PreparedKept ELSE prepared
              r == IF trims THEN ReceivedKept ELSE received
              lim == Plus(ReadsFrom, L)
              rest == Rest(p, lim)
              q == CutRest(rest, lim)
              ends == HeardEnds(p, ReadsFrom, lim)
              h == Furthest(ends, heard)
              dry == rest = <<>> /\ lim \notin {End(p[i]) : i \in DOMAIN p}
              excess == IF trims THEN Discarded ELSE 0
              gone == excess + Len(p) - Len(rest)
  <1>1. /\ dpc # "pass" /\ fpc = "no"
        /\ prepared' = q /\ received' = r
        /\ free' = free + gone /\ nodesUsed' = nodesUsed - gone
        /\ dpc' = IF Len(rest) < Len(p) THEN Signalled ELSE dpc
        /\ nextTS' = lim /\ buffering' = dry
        /\ start' = IF dry THEN "none" ELSE start
        /\ heard' = h
        /\ UNCHANGED <<decoder, nextDecodeTS, decoding, rx, decodeDone, fpc, sent>>
    BY DEF Read, Unlocked, teardown
  <1>2. /\ PreparedOK(prepared) /\ ReceivedOK(received)
        /\ Len(prepared) \in Nat /\ Len(received) \in Nat
    BY LenProperties DEF ListsInv, BufferTypeOK
  <1>3. /\ PreparedOK(p) /\ ReceivedOK(r) /\ EndsBy(p, nextDecodeTS) /\ StartsFrom(p, heard)
        /\ Apart(p, r) /\ (dpc = "decode" => Has(r, decoding))
    <2>1. CASE trims
      BY <1>1, <2>1, KeptLists DEF KeptOK
    <2>2. CASE ~trims
      BY <1>1, <2>2 DEF ListsInv, TimesInv, DecodeInv
    <2>. QED BY <2>1, <2>2
  <1>4. Len(p) \in Nat /\ Len(r) \in Nat
    BY <1>3, LenProperties DEF PreparedOK, ReceivedOK
  <1>5. excess \in Nat /\ Len(prepared) + Len(received) - excess = Len(p) + Len(r)
    <2>1. CASE trims
      <3>1. Len(PreparedKept) <= Len(prepared) /\ Len(ReceivedKept) <= Len(received)
        BY KeptLists DEF KeptOK
      <3>2. Len(PreparedKept) = Len(p) /\ Len(ReceivedKept) = Len(r)
        BY <2>1
      <3>3. excess = Len(prepared) + Len(received) - Len(p) - Len(r)
        BY <2>1, <3>2 DEF Discarded
      <3>4. Len(p) <= Len(prepared) /\ Len(r) <= Len(received)
        BY <3>1, <3>2
      <3>. HIDE DEF p, r, excess
      <3>. QED BY <1>2, <1>4, <3>3, <3>4
    <2>2. CASE ~trims
      <3>1. excess = 0 /\ Len(p) = Len(prepared) /\ Len(r) = Len(received)
        BY <2>2
      <3>. HIDE DEF p, r, excess
      <3>. QED BY <1>2, <3>1
    <2>. QED BY <2>1, <2>2
  <1>6. ReadsFrom \in First .. Top \/ (prepared \o received = <<>> /\ buffering)
    <2>1. CASE ~buffering
      BY <2>1 DEF ReadsFrom, TimesInv
    <2>2. CASE buffering /\ prepared \o received # <<>>
      <3>1. Head(prepared \o received).ts \in First .. Top
        BY <1>2, <2>2, FirstOfBoth
      <3>. QED BY <2>2, <3>1 DEF ReadsFrom
    <2>. QED BY <2>1, <2>2
  <1>7. heard \in First .. Top /\ (heard = First \/ heard <= nextDecodeTS) /\ nextDecodeTS \in 0 .. Top
    BY DEF TimesInv
  <1>8. /\ PreparedOK(q) /\ EndsBy(q, nextDecodeTS) /\ StartsFrom(q, h)
        /\ Len(q) = Len(rest) /\ Len(rest) <= Len(p)
        /\ h \in First .. Top /\ (h = First \/ h <= nextDecodeTS)
        /\ Apart(q, r)
        /\ ~dry => lim \in First .. Top
    <2>1. CASE ReadsFrom \in First .. Top
      <3>. HIDE DEF p, r
      <3>1. /\ PreparedOK(q) /\ EndsBy(q, nextDecodeTS) /\ StartsFrom(q, h)
            /\ Len(q) = Len(rest) /\ Len(rest) <= Len(p)
            /\ h \in First .. Top /\ (h = First \/ h <= nextDecodeTS)
            /\ \A s : ReceivedOK(s) /\ Apart(p, s) => Apart(q, s)
            /\ rest # <<>> \/ lim \in {End(p[i]) : i \in DOMAIN p} => lim \in First .. Top
        BY <1>3, <1>7, <2>1, ReadKeeps
      <3>. HIDE DEF q, h, rest, lim
      <3>. QED BY <1>3, <3>1
    <2>2. CASE prepared \o received = <<>> /\ buffering
      <3>1. Len(prepared) = 0
        <4>1. ~(1 <= Len(prepared) + Len(received))
          BY <1>2, <2>2, FirstOfBoth
        <4>. QED BY <1>2, <4>1
      <3>2. p = <<>>
        <4>1. prepared = <<>>
          BY <3>1, EmptySeq DEF BufferTypeOK
        <4>. QED BY <2>2, <4>1
      <3>. HIDE DEF p, r, lim
      <3>3. Reaches(p, lim) = {}
        BY <3>2 DEF Reaches
      <3>4. Cardinality({}) = 0
        BY FS_EmptySet
      <3>5. rest = <<>>
        BY <3>2, <3>3, <3>4 DEF Rest
      <3>6. q = <<>>
        BY <3>5 DEF CutRest
      <3>7. ends = {}
        BY <3>2, <3>3 DEF HeardEnds
      <3>8. h = heard
        BY <3>7 DEF Furthest
      <3>9. dry
        BY <3>2, <3>5
      <3>. HIDE DEF q, h, rest, dry
      <3>. QED BY <1>3, <1>4, <1>7, <3>2, <3>5, <3>6, <3>8, <3>9
    <2>. QED BY <1>6, <2>1, <2>2
  <1>. HIDE DEF trims, p, r, rest, q, ends, h, dry, excess
  <1>9. /\ dpc' \in {"check", "lock", "waiting", "woken", "pass", "decode", "exit"}
        /\ dpc' = "pass" <=> dpc = "pass"
        /\ dpc' = "decode" <=> dpc = "decode"
        /\ dpc' = "exit" <=> dpc = "exit"
    BY <1>1, SignalledIs DEF BufferTypeOK
  <1>10. ListsInv'
    BY <1>1, <1>3, <1>8, ListsNext
  <1>11. TimesInv'
    BY <1>1, <1>7, <1>8, TimesNext
  <1>12. DecodeInv'
    BY <1>1, <1>3, <1>9 DEF DecodeInv, Has
  <1>13. /\ Len(rest) \in Nat /\ gone \in Nat /\ nodesUsed \in Nat /\ free \in Nat /\ Nodes \in Nat
         /\ nodesUsed = Len(received) + Len(prepared)
         /\ free + nodesUsed + (IF rx = "idle" THEN 0 ELSE 1) = Nodes
    <2>1. Len(rest) \in Nat
      BY <1>8, LenProperties DEF PreparedOK
    <2>2. gone \in Nat
      BY <1>4, <1>5, <1>8, <2>1
    <2>. QED BY <1>1, <2>1, <2>2, BufferConstants DEF CountsInv, BufferTypeOK
  <1>14. nodesUsed - gone = Len(r) + Len(q)
    BY <1>2, <1>4, <1>5, <1>8, <1>13, SMTT(60)
  <1>15. free' \in 0 .. Nodes /\ nodesUsed' \in 0 .. Nodes /\ free' >= free
         /\ free' + nodesUsed' = free + nodesUsed /\ nodesUsed' = Len(received') + Len(prepared')
    <2>1. nodesUsed' = Len(received') + Len(prepared') /\ nodesUsed' \in Nat
      BY <1>1, <1>4, <1>8, <1>13, <1>14, SMTT(60)
    <2>2. free' + nodesUsed' = free + nodesUsed /\ free' >= free /\ free' \in Nat
      <3>. HIDE DEF gone
      <3>. QED BY <1>1, <1>13
    <2>3. free + nodesUsed <= Nodes
      BY <1>13
    <2>. QED BY <1>13, <2>1, <2>2, <2>3
  <1>16. CountsInv'
    BY <1>1, <1>13, <1>15 DEF CountsInv
  <1>17. BufferTypeOK'
    <2>1. (received \in Seq(Node) /\ prepared \in Seq(Node))'
      BY <1>10 DEF ListsInv, ReceivedOK, PreparedOK
    <2>2. nextTS' \in TS
      <3>1. lim = (ReadsFrom + L) % Modulus
        BY DEF Plus
      <3>2. ReadsFrom + L \in Int
        <4>1. ReadsFrom \in Int
          BY <1>6, BufferConstants DEF ReadsFrom
        <4>. QED BY <4>1, BufferConstants
      <3>. HIDE DEF lim
      <3>. QED BY <1>1, <3>1, <3>2, BufferConstants DEF TS
    <2>3. heard' \in TS /\ buffering' \in BOOLEAN /\ start' \in {"none", "ahead", "past"}
      BY <1>1, <1>8, StreamTS DEF BufferTypeOK, dry
    <2>. QED BY <1>1, <1>9, <1>15, <2>1, <2>2, <2>3 DEF BufferTypeOK
  <1>. QED BY <1>1, <1>10, <1>11, <1>12, <1>15, <1>16, <1>17

\* RTPJitterBufferFree, when the decode thread is gone.
LEMMA JoinStep ==
    ASSUME BufferInv, JoinThread
    PROVE  BufferInv' /\ free' = free /\ rx' = rx
  <1>. USE DEF BufferInv
  <1>1. /\ dpc = "exit" /\ fpc = "join" /\ fpc' = "freed" /\ received' = <<>> /\ prepared' = <<>>
        /\ UNCHANGED <<decoder, free, nodesUsed, nextTS, buffering, start, heard, nextDecodeTS, dpc,
                       decoding, rx, decodeDone, sent>>
    BY DEF JoinThread, play, decode
  <1>2. <<>> \in Seq(Node) /\ Len(<<>>) = 0 /\ DOMAIN <<>> = {}
    BY EmptySeq
  <1>3. ReceivedOK(<<>>) /\ PreparedOK(<<>>)
    <2>1. \A i, j : ~(i \in 1 .. 0) /\ ~(i \in 2 .. 0)
      OBVIOUS
    <2>. QED BY <1>2, <2>1 DEF ReceivedOK, PreparedOK, Spaced, Follows
  <1>4. ListsInv'
    <2>1. EndsBy(<<>>, nextDecodeTS') /\ Apart(<<>>, <<>>)
      BY <1>2 DEF EndsBy, Apart
    <2>. QED BY <1>1, <1>3, <2>1, ListsNext
  <1>5. TimesInv'
    BY <1>1, <1>2 DEF TimesInv, StartsFrom
  <1>6. DecodeInv' /\ CountsInv'
    BY <1>1 DEF DecodeInv, CountsInv
  <1>7. BufferTypeOK'
    BY <1>1, <1>2 DEF BufferTypeOK
  <1>. QED BY <1>1, <1>4, <1>5, <1>6, <1>7

LEMMA StayStep ==
    ASSUME BufferInv, UNCHANGED bufferVars
    PROVE  BufferInv' /\ free' = free /\ rx' = rx
  <1>1. UNCHANGED <<decoder, free, received, prepared, nodesUsed, nextTS, buffering, start, heard,
                    nextDecodeTS, dpc, decoding, rx, decodeDone, fpc, sent>>
    BY DEF bufferVars, lists, play, decode, teardown
  <1>2. ListsInv' /\ TimesInv'
    BY <1>1, ListsStay, TimesStay DEF BufferInv
  <1>3. DecodeInv' /\ CountsInv' /\ BufferTypeOK'
    BY <1>1 DEF BufferInv, DecodeInv, Has, CountsInv, BufferTypeOK
  <1>. QED BY <1>1, <1>2, <1>3 DEF BufferInv

Room == rx = "idle" => free > 0

\* Every step, and the room for the next packet.
LEMMA BufferSteps ==
    ASSUME NoWrap, BufferInv, [BufferNext]_bufferVars
    PROVE  BufferInv' /\ (EnoughNodes /\ Room => Room')
  <1>1. free \in Nat /\ (BufferInv' => free' \in Nat)
    BY BufferConstants DEF BufferInv, BufferTypeOK
  <1>2. ASSUME BufferInv', free' >= free, rx' = rx PROVE BufferInv' /\ (EnoughNodes /\ Room => Room')
    BY <1>2, <1>1 DEF Room
  <1>3. CASE GetFreeNode \/ PacketFails \/ PutFreeNode \/ BufferingEnds \/ SetDone \/ SignalDone
    <2>1. BufferInv'
      BY <1>3, FreeSteps
    <2>2. Room => Room'
      <3>1. free' = free + 1 \/ free' = free \/ rx' # "idle"
        BY <1>3 DEF GetFreeNode, PacketFails, PutFreeNode, BufferingEnds, SetDone, SignalDone, lists
      <3>2. free' = free /\ rx' = "idle" => rx = "idle"
        BY <1>3, <1>1, <2>1 DEF GetFreeNode, PacketFails, PutFreeNode, BufferingEnds, SetDone, SignalDone, lists
      <3>. QED BY <1>1, <2>1, <3>1, <3>2 DEF Room
    <2>. QED BY <2>1, <2>2
  <1>4. ASSUME NEW k \in 0 .. MaxPackets - 1, Receive(k)
        PROVE  BufferInv' /\ (EnoughNodes /\ Room => Room')
    BY <1>4, ReceiveStep DEF Room
  <1>5. CASE ToWait \/ Wait \/ Woken \/ StartDecode \/ SkipGap \/ EndPass
    <2>1. BufferInv' /\ free' = free /\ rx' = rx
      BY <1>5, ThinkSteps
    <2>. QED BY <2>1 DEF Room
  <1>6. CASE DecodeFails \/ Move \/ Toss \/ (\E len \in 0 .. D : Decoded(len))
    <2>1. BufferInv' /\ free' >= free /\ rx' = rx
      BY <1>6, MoveSteps
    <2>. QED BY <1>2, <2>1
  <1>7. CASE Read
    <2>1. BufferInv' /\ free' >= free /\ rx' = rx
      BY <1>7, ReadStep
    <2>. QED BY <1>2, <2>1
  <1>8. CASE JoinThread
    <2>1. BufferInv' /\ free' = free /\ rx' = rx
      BY <1>8, JoinStep
    <2>. QED BY <2>1 DEF Room
  <1>9. CASE UNCHANGED bufferVars
    <2>1. BufferInv' /\ free' = free /\ rx' = rx
      BY <1>9, StayStep
    <2>. QED BY <2>1 DEF Room
  <1>. QED BY <1>3, <1>4, <1>5, <1>6, <1>7, <1>8, <1>9 DEF BufferNext, DecodeThread

LEMMA BufferAlways == ASSUME NoWrap PROVE BufferSpec => []BufferInv
  <1>1. BufferInit => BufferInv
    BY BufferInitInv
  <1>2. BufferInv /\ [BufferNext]_bufferVars => BufferInv'
    BY BufferSteps
  <1>. QED BY <1>1, <1>2, PTL DEF BufferSpec

\* Every variable of the jitter buffer keeps its type.
THEOREM BufferTypesHold == ASSUME NoWrap PROVE BufferSpec => []BufferTypeOK
  <1>1. BufferInv => BufferTypeOK
    BY DEF BufferInv
  <1>. QED BY <1>1, BufferAlways, PTL

\* Every node is in one place and nodesUsed counts those in the lists; the decode thread
\* comes back to a node that is still there.
THEOREM BufferNodesConserved == ASSUME NoWrap PROVE BufferSpec => []NodesConserved
  <1>1. BufferInv => NodesConserved
    BY DEF BufferInv, CountsInv, DecodeInv, Has, NodesConserved
  <1>. QED BY <1>1, BufferAlways, PTL

\* Both lists are in the order of the stream, and the received ones follow the prepared
\* ones when the decode thread does not hold nodeLock.
THEOREM BufferInOrder == ASSUME NoWrap PROVE BufferSpec => []InOrder
  <1>1. ASSUME BufferInv PROVE InOrder
    <2>1. PreparedOK(prepared) /\ ReceivedOK(received)
      BY <1>1 DEF BufferInv, ListsInv
    <2>2. /\ prepared \in Seq(Node) /\ DOMAIN prepared = 1 .. Len(prepared) /\ Len(prepared) \in Nat
          /\ received \in Seq(Node) /\ DOMAIN received = 1 .. Len(received) /\ Len(received) \in Nat
      BY <2>1, LenProperties DEF PreparedOK, ReceivedOK
    <2>3. ASSUME NEW n \in Node, Part(n) PROVE n.ts \in First .. Top + L /\ n.ts \in Nat
      <3>1. First <= n.ts /\ n.ts < Top /\ n.ts \in Nat
        BY <2>3, PartRange, NodeTypes
      <3>. QED BY <3>1, BufferConstants
    <2>4. \A i \in DOMAIN prepared : prepared[i].ts \in First .. Top + L
      BY <2>1, <2>2, <2>3, ElementOfSeq DEF PreparedOK
    <2>5. \A i \in DOMAIN received : received[i].ts \in First .. Top + L /\ received[i].ts \in Nat
      BY <2>1, <2>2, <2>3, ElementOfSeq, WholeIsPart DEF ReceivedOK
    <2>6. Sorted(prepared)
      <3>1. ASSUME NEW i \in DOMAIN prepared, NEW j \in DOMAIN prepared, i < j
            PROVE  Before(prepared[i].ts, prepared[j].ts)
        <4>1. prepared[i].ts < prepared[j].ts
          BY <2>1, <3>1 DEF PreparedOK, Follows
        <4>. QED BY <2>4, <4>1, PlainOrder
      <3>. QED BY <3>1 DEF Sorted
    <2>7. Sorted(received)
      <3>1. ASSUME NEW i \in DOMAIN received, NEW j \in DOMAIN received, i < j
            PROVE  Before(received[i].ts, received[j].ts)
        <4>1. i \in 1 .. Len(received) /\ j \in 1 .. Len(received) /\ j - i \in Nat \ {0} /\ i <= j
          BY <2>2, <3>1
        <4>2. (j - i) * D <= received[j].ts - received[i].ts
          BY <2>1, <4>1 DEF ReceivedOK, Spaced
        <4>3. (j - i) * D \in Nat /\ (j - i) * D > 0
          <5>1. 0 < j - i /\ 0 * D = 0 /\ 0 \in Nat /\ D \in Nat \ {0}
            BY <4>1, BufferConstants
          <5>2. 0 * D + D <= (j - i) * D
            BY <4>1, <5>1, Products
          <5>3. (j - i) * D \in Nat
            BY <4>1, <5>1
          <5>. QED BY <5>1, <5>2, <5>3
        <4>4. received[i].ts < received[j].ts
          BY <2>5, <4>2, <4>3
        <4>. QED BY <2>5, <4>4, PlainOrder
      <3>. QED BY <3>1 DEF Sorted
    <2>8. ASSUME dpc # "pass", prepared # <<>>, received # <<>>
          PROVE  Before(Last(prepared).ts, Head(received).ts)
      <3>1. Len(prepared) \in DOMAIN prepared /\ 1 \in DOMAIN received /\ Head(received) = received[1]
        BY <2>2, <2>8, EmptySeq
      <3>2. prepared[Len(prepared)].ts < received[1].ts
        BY <1>1, <2>8, <3>1 DEF BufferInv, ListsInv, Apart
      <3>. QED BY <2>4, <2>5, <3>1, <3>2, PlainOrder DEF Last
    <2>. QED BY <2>6, <2>7, <2>8 DEF InOrder
  <1>. QED BY <1>1, BufferAlways, PTL

\* What was heard is not heard again, nor anything before it.
THEOREM BufferHeardOnce == ASSUME NoWrap PROVE BufferSpec => []HeardOnce
  <1>1. ASSUME BufferInv PROVE HeardOnce
    <2>1. ASSUME NEW i \in DOMAIN prepared PROVE UpTo(heard, prepared[i].ts)
      <3>1. prepared \in Seq(Node) /\ i \in 1 .. Len(prepared) /\ Part(prepared[i])
        BY <1>1, LenProperties DEF BufferInv, ListsInv, PreparedOK
      <3>2. prepared[i] \in Node
        BY <3>1, ElementOfSeq
      <3>3. First <= prepared[i].ts /\ prepared[i].ts < Top /\ prepared[i].ts \in Nat
        BY <3>1, <3>2, PartRange, NodeTypes
      <3>4. heard \in First .. Top /\ heard <= prepared[i].ts
        BY <1>1 DEF BufferInv, TimesInv, StartsFrom
      <3>5. heard \in First .. Top + L /\ prepared[i].ts \in First .. Top + L
        BY <3>3, <3>4, BufferConstants
      <3>. QED BY <3>4, <3>5, PlainOrder
    <2>. QED BY <2>1 DEF HeardOnce
  <1>. QED BY <1>1, BufferAlways, PTL

\* There is a free node whenever the receive thread is about to ask for one, if the nodes
\* hold more than the high watermark.
THEOREM BufferRoomForNext == ASSUME NoWrap, EnoughNodes PROVE BufferSpec => []RoomForNext
  <1>1. BufferInit => BufferInv /\ Room
    <2>1. BufferInit => Room
      BY BufferConstants DEF BufferInit, Room
    <2>. QED BY <2>1, BufferInitInv
  <1>2. BufferInv /\ Room /\ [BufferNext]_bufferVars => (BufferInv /\ Room)'
    BY BufferSteps
  <1>3. Room => RoomForNext
    BY DEF Room, RoomForNext
  <1>. QED BY <1>1, <1>2, <1>3, PTL DEF BufferSpec
===============================================================================
