--------------------------- MODULE ConnectionProofs ---------------------------
(***************************************************************************)
(* A connection of the server and the sources it runs on.  Of the sources:   *)
(* none is touched after it was freed, although nothing counts who knows of *)
(* it, and a handler finds its socket open.  Of the connection: it is not   *)
(* finalized under a handler, it hands on the requests whole and in order,  *)
(* and answers them in order.  For any sources, timers and calls, and for   *)
(* any requests, cuts of the reads and sizes of the frames and buffers.     *)
(***************************************************************************)
EXTENDS DispatchSource, HTTPConnection, FiniteSetTheorems, SequenceTheorems,
        WellFoundedInduction, TLAPS

-------------------------------------------------------------------------------
(* What is left of a list: lemmas about Sublist. *)

\* The places of a finite set are counted: one of them has k places up to it.
LEMMA KthPlace ==
  ASSUME NEW I \in SUBSET Nat, IsFiniteSet(I), NEW k \in 1 .. Cardinality(I)
  PROVE  \E i \in I : Cardinality({j \in I : j <= i}) = k
<1> DEFINE upTo(i) == {x \in I : x <= i}
           n == Cardinality(I)
           rank == [i \in I |-> Cardinality(upTo(i))]
<1>1. n \in Nat
  BY FS_CardinalityType
<1>2. ASSUME NEW i \in I
      PROVE  IsFiniteSet(upTo(i)) /\ Cardinality(upTo(i)) \in 1 .. n
  <2>1. upTo(i) \in SUBSET I /\ i \in upTo(i)
    OBVIOUS
  <2>2. IsFiniteSet(upTo(i)) /\ Cardinality(upTo(i)) <= n
    BY <2>1, FS_Subset
  <2>3. Cardinality(upTo(i)) \in Nat /\ Cardinality(upTo(i)) # 0
    BY <2>1, <2>2, FS_CardinalityType, FS_EmptySet
  <2> QED
    BY <1>1, <2>2, <2>3
<1>3. ASSUME NEW i \in I, NEW j \in I, i < j
      PROVE  Cardinality(upTo(i)) # Cardinality(upTo(j))
  <2>1. i \in Nat /\ j \in Nat /\ \A x \in I : x \in Nat
    OBVIOUS
  <2>2. \A x \in I : x <= i => x <= j
    BY <1>3, <2>1
  <2>3. upTo(i) \in SUBSET upTo(j)
    BY <2>2
  <2>4. j \in upTo(j) /\ j \notin upTo(i)
    BY <1>3, <2>1
  <2> QED
    BY <1>2, <2>3, <2>4, FS_Subset
<1>4. rank \in Injection(I, 1 .. n)
  <2>1. rank \in [I -> 1 .. n]
    BY <1>2
  <2>2. ASSUME NEW i \in I, NEW j \in I, rank[i] = rank[j] PROVE i = j
    <3>1. Cardinality(upTo(i)) = Cardinality(upTo(j))
      BY <2>2
    <3> QED
      BY <1>3, <3>1
  <2> HIDE DEF rank
  <2> QED
    BY <2>1, <2>2 DEF Injection, IsInjective
<1>5. IsFiniteSet(1 .. n) /\ Cardinality(1 .. n) = n
  BY <1>1, FS_Interval
<1>6. rank \in Surjection(I, 1 .. n)
  BY <1>4, <1>5, FS_Injection
<1>7. PICK i \in I : rank[i] = k
  BY <1>6 DEF Surjection
<1> QED
  BY <1>7

\* A sublist is a list, of elements at the places that stay.
LEMMA SublistOf ==
  ASSUME NEW S, NEW q \in Seq(S), NEW I \in SUBSET DOMAIN q
  PROVE  /\ Sublist(q, I) \in Seq(S)
         /\ \A k \in DOMAIN Sublist(q, I) : \E i \in I : Sublist(q, I)[k] = q[i]
<1>1. IsFiniteSet(I) /\ Cardinality(I) \in Nat /\ I \in SUBSET Nat
  <2>1. Len(q) \in Nat /\ DOMAIN q = 1 .. Len(q)
    OBVIOUS
  <2>2. IsFiniteSet(1 .. Len(q))
    BY <2>1, FS_Interval
  <2> QED
    BY <2>1, <2>2, FS_Subset, FS_CardinalityType
<1>2. ASSUME NEW k \in 1 .. Cardinality(I)
      PROVE  \E i \in I : Sublist(q, I)[k] = q[i]
  <2> DEFINE at == CHOOSE i \in I : Cardinality({j \in I : j <= i}) = k
  <2>1. at \in I
    BY <1>1, KthPlace
  <2>2. Sublist(q, I)[k] = q[at]
    BY DEF Sublist
  <2> HIDE DEF at
  <2> QED
    BY <2>1, <2>2
<1>3. DOMAIN Sublist(q, I) = 1 .. Cardinality(I)
  BY DEF Sublist
<1>4. \A k \in 1 .. Cardinality(I) : Sublist(q, I)[k] \in S
  BY <1>2
<1>5. Sublist(q, I) = [k \in 1 .. Cardinality(I) |-> Sublist(q, I)[k]]
  BY DEF Sublist
<1>6. Sublist(q, I) \in Seq(S)
  BY <1>1, <1>4, <1>5, SeqDef
<1> QED
  BY <1>2, <1>3, <1>6

-------------------------------------------------------------------------------
(* The life of a source: until its owner releases it nothing frees it; then *)
(* its free is the last that is sent about it, and when the select thread   *)
(* has handled that, the last that is queued for it.                        *)

FreeCommand(s) == [cmd |-> "free", source |-> s]
FreeItem(s) == [kind |-> "free", source |-> s]

\* In the list q of commands or items: nothing is about s; f is not there; f is
\* there once, behind all else that is about s.
Silent(q, s) == \A i \in DOMAIN q : q[i].source # s
Lacks(q, f) == \A i \in DOMAIN q : q[i] # f
EndsWith(q, s, f) ==
  \E i \in DOMAIN q : /\ q[i] = f
                      /\ \A j \in DOMAIN q \ {i} : q[j].source = s => j < i /\ q[j] # f

Unlisted(s) == s \notin ToSet(list) /\ s \notin timers
Released(s) == ~held[s] /\ canceled[s] /\ ~closing[s]

Owned(s) == /\ held[s] /\ ~freed[s]
            /\ Lacks(commands, FreeCommand(s)) /\ Lacks(queue, FreeItem(s))
Told(s) == /\ Released(s) /\ ~freed[s]
           /\ EndsWith(commands, s, FreeCommand(s)) /\ Lacks(queue, FreeItem(s))
Dropped(s) == /\ Released(s) /\ ~freed[s]
              /\ Silent(commands, s) /\ Unlisted(s) /\ EndsWith(queue, s, FreeItem(s))
Gone(s) == /\ Released(s)
           /\ Silent(commands, s) /\ Unlisted(s) /\ Silent(queue, s)
           /\ now # Idle => now.source # s

Life(s) == Owned(s) \/ Told(s) \/ Dropped(s) \/ Gone(s)

\* The cancel handler of a source is not queued before the source is cancelled.
ClosedIsCanceled ==
  /\ \A s \in Sources : closing[s] \/ closed[s] => canceled[s]
  /\ \A i \in DOMAIN queue : queue[i].kind = "cancel" => canceled[queue[i].source]

\* While an event is handled no cancel handler of its source has run.
EventsOpen ==
  /\ \A i \in DOMAIN queue : queue[i].kind = "event" => queue[i].source \in Sockets
  /\ now.kind = "event" => now.source \in Sockets /\ ~closed[now.source]

Inv == TypeOK /\ (\A s \in Sources : Life(s)) /\ ClosedIsCanceled /\ EventsOpen

-------------------------------------------------------------------------------
(* Lists of commands and of items. *)

LEMMA AppendOther ==
  ASSUME NEW S, NEW q \in Seq(S), NEW e \in S, NEW s, NEW f, e.source # s, f.source = s
  PROVE  /\ Silent(q, s) => Silent(Append(q, e), s)
         /\ Lacks(q, f) => Lacks(Append(q, e), f)
         /\ EndsWith(q, s, f) => EndsWith(Append(q, e), s, f)
<1>1. /\ Len(Append(q, e)) = Len(q) + 1 /\ DOMAIN Append(q, e) = 1 .. Len(q) + 1
      /\ DOMAIN q = 1 .. Len(q) /\ Len(q) \in Nat
      /\ \A i \in DOMAIN q : Append(q, e)[i] = q[i]
      /\ Append(q, e)[Len(q) + 1] = e
  OBVIOUS
<1> QED
  BY <1>1 DEF Silent, Lacks, EndsWith

LEMMA AppendLacks ==
  ASSUME NEW S, NEW q \in Seq(S), NEW e \in S, NEW f, e # f, Lacks(q, f)
  PROVE  Lacks(Append(q, e), f)
BY DEF Lacks

LEMMA AppendEnd ==
  ASSUME NEW S, NEW q \in Seq(S), NEW s, NEW f \in S, Lacks(q, f)
  PROVE  EndsWith(Append(q, f), s, f)
<1>1. /\ DOMAIN Append(q, f) = 1 .. Len(q) + 1
      /\ DOMAIN q = 1 .. Len(q) /\ Len(q) \in Nat
      /\ \A i \in DOMAIN q : Append(q, f)[i] = q[i]
      /\ Append(q, f)[Len(q) + 1] = f
  OBVIOUS
<1> QED
  BY <1>1 DEF Lacks, EndsWith

LEMMA TailOf ==
  ASSUME NEW S, NEW q \in Seq(S), q # <<>>, NEW s, NEW f, f.source = s
  PROVE  /\ Silent(q, s) => Silent(Tail(q), s) /\ Head(q).source # s
         /\ Lacks(q, f) => Lacks(Tail(q), f) /\ Head(q) # f
         /\ EndsWith(q, s, f) => \/ Head(q) = f /\ Silent(Tail(q), s)
                                 \/ Head(q) # f /\ EndsWith(Tail(q), s, f)
<1>1. /\ DOMAIN q = 1 .. Len(q) /\ Len(q) \in Nat \ {0} /\ Head(q) = q[1]
      /\ DOMAIN Tail(q) = 1 .. Len(q) - 1
      /\ \A i \in 1 .. Len(q) - 1 : Tail(q)[i] = q[i + 1]
  OBVIOUS
<1>2. ASSUME EndsWith(q, s, f)
      PROVE  \/ Head(q) = f /\ Silent(Tail(q), s)
             \/ Head(q) # f /\ EndsWith(Tail(q), s, f)
  <2>1. PICK i \in DOMAIN q : /\ q[i] = f
                              /\ \A j \in DOMAIN q \ {i} : q[j].source = s => j < i /\ q[j] # f
    BY <1>2 DEF EndsWith
  <2>2. CASE i = 1
    BY <1>1, <2>1, <2>2 DEF Silent
  <2>3. CASE i # 1
    <3>1. i - 1 \in DOMAIN Tail(q) /\ Tail(q)[i - 1] = f
      BY <1>1, <2>1, <2>3
    <3>2. \A j \in DOMAIN Tail(q) \ {i - 1} :
             Tail(q)[j].source = s => j < i - 1 /\ Tail(q)[j] # f
      BY <1>1, <2>1
    <3>3. Head(q) # f
      BY <1>1, <2>1, <2>3
    <3> QED
      BY <3>1, <3>2, <3>3 DEF EndsWith
  <2> QED
    BY <2>2, <2>3
<1> QED
  BY <1>1, <1>2 DEF Silent, Lacks

LEMMA ConcatOf ==
  ASSUME NEW S, NEW q \in Seq(S), NEW r \in Seq(S), NEW s, NEW f, f.source = s
  PROVE  /\ Lacks(q, f) /\ Lacks(r, f) => Lacks(q \o r, f)
         /\ Silent(q, s) /\ Silent(r, s) => Silent(q \o r, s)
         /\ EndsWith(q, s, f) /\ Silent(r, s) => EndsWith(q \o r, s, f)
<1>1. /\ Len(q) \in Nat /\ Len(r) \in Nat
      /\ DOMAIN q = 1 .. Len(q) /\ DOMAIN r = 1 .. Len(r)
      /\ DOMAIN (q \o r) = 1 .. Len(q) + Len(r)
      /\ \A i \in 1 .. Len(q) : (q \o r)[i] = q[i]
      /\ \A i \in Len(q) + 1 .. Len(q) + Len(r) : (q \o r)[i] = r[i - Len(q)]
  OBVIOUS
<1>2. \A i \in Len(q) + 1 .. Len(q) + Len(r) : i - Len(q) \in DOMAIN r
  BY <1>1
<1>3. ASSUME Lacks(q, f), Lacks(r, f) PROVE Lacks(q \o r, f)
  BY <1>1, <1>2, <1>3 DEF Lacks
<1>4. ASSUME Silent(q, s), Silent(r, s) PROVE Silent(q \o r, s)
  BY <1>1, <1>2, <1>4 DEF Silent
<1>5. ASSUME EndsWith(q, s, f), Silent(r, s) PROVE EndsWith(q \o r, s, f)
  <2>1. PICK i \in DOMAIN q : /\ q[i] = f
                              /\ \A j \in DOMAIN q \ {i} : q[j].source = s => j < i /\ q[j] # f
    BY <1>5 DEF EndsWith
  <2>2. \A j \in DOMAIN (q \o r) \ {i} :
           (q \o r)[j].source = s => j < i /\ (q \o r)[j] # f
    BY <1>1, <1>2, <1>5, <2>1 DEF Silent
  <2> QED
    BY <1>1, <2>1, <2>2 DEF EndsWith
<1> QED
  BY <1>3, <1>4, <1>5

\* The ticks of timers are one for each, and nothing else.
LEMMA TicksAre ==
  ASSUME NEW due \in SUBSET Timers
  PROVE  /\ TicksFor(due) \in Seq(Item)
         /\ \A i \in DOMAIN TicksFor(due) : /\ TicksFor(due)[i].kind = "tick"
                                            /\ TicksFor(due)[i].source \in due
<1>1. IsFiniteSet(due)
  BY SourcesAssumption, FS_Subset
<1>2. Cardinality(due) \in Nat /\ ExistsBijection(1 .. Cardinality(due), due)
  BY <1>1, FS_CardinalityType
<1>3. SetToSeq(due) \in [1 .. Cardinality(due) -> due]
  <2>1. PICK f \in [1 .. Cardinality(due) -> due] : IsInjective(f)
    BY <1>2 DEF ExistsBijection, Bijection, Injection
  <2> QED
    BY <2>1 DEF SetToSeq
<1> HIDE DEF SetToSeq
<1>4. \A i \in 1 .. Cardinality(due) : SetToSeq(due)[i] \in due
  BY <1>3
<1>5. \A i \in 1 .. Cardinality(due) :
         [kind |-> "tick", source |-> SetToSeq(due)[i]] \in Item
  BY <1>4 DEF Item, Sources
<1>6. TicksFor(due) \in Seq(Item)
  BY <1>2, <1>5, SeqDef DEF TicksFor
<1> QED
  BY <1>4, <1>6 DEF TicksFor

\* What expires is queued, behind what was to be queued before.
LEMMA ExpireQueues ==
  ASSUME NEW due \in SUBSET Timers, NEW before \in Seq(Item), Expire(due, before)
  PROVE  /\ queue' \in Seq(Item)
         /\ \E ticks \in Seq(Item) :
              /\ queue' = before \o ticks
              /\ \A i \in DOMAIN ticks : ticks[i].kind = "tick" /\ ticks[i].source \in due
<1> DEFINE first == {t \in due : ~pending[t]}
<1>1. first \in SUBSET Timers /\ queue' = before \o TicksFor(first)
  BY DEF Expire
<1> HIDE DEF first
<1>2. TicksFor(first) \in Seq(Item)
  BY <1>1, TicksAre
<1>3. \A i \in DOMAIN TicksFor(first) :
         TicksFor(first)[i].kind = "tick" /\ TicksFor(first)[i].source \in first
  BY <1>1, TicksAre
<1>4. first \in SUBSET due
  BY DEF first
<1>5. before \o TicksFor(first) \in Seq(Item)
  BY <1>2
<1>6. \A i \in DOMAIN TicksFor(first) :
         TicksFor(first)[i].kind = "tick" /\ TicksFor(first)[i].source \in due
  BY <1>3, <1>4
<1> QED
  BY <1>1, <1>2, <1>5, <1>6

-------------------------------------------------------------------------------
(* Types. *)

\* Commands for sources, and what becomes of the list, have their types.
LEMMA SendType ==
  ASSUME TypeOK, NEW c \in {"arm", "disarm", "free"}, NEW s \in Sources, Send(c, s)
  PROVE  commands' \in Seq(Command)
<1>1. [cmd |-> c, source |-> s] \in Command
  BY DEF Command
<1> QED
  BY <1>1 DEF TypeOK, Send

LEMMA CallType == ASSUME TypeOK, NEW s \in Sources, Call(s) PROVE calls' \in 0 .. MaxCalls
BY CallsAssumption DEF TypeOK, Call

LEMMA OwnerTypes ==
  ASSUME TypeOK, NEW s \in Sources, OwnerStep(s) \/ BecomeReady(s)
  PROVE  TypeOK'
<1>1. CASE Suspend(s)
  <2>1. commands' \in Seq(Command)
    BY <1>1, SendType DEF Suspend
  <2> QED
    BY <1>1, <2>1, CallType DEF Suspend, TypeOK, thread
<1>2. CASE Resume(s)
  <2>1. commands' \in Seq(Command)
    BY <1>2, SendType DEF Resume, TypeOK
  <2> QED
    BY <1>2, <2>1, CallType DEF Resume, TypeOK, thread
<1>3. CASE SetTimer(s)
  <2>1. commands' \in Seq(Command)
    BY <1>3, SendType DEF SetTimer
  <2> QED
    BY <1>3, <2>1, CallType DEF SetTimer, TypeOK, thread
<1>4. CASE Cancel(s)
  <2>1. commands' \in Seq(Command)
    BY <1>4, SendType DEF Cancel
  <2> QED
    BY <1>4, <2>1 DEF Cancel, TypeOK, thread
<1>5. CASE QueueCancel(s)
  <2>1. [kind |-> "cancel", source |-> s] \in Item
    BY DEF Item
  <2> QED
    BY <1>5, <2>1 DEF QueueCancel, TypeOK, thread
<1>6. CASE Release(s)
  <2>1. commands' \in Seq(Command)
    BY <1>6, SendType DEF Release
  <2> QED
    BY <1>6, <2>1 DEF Release, TypeOK, thread
<1>7. CASE BecomeReady(s)
  BY <1>7 DEF BecomeReady, TypeOK, thread, owner
<1> QED
  BY <1>1, <1>2, <1>3, <1>4, <1>5, <1>6, <1>7 DEF OwnerStep

LEMMA ExpireType ==
  ASSUME TypeOK, NEW due \in SUBSET Timers, NEW before, Expire(due, before)
  PROVE  pending' \in [Timers -> BOOLEAN]
BY DEF TypeOK, Expire

\* The sublists that unlinking leaves.
LEMMA WithoutIs ==
  ASSUME TypeOK, NEW s
  PROVE  /\ Without(s) \in Seq(Sockets) /\ ToSet(Without(s)) \subseteq ToSet(list)
         /\ s \notin ToSet(Without(s))
<1> DEFINE I == {i \in DOMAIN list : list[i] # s}
<1>1. I \in SUBSET DOMAIN list /\ list \in Seq(Sockets)
  BY DEF TypeOK
<1>2. /\ Sublist(list, I) \in Seq(Sockets)
      /\ \A k \in DOMAIN Sublist(list, I) : \E i \in I : Sublist(list, I)[k] = list[i]
  BY <1>1, SublistOf
<1>3. \A x \in ToSet(Without(s)) : \E i \in I : x = list[i]
  BY <1>2 DEF ToSet, Without
<1> QED
  BY <1>2, <1>3 DEF ToSet, Without

LEMMA UnwatchedIs ==
  ASSUME TypeOK, NEW J \in SUBSET DOMAIN list
  PROVE  /\ Sublist(list, J) \in Seq(Sockets)
         /\ ToSet(Sublist(list, J)) \subseteq ToSet(list)
<1>1. list \in Seq(Sockets)
  BY DEF TypeOK
<1>2. /\ Sublist(list, J) \in Seq(Sockets)
      /\ \A k \in DOMAIN Sublist(list, J) : \E i \in J : Sublist(list, J)[k] = list[i]
  BY <1>1, SublistOf
<1> QED
  BY <1>2 DEF ToSet

\* The events of the sources that fired.
LEMMA EventsAre ==
  ASSUME NEW fired \in Seq(Sockets)
  PROVE  /\ EventsFor(fired) \in Seq(Item)
         /\ \A i \in DOMAIN EventsFor(fired) : /\ EventsFor(fired)[i].kind = "event"
                                               /\ EventsFor(fired)[i].source \in ToSet(fired)
<1>1. DOMAIN fired = 1 .. Len(fired) /\ Len(fired) \in Nat
  OBVIOUS
<1>2. \A i \in DOMAIN fired : [kind |-> "event", source |-> fired[i]] \in Item
  BY DEF Item, Sources
<1>3. EventsFor(fired) \in Seq(Item)
  BY <1>1, <1>2, SeqDef DEF EventsFor
<1> QED
  BY <1>3 DEF EventsFor, ToSet

\* A command leaves a list of sources, timers, and the queue behind which timers expire.
LEMMA HandleIs ==
  ASSUME TypeOK, NEW c \in {"arm", "disarm", "free"}, NEW s \in Sources, NEW due \in SUBSET Timers,
         Handle(c, s, due)
  PROVE  /\ list' \in Seq(Sockets) /\ timers' \subseteq Timers
         /\ ToSet(list') \subseteq ToSet(list) \union {s} /\ timers' \subseteq timers \union {s}
         /\ c # "arm" => s \notin ToSet(list') /\ s \notin timers'
         /\ Expire(due, IF c = "free" THEN Append(queue, FreeItem(s)) ELSE queue)
<1>1. CASE c = "arm" /\ s \in Sockets
  <2>1. list' = Inserted(s) /\ timers' = timers /\ Expire(due, queue)
    BY <1>1, SourcesAssumption DEF Handle
  <2>2. list' \in Seq(Sockets)
    BY <1>1, <2>1 DEF Inserted, TypeOK
  <2>3. ToSet(list') \subseteq ToSet(list) \union {s}
    BY <2>1 DEF Inserted, ToSet, TypeOK
  <2> QED
    BY <1>1, <2>1, <2>2, <2>3 DEF TypeOK
<1>2. CASE c = "arm" /\ s \in Timers
  BY <1>2, SourcesAssumption DEF Handle, TypeOK
<1>3. CASE c = "disarm"
  BY <1>3, WithoutIs DEF Handle, TypeOK
<1>4. CASE c = "free"
  BY <1>4, WithoutIs DEF Handle, TypeOK, FreeBehindEvents, FreeItem
<1> QED
  BY <1>1, <1>2, <1>3, <1>4 DEF Sources

LEMMA FreeItemType == ASSUME NEW s \in Sources PROVE FreeItem(s) \in Item
BY DEF FreeItem, Item

LEMMA HeadCommand ==
  ASSUME TypeOK, commands # <<>>
  PROVE  /\ Head(commands) \in Command /\ Tail(commands) \in Seq(Command)
         /\ Head(commands).cmd \in {"arm", "disarm", "free"} /\ Head(commands).source \in Sources
         /\ Head(commands) = [cmd |-> Head(commands).cmd, source |-> Head(commands).source]
<1>1. Head(commands) \in Command /\ Tail(commands) \in Seq(Command)
  BY DEF TypeOK
<1> QED
  BY <1>1 DEF Command

LEMMA HeadItem ==
  ASSUME TypeOK, queue # <<>>
  PROVE  /\ Head(queue) \in Item /\ Tail(queue) \in Seq(Item)
         /\ Head(queue).source \in Sources
         /\ Head(queue) = [kind |-> Head(queue).kind, source |-> Head(queue).source]
<1>1. Head(queue) \in Item /\ Tail(queue) \in Seq(Item)
  BY DEF TypeOK
<1> QED
  BY <1>1 DEF Item

LEMMA SelectTypes ==
  ASSUME TypeOK,
         \/ Build \/ SelectFails \/ Wakes
         \/ \E due \in SUBSET Timers : SelectRound(due)
  PROVE  TypeOK'
<1>1. CASE Build
  BY <1>1 DEF Build, TypeOK, owner, ToSet
<1>2. CASE SelectFails
  BY <1>2 DEF SelectFails, TypeOK, owner
<1>3. CASE Wakes
  BY <1>3 DEF Wakes, TypeOK, owner, Ready
<1>4. ASSUME NEW due \in SUBSET Timers, HandleCommand(due) PROVE TypeOK'
  <2> DEFINE c == Head(commands)
  <2>1. Handle(c.cmd, c.source, due) /\ commands # <<>> /\ commands' = Tail(commands)
    BY <1>4 DEF HandleCommand
  <2>2. c.cmd \in {"arm", "disarm", "free"} /\ c.source \in Sources /\ Tail(commands) \in Seq(Command)
    BY <2>1, HeadCommand
  <2> HIDE DEF c
  <2>3. /\ list' \in Seq(Sockets) /\ timers' \subseteq Timers
        /\ Expire(due, IF c.cmd = "free" THEN Append(queue, FreeItem(c.source)) ELSE queue)
    BY <2>1, <2>2, HandleIs
  <2>4. (IF c.cmd = "free" THEN Append(queue, FreeItem(c.source)) ELSE queue) \in Seq(Item)
    BY <2>2, FreeItemType DEF TypeOK
  <2>5. queue' \in Seq(Item) /\ pending' \in [Timers -> BOOLEAN]
    BY <2>3, <2>4, ExpireQueues, ExpireType
  <2> QED
    BY <1>4, <2>1, <2>2, <2>3, <2>5 DEF HandleCommand, Rebuild, TypeOK, owner
<1>5. ASSUME NEW due \in SUBSET Timers, Fire(due) PROVE TypeOK'
  <2> DEFINE I == {i \in DOMAIN list : list[i] \in watch}
             J == {i \in DOMAIN list : list[i] \notin watch}
  <2>1. list' = Sublist(list, J) /\ Expire(due, queue \o EventsFor(Sublist(list, I)))
    BY <1>5 DEF Fire
  <2>2. I \in SUBSET DOMAIN list /\ J \in SUBSET DOMAIN list
    OBVIOUS
  <2> HIDE DEF I, J
  <2>3. list' \in Seq(Sockets) /\ Sublist(list, I) \in Seq(Sockets)
    BY <2>1, <2>2, UnwatchedIs
  <2>4. queue \o EventsFor(Sublist(list, I)) \in Seq(Item)
    BY <2>3, EventsAre DEF TypeOK
  <2>5. queue' \in Seq(Item) /\ pending' \in [Timers -> BOOLEAN]
    BY <2>1, <2>4, ExpireQueues, ExpireType
  <2> QED
    BY <1>5, <2>3, <2>5 DEF Fire, Rebuild, TypeOK, owner
<1>6. ASSUME NEW due \in SUBSET Timers, Recover(due) PROVE TypeOK'
  <2>1. queue' \in Seq(Item) /\ pending' \in [Timers -> BOOLEAN]
    BY <1>6, ExpireQueues, ExpireType DEF Recover, TypeOK
  <2> QED
    BY <1>6, <2>1 DEF Recover, Rebuild, TypeOK, owner
<1> QED
  BY <1>1, <1>2, <1>3, <1>4, <1>5, <1>6 DEF SelectRound

LEMMA QueueTypes == ASSUME TypeOK, QueueStep PROVE TypeOK'
<1>1. CASE RunEvent
  <2>1. Head(queue).source \in Sources /\ Tail(queue) \in Seq(Item)
    BY <1>1, HeadItem DEF RunEvent
  <2>2. queue' = Tail(queue) /\ Head(queue).kind \in {"event", "tick"}
    BY <1>1 DEF RunEvent
  <2>3. now' \in Now
    BY <1>1, <2>1, <2>2 DEF RunEvent, Now
  <2>4. pending' \in [Timers -> BOOLEAN]
    BY <1>1 DEF RunEvent, TypeOK
  <2> QED
    BY <1>1, <2>1, <2>2, <2>3, <2>4 DEF RunEvent, TypeOK, thread, owner
<1>2. CASE HandlerReturns
  <2>1. now' \in Now
    BY <1>2 DEF HandlerReturns, TypeOK, Now, Idle
  <2>2. ready' \in [Sockets -> BOOLEAN]
    BY <1>2 DEF HandlerReturns, TypeOK
  <2> QED
    BY <1>2, <2>1, <2>2 DEF HandlerReturns, TypeOK, thread, owner
<1>3. CASE Rearm
  <2>1. now.source \in Sources
    BY <1>3 DEF Rearm, TypeOK, Now, Idle
  <2>2. commands' \in Seq(Command)
    BY <1>3, <2>1, SendType DEF Rearm, TypeOK
  <2> QED
    BY <1>3, <2>2 DEF Rearm, TypeOK, thread, owner, Now
<1>4. CASE RunCancel
  <2>1. Head(queue).source \in Sources /\ Tail(queue) \in Seq(Item)
    BY <1>4, HeadItem DEF RunCancel
  <2> QED
    BY <1>4, <2>1 DEF RunCancel, TypeOK, thread, owner
<1>5. CASE RunFree
  <2>1. Head(queue).source \in Sources /\ Tail(queue) \in Seq(Item)
    BY <1>5, HeadItem DEF RunFree
  <2> QED
    BY <1>5, <2>1 DEF RunFree, TypeOK, thread, owner
<1> QED
  BY <1>1, <1>2, <1>3, <1>4, <1>5 DEF QueueStep

-------------------------------------------------------------------------------
(* Each step keeps the life of each source x in order. *)

\* Arming or disarming s, which its owner holds: of the sources only s changes.
LEMMA SendKeepsLife ==
  ASSUME TypeOK, NEW x \in Sources, Life(x), NEW s \in Sources, held[s],
         NEW c \in {"arm", "disarm"}, Send(c, s) \/ UNCHANGED commands,
         x # s => canceled'[x] = canceled[x] /\ closing'[x] = closing[x],
         UNCHANGED <<held, freed, list, timers, queue, now>>
  PROVE  Life(x)'
<1> DEFINE e == [cmd |-> c, source |-> s]
<1>1. e \in Command /\ commands \in Seq(Command) /\ e # FreeCommand(x)
  BY DEF Command, TypeOK, FreeCommand
<1>2. commands' = Append(commands, e) \/ commands' = commands
  BY DEF Send
<1>3. Lacks(commands, FreeCommand(x)) => Lacks(commands', FreeCommand(x))
  <2> HIDE DEF e
  <2>1. Lacks(commands, FreeCommand(x)) => Lacks(Append(commands, e), FreeCommand(x))
    BY <1>1, AppendLacks
  <2> QED
    BY <1>2, <2>1
<1>4. ASSUME x # s
      PROVE  /\ Silent(commands, x) => Silent(commands', x)
             /\ EndsWith(commands, x, FreeCommand(x)) => EndsWith(commands', x, FreeCommand(x))
  <2>1. e.source # x /\ FreeCommand(x).source = x
    BY <1>4 DEF FreeCommand
  <2> HIDE DEF e
  <2> QED
    BY <1>1, <1>2, <2>1, AppendOther
<1> HIDE DEF e
<1>5. CASE Owned(x)
  <2>1. Owned(x)'
    BY <1>3, <1>5 DEF Owned, FreeCommand, FreeItem
  <2> QED
    BY <2>1 DEF Life
<1>6. ASSUME ~Owned(x) PROVE x # s /\ Released(x)'
  BY <1>6 DEF Life, Told, Dropped, Gone, Released
<1>7. CASE Told(x)
  <2>1. CASE Owned(x)
    BY <2>1, <1>5
  <2>2. CASE ~Owned(x)
    <3>1. Told(x)'
      BY <1>4, <1>6, <1>7, <2>2 DEF Told, FreeCommand, FreeItem
    <3> QED
      BY <3>1 DEF Life
  <2> QED
    BY <2>1, <2>2
<1>8. CASE Dropped(x) /\ ~Owned(x)
  <2>1. Dropped(x)'
    BY <1>4, <1>6, <1>8 DEF Dropped, Unlisted, FreeItem
  <2> QED
    BY <2>1 DEF Life
<1>9. CASE Gone(x) /\ ~Owned(x)
  <2>1. Gone(x)'
    BY <1>4, <1>6, <1>9 DEF Gone, Unlisted
  <2> QED
    BY <2>1 DEF Life
<1> QED
  BY <1>5, <1>7, <1>8, <1>9 DEF Life

\* What Life looks at stays.
LEMMA SameLife ==
  ASSUME NEW x \in Sources, Life(x),
         UNCHANGED <<held, freed, canceled, closing, commands, list, timers, queue, now>>
  PROVE  Life(x)'
BY DEF Life, Owned, Told, Dropped, Gone, Released, Unlisted, Silent, Lacks, EndsWith, FreeCommand,
       FreeItem

LEMMA OwnerKeepsLife ==
  ASSUME TypeOK, NEW x \in Sources, Life(x), NEW s \in Sources, OwnerStep(s) \/ BecomeReady(s)
  PROVE  Life(x)'
<1>1. CASE Suspend(s)
  BY <1>1, SendKeepsLife DEF Suspend, Call, thread
<1>2. CASE Resume(s)
  BY <1>2, SendKeepsLife DEF Resume, Call, thread
<1>3. CASE SetTimer(s)
  BY <1>3, SendKeepsLife DEF SetTimer, Call, thread
<1>4. CASE Cancel(s)
  <2>1. x # s => canceled'[x] = canceled[x] /\ closing'[x] = closing[x]
    BY <1>4 DEF Cancel, TypeOK
  <2> QED
    BY <1>4, <2>1, SendKeepsLife DEF Cancel, thread
<1>5. CASE QueueCancel(s)
  <2> DEFINE e == [kind |-> "cancel", source |-> s]
  <2>1. /\ e \in Item /\ queue \in Seq(Item) /\ e # FreeItem(x) /\ queue' = Append(queue, e)
        /\ FreeItem(x).source = x
    BY <1>5 DEF Item, TypeOK, FreeItem, QueueCancel
  <2>2. Lacks(queue, FreeItem(x)) => Lacks(queue', FreeItem(x))
    BY <2>1, AppendLacks
  <2>3. ASSUME x # s
        PROVE  /\ Silent(queue, x) => Silent(queue', x)
               /\ EndsWith(queue, x, FreeItem(x)) => EndsWith(queue', x, FreeItem(x))
    <3>1. e.source # x
      BY <2>3
    <3> HIDE DEF e
    <3> QED
      BY <2>1, <3>1, AppendOther
  <2>4. UNCHANGED <<held, freed, canceled, commands, list, timers, now>>
    BY <1>5 DEF QueueCancel, thread
  <2>5. CASE Owned(x)
    <3>1. Owned(x)'
      BY <2>2, <2>4, <2>5 DEF Owned, FreeCommand, FreeItem
    <3> QED
      BY <3>1 DEF Life
  <2>6. ASSUME Released(x) PROVE x # s /\ Released(x)'
    BY <1>5, <2>4, <2>6 DEF Released, QueueCancel, TypeOK
  <2>7. CASE Told(x)
    <3>1. Told(x)'
      BY <2>2, <2>4, <2>6, <2>7 DEF Told, FreeCommand, FreeItem
    <3> QED
      BY <3>1 DEF Life
  <2>8. CASE Dropped(x)
    <3>1. Dropped(x)'
      BY <2>3, <2>4, <2>6, <2>8 DEF Dropped, Unlisted, FreeItem
    <3> QED
      BY <3>1 DEF Life
  <2>9. CASE Gone(x)
    <3>1. Gone(x)'
      BY <2>3, <2>4, <2>6, <2>9 DEF Gone, Unlisted
    <3> QED
      BY <3>1 DEF Life
  <2> QED
    BY <2>5, <2>7, <2>8, <2>9 DEF Life
<1>6. CASE Release(s)
  <2>1. /\ FreeCommand(s) \in Command /\ commands \in Seq(Command)
        /\ commands' = Append(commands, FreeCommand(s))
        /\ FreeCommand(x).source = x /\ (x # s => FreeCommand(s).source # x)
    BY <1>6 DEF Command, TypeOK, FreeCommand, Release, Send
  <2>2. UNCHANGED <<freed, closing, list, timers, queue, now>>
    BY <1>6 DEF Release, thread
  <2>3. CASE x = s
    <3>1. Owned(x) /\ canceled[x] /\ ~closing[x]
      BY <1>6, <2>3 DEF Release, Life, Told, Dropped, Gone, Released
    <3>2. Released(x)'
      BY <1>6, <2>3, <3>1 DEF Release, Released, TypeOK
    <3>3. EndsWith(commands', x, FreeCommand(x))
      BY <2>1, <2>3, <3>1, AppendEnd DEF Owned
    <3>4. Told(x)'
      BY <2>2, <3>1, <3>2, <3>3 DEF Told, Owned, FreeCommand, FreeItem
    <3> QED
      BY <3>4 DEF Life
  <2>4. CASE x # s
    <3>1. held'[x] = held[x] /\ canceled'[x] = canceled[x]
      BY <1>6, <2>4 DEF Release, TypeOK
    <3>2. /\ Silent(commands, x) => Silent(commands', x)
          /\ Lacks(commands, FreeCommand(x)) => Lacks(commands', FreeCommand(x))
          /\ EndsWith(commands, x, FreeCommand(x)) => EndsWith(commands', x, FreeCommand(x))
      BY <2>1, <2>4, AppendOther
    <3>3. Owned(x) => Owned(x)'
      BY <2>2, <3>1, <3>2 DEF Owned, FreeCommand, FreeItem
    <3>4. Released(x) => Released(x)'
      BY <2>2, <3>1 DEF Released
    <3>5. Told(x) => Told(x)'
      BY <2>2, <3>2, <3>4 DEF Told, FreeCommand, FreeItem
    <3>6. Dropped(x) => Dropped(x)'
      BY <2>2, <3>2, <3>4 DEF Dropped, FreeItem, Unlisted
    <3>7. Gone(x) => Gone(x)'
      BY <2>2, <3>2, <3>4 DEF Gone, Unlisted
    <3> QED
      BY <3>3, <3>5, <3>6, <3>7 DEF Life
  <2> QED
    BY <2>3, <2>4
<1>7. CASE BecomeReady(s)
  BY <1>7, SameLife DEF BecomeReady, thread, owner
<1> QED
  BY <1>1, <1>2, <1>3, <1>4, <1>5, <1>6, <1>7 DEF OwnerStep

\* The queue grows by items r that are not about x, unless x has not been told of.
LEMMA QueueGrows ==
  ASSUME TypeOK, NEW x \in Sources, NEW q \in Seq(Item), NEW r \in Seq(Item),
         Lacks(r, FreeItem(x)), Unlisted(x) => Silent(r, x)
  PROVE  /\ Lacks(q, FreeItem(x)) => Lacks(q \o r, FreeItem(x))
         /\ Unlisted(x) /\ EndsWith(q, x, FreeItem(x)) => EndsWith(q \o r, x, FreeItem(x))
         /\ Unlisted(x) /\ Silent(q, x) => Silent(q \o r, x)
<1>1. FreeItem(x).source = x
  BY DEF FreeItem
<1> QED
  BY <1>1, ConcatOf

\* The select thread without a command: what fires and what expires is listed.
LEMMA FiresKeepsLife ==
  ASSUME TypeOK, NEW x \in Sources, Life(x), NEW r \in Seq(Item), queue' = queue \o r,
         \A i \in DOMAIN r : r[i].kind # "free",
         Unlisted(x) => Silent(r, x) /\ Unlisted(x)',
         UNCHANGED <<held, freed, canceled, closing, commands, now>>
  PROVE  Life(x)'
<1>1. Lacks(r, FreeItem(x))
  BY DEF Lacks, FreeItem
<1>2. /\ Lacks(queue, FreeItem(x)) => Lacks(queue', FreeItem(x))
      /\ Unlisted(x) /\ EndsWith(queue, x, FreeItem(x)) => EndsWith(queue', x, FreeItem(x))
      /\ Unlisted(x) /\ Silent(queue, x) => Silent(queue', x)
  BY <1>1, QueueGrows DEF TypeOK
<1>3. Owned(x) => Owned(x)'
  BY <1>2 DEF Owned, FreeItem, FreeCommand
<1>4. Told(x) => Told(x)'
  BY <1>2 DEF Told, FreeItem, FreeCommand, Released
<1>5. Dropped(x) => Dropped(x)'
  BY <1>2 DEF Dropped, FreeItem, Released
<1>6. Gone(x) => Gone(x)'
  BY <1>2 DEF Gone, Released
<1> QED
  BY <1>3, <1>4, <1>5, <1>6 DEF Life

LEMMA FireKeepsLife ==
  ASSUME TypeOK, NEW x \in Sources, Life(x), NEW due \in SUBSET Timers, Fire(due)
  PROVE  Life(x)'
<1> DEFINE I == {i \in DOMAIN list : list[i] \in watch}
           J == {i \in DOMAIN list : list[i] \notin watch}
           events == EventsFor(Sublist(list, I))
<1>1. list' = Sublist(list, J) /\ Expire(due, queue \o events)
      /\ UNCHANGED <<held, freed, canceled, closing, commands, now, timers>>
  BY DEF Fire, owner
<1>2. I \in SUBSET DOMAIN list /\ J \in SUBSET DOMAIN list
  OBVIOUS
<1> HIDE DEF I, J
<1>3. /\ ToSet(list') \subseteq ToSet(list)
      /\ Sublist(list, I) \in Seq(Sockets) /\ ToSet(Sublist(list, I)) \subseteq ToSet(list)
  BY <1>1, <1>2, UnwatchedIs
<1>4. /\ events \in Seq(Item)
      /\ \A i \in DOMAIN events : events[i].kind = "event" /\ events[i].source \in ToSet(list)
  BY <1>3, EventsAre
<1> HIDE DEF events
<1>0. queue \in Seq(Item) /\ queue \o events \in Seq(Item)
  BY <1>4 DEF TypeOK
<1>5. PICK ticks \in Seq(Item) :
         /\ queue' = (queue \o events) \o ticks
         /\ \A i \in DOMAIN ticks : ticks[i].kind = "tick" /\ ticks[i].source \in due
  BY <1>0, <1>1, ExpireQueues
<1>6. due \subseteq timers
  BY DEF Fire
<1> DEFINE r == events \o ticks
<1>7. r \in Seq(Item) /\ queue' = queue \o r
  BY <1>0, <1>4, <1>5, ConcatAssociative, SMTT(60)
<1>8. \A i \in DOMAIN r : r[i].kind # "free" /\ r[i].source \in ToSet(list) \union timers
  BY <1>4, <1>5, <1>6
<1> HIDE DEF r
<1>9. Unlisted(x) => Silent(r, x) /\ Unlisted(x)'
  BY <1>1, <1>3, <1>8 DEF Unlisted, Silent
<1> QED
  BY <1>1, <1>7, <1>8, <1>9, FiresKeepsLife

LEMMA RecoverKeepsLife ==
  ASSUME TypeOK, NEW x \in Sources, Life(x), NEW due \in SUBSET Timers, Recover(due)
  PROVE  Life(x)'
<1>1. /\ Expire(due, queue) /\ due \subseteq timers
      /\ UNCHANGED <<held, freed, canceled, closing, commands, now, timers, list>>
  BY DEF Recover, owner
<1>2. PICK ticks \in Seq(Item) :
         /\ queue' = queue \o ticks
         /\ \A i \in DOMAIN ticks : ticks[i].kind = "tick" /\ ticks[i].source \in due
  BY <1>1, ExpireQueues DEF TypeOK
<1>3. Unlisted(x) => Silent(ticks, x) /\ Unlisted(x)'
  BY <1>1, <1>2 DEF Unlisted, Silent
<1> QED
  BY <1>1, <1>2, <1>3, FiresKeepsLife

\* A command is handled.  If it is the free of x, nothing more is sent about x.
LEMMA HandleKeepsLife ==
  ASSUME TypeOK, NEW x \in Sources, Life(x), NEW due \in SUBSET Timers, HandleCommand(due)
  PROVE  Life(x)'
<1> DEFINE c == Head(commands)
           before == IF c.cmd = "free" THEN Append(queue, FreeItem(c.source)) ELSE queue
<1>1. /\ Handle(c.cmd, c.source, due) /\ commands # <<>> /\ commands' = Tail(commands)
      /\ due \subseteq timers' /\ UNCHANGED <<held, freed, canceled, closing, now>>
  BY DEF HandleCommand, owner
<1>2. /\ c.cmd \in {"arm", "disarm", "free"} /\ c.source \in Sources /\ commands \in Seq(Command)
      /\ c = [cmd |-> c.cmd, source |-> c.source]
  BY <1>1, HeadCommand DEF TypeOK
<1>3. /\ FreeCommand(x).source = x /\ FreeItem(x).source = x
      /\ c = FreeCommand(x) <=> c.cmd = "free" /\ c.source = x
  BY <1>2 DEF FreeCommand, FreeItem
<1>4. /\ Silent(commands, x) => Silent(commands', x) /\ c.source # x
      /\ Lacks(commands, FreeCommand(x)) => Lacks(commands', FreeCommand(x)) /\ c # FreeCommand(x)
      /\ EndsWith(commands, x, FreeCommand(x)) =>
           \/ c = FreeCommand(x) /\ Silent(commands', x)
           \/ c # FreeCommand(x) /\ EndsWith(commands', x, FreeCommand(x))
  BY <1>1, <1>2, <1>3, TailOf
<1> HIDE DEF c
<1>5. /\ list' \in Seq(Sockets) /\ timers' \subseteq Timers
      /\ ToSet(list') \subseteq ToSet(list) \union {c.source} /\ timers' \subseteq timers \union {c.source}
      /\ c.cmd # "arm" => c.source \notin ToSet(list') /\ c.source \notin timers'
      /\ Expire(due, before)
  BY <1>1, <1>2, HandleIs
<1>6. before \in Seq(Item) /\ queue \in Seq(Item) /\ FreeItem(c.source) \in Item
  BY <1>2, FreeItemType DEF TypeOK
<1>7. PICK ticks \in Seq(Item) :
         /\ queue' = before \o ticks
         /\ \A i \in DOMAIN ticks : ticks[i].kind = "tick" /\ ticks[i].source \in due
  BY <1>5, <1>6, ExpireQueues
<1>8. Lacks(ticks, FreeItem(x)) /\ (Unlisted(x)' => Silent(ticks, x))
  BY <1>1, <1>7 DEF Lacks, Silent, Unlisted, FreeItem
<1>9. CASE c = FreeCommand(x)
  <2>1. Told(x)
    BY <1>4, <1>9, <1>3 DEF Life, Owned, Dropped, Gone
  <2>2. Silent(commands', x) /\ Unlisted(x)'
    BY <1>3, <1>4, <1>5, <1>9, <2>1 DEF Told, Unlisted
  <2>3. before = Append(queue, FreeItem(x))
    BY <1>3, <1>9
  <2>4. EndsWith(before, x, FreeItem(x))
    BY <1>3, <1>6, <1>9, <2>1, <2>3, AppendEnd DEF Told
  <2> HIDE DEF before
  <2>5. EndsWith(queue', x, FreeItem(x))
    BY <1>3, <1>6, <1>7, <1>8, <2>2, <2>4, ConcatOf
  <2>6. Dropped(x)'
    BY <1>1, <2>1, <2>2, <2>5 DEF Dropped, Told, Released, FreeItem
  <2> QED
    BY <2>6 DEF Life
<1>10. CASE c # FreeCommand(x)
  <2>1. before = queue \/ (before = Append(queue, FreeItem(c.source)) /\ c.source # x)
    BY <1>3, <1>10
  <2>2. c.source # x => FreeItem(c.source).source # x
    BY DEF FreeItem
  <2> HIDE DEF before
  <2>3. /\ Silent(queue, x) => Silent(before, x)
        /\ Lacks(queue, FreeItem(x)) => Lacks(before, FreeItem(x))
        /\ EndsWith(queue, x, FreeItem(x)) => EndsWith(before, x, FreeItem(x))
    BY <1>3, <1>6, <2>1, <2>2, AppendOther
  <2>4. /\ Lacks(before, FreeItem(x)) => Lacks(queue', FreeItem(x))
        /\ Unlisted(x)' /\ EndsWith(before, x, FreeItem(x)) => EndsWith(queue', x, FreeItem(x))
        /\ Unlisted(x)' /\ Silent(before, x) => Silent(queue', x)
    BY <1>3, <1>6, <1>7, <1>8, ConcatOf
  <2>5. Unlisted(x) /\ c.source # x => Unlisted(x)'
    BY <1>5 DEF Unlisted
  <2>6. Owned(x) => Owned(x)'
    BY <1>1, <1>4, <2>3, <2>4 DEF Owned, FreeItem, FreeCommand
  <2>7. Told(x) => Told(x)'
    BY <1>1, <1>4, <1>10, <2>3, <2>4 DEF Told, FreeItem, FreeCommand, Released
  <2>8. Dropped(x) => Dropped(x)'
    BY <1>1, <1>4, <2>3, <2>4, <2>5 DEF Dropped, FreeItem, Released
  <2>9. Gone(x) => Gone(x)'
    BY <1>1, <1>4, <2>3, <2>4, <2>5 DEF Gone, Released
  <2> QED
    BY <2>6, <2>7, <2>8, <2>9 DEF Life
<1> QED
  BY <1>9, <1>10

\* The queue runs an item, or a part of its handler.
LEMMA QueueKeepsLife ==
  ASSUME TypeOK, NEW x \in Sources, Life(x), QueueStep
  PROVE  Life(x)'
<1>0. FreeItem(x).source = x
  BY DEF FreeItem
<1>1. ASSUME RunEvent \/ RunCancel PROVE Life(x)'
  <2>1. /\ queue \in Seq(Item) /\ queue # <<>> /\ queue' = Tail(queue) /\ now = Idle
        /\ Head(queue).kind # "free" /\ (now' # Idle => now'.source = Head(queue).source)
        /\ UNCHANGED <<held, freed, canceled, closing, commands, list, timers>>
    BY <1>1 DEF RunEvent, RunCancel, TypeOK, owner, thread
  <2>2. /\ Silent(queue, x) => Silent(queue', x) /\ Head(queue).source # x
        /\ Lacks(queue, FreeItem(x)) => Lacks(queue', FreeItem(x))
        /\ EndsWith(queue, x, FreeItem(x)) =>
             Head(queue) = FreeItem(x) \/ EndsWith(queue', x, FreeItem(x))
    BY <1>0, <2>1, TailOf
  <2>3. Head(queue) # FreeItem(x)
    BY <2>1 DEF FreeItem
  <2>4. Owned(x) => Owned(x)'
    BY <2>1, <2>2 DEF Owned, FreeItem, FreeCommand
  <2>5. Told(x) => Told(x)'
    BY <2>1, <2>2 DEF Told, FreeItem, FreeCommand, Released
  <2>6. Dropped(x) => Dropped(x)'
    BY <2>1, <2>2, <2>3 DEF Dropped, FreeItem, Released, Unlisted
  <2>7. Gone(x) => Gone(x)'
    BY <2>1, <2>2 DEF Gone, Released, Unlisted
  <2> QED
    BY <2>4, <2>5, <2>6, <2>7 DEF Life
<1>2. CASE RunFree
  <2>1. /\ queue \in Seq(Item) /\ queue # <<>> /\ queue' = Tail(queue) /\ now = Idle
        /\ UNCHANGED <<held, canceled, closing, commands, list, timers, now>>
    BY <1>2 DEF RunFree, TypeOK, owner, thread
  <2>2. /\ Silent(queue, x) => Silent(queue', x) /\ Head(queue).source # x
        /\ Lacks(queue, FreeItem(x)) => Lacks(queue', FreeItem(x)) /\ Head(queue) # FreeItem(x)
        /\ EndsWith(queue, x, FreeItem(x)) =>
             \/ Head(queue) = FreeItem(x) /\ Silent(queue', x)
             \/ Head(queue) # FreeItem(x) /\ EndsWith(queue', x, FreeItem(x))
    BY <1>0, <2>1, TailOf
  <2>3. Head(queue) = FreeItem(x) <=> Head(queue).source = x
    BY <1>2, <2>1, HeadItem DEF RunFree, FreeItem
  <2>4. Head(queue) # FreeItem(x) => freed'[x] = freed[x]
    BY <1>2, <2>3 DEF RunFree, TypeOK
  <2>5. Owned(x) => Owned(x)'
    BY <2>1, <2>2, <2>4 DEF Owned, FreeItem, FreeCommand
  <2>6. Told(x) => Told(x)'
    BY <2>1, <2>2, <2>4 DEF Told, FreeItem, FreeCommand, Released
  <2>7. Dropped(x) => Dropped(x)' \/ Gone(x)'
    BY <2>1, <2>2, <2>4 DEF Dropped, Gone, FreeItem, Released, Unlisted
  <2>8. Gone(x) => Gone(x)'
    BY <2>1, <2>2 DEF Gone, Released, Unlisted
  <2> QED
    BY <2>5, <2>6, <2>7, <2>8 DEF Life
<1>3. CASE HandlerReturns
  <2>1. /\ UNCHANGED <<held, freed, canceled, closing, commands, list, timers, queue>>
        /\ now # Idle /\ (now' # Idle => now'.source = now.source)
    BY <1>3 DEF HandlerReturns, owner, thread, TypeOK, Now, Idle
  <2>2. Owned(x) => Owned(x)'
    BY <2>1 DEF Owned, FreeItem, FreeCommand
  <2>3. Told(x) => Told(x)'
    BY <2>1 DEF Told, FreeItem, FreeCommand, Released
  <2>4. Dropped(x) => Dropped(x)'
    BY <2>1 DEF Dropped, FreeItem, Released, Unlisted
  <2>5. Gone(x) => Gone(x)'
    BY <2>1 DEF Gone, Released, Unlisted
  <2> QED
    BY <2>2, <2>3, <2>4, <2>5 DEF Life
<1>4. CASE Rearm
  <2> DEFINE y == now.source
             e == [cmd |-> "arm", source |-> y]
  <2>1. /\ UNCHANGED <<held, freed, canceled, closing, list, timers, queue>>
        /\ now' = Idle
        /\ commands' = commands \/ (commands' = Append(commands, e) /\ ~canceled[y])
    BY <1>4 DEF Rearm, owner, thread, Send, Rearms, Active
  <2>2. y \in Sources
    BY <1>4 DEF Rearm, TypeOK, Now, Idle
  <2>3. /\ e \in Command /\ commands \in Seq(Command) /\ e # FreeCommand(x) /\ e.source = y
        /\ FreeCommand(x).source = x
    BY <2>2 DEF Command, TypeOK, FreeCommand
  <2> HIDE DEF e, y
  <2>4. Lacks(commands, FreeCommand(x)) => Lacks(commands', FreeCommand(x))
    BY <2>1, <2>3, AppendLacks, ZenonT(60)
  <2>5. ASSUME Released(x)
        PROVE  /\ Silent(commands, x) => Silent(commands', x)
               /\ EndsWith(commands, x, FreeCommand(x)) => EndsWith(commands', x, FreeCommand(x))
    <3>1. CASE commands' = commands
      BY <3>1
    <3>2. CASE commands' = Append(commands, e) /\ y # x
      BY <2>3, <3>2, AppendOther
    <3> QED
      BY <2>1, <2>5, <3>1, <3>2 DEF Released
  <2>6. Owned(x) => Owned(x)'
    BY <2>1, <2>4 DEF Owned, FreeItem, FreeCommand
  <2>7. Told(x) => Told(x)'
    BY <2>1, <2>5 DEF Told, FreeItem, FreeCommand, Released
  <2>8. Dropped(x) => Dropped(x)'
    BY <2>1, <2>5 DEF Dropped, FreeItem, Released, Unlisted
  <2>9. Gone(x) => Gone(x)'
    BY <2>1, <2>5 DEF Gone, Released, Unlisted
  <2> QED
    BY <2>6, <2>7, <2>8, <2>9 DEF Life
<1> QED
  BY <1>1, <1>2, <1>3, <1>4 DEF QueueStep

-------------------------------------------------------------------------------
(* The socket stays open under a handler. *)

\* What a step may do to the queue, for the two invariants below: what is new in it
\* is no cancel handler, and is an event only of a socket.
OnlyEventsCome ==
  \A i \in DOMAIN queue' : \/ \E j \in DOMAIN queue : queue'[i] = queue[j]
                           \/ queue'[i].kind \in {"tick", "free"}
                           \/ queue'[i].kind = "event" /\ queue'[i].source \in Sockets

LEMMA QueueComes ==
  ASSUME TypeOK, NEW r \in Seq(Item), queue' = queue \o r,
         \A i \in DOMAIN r : \/ r[i].kind \in {"tick", "free"}
                             \/ r[i].kind = "event" /\ r[i].source \in Sockets
  PROVE  OnlyEventsCome
<1>1. /\ Len(queue) \in Nat /\ Len(r) \in Nat
      /\ DOMAIN queue = 1 .. Len(queue) /\ DOMAIN r = 1 .. Len(r)
      /\ DOMAIN queue' = 1 .. Len(queue) + Len(r)
      /\ \A i \in 1 .. Len(queue) : queue'[i] = queue[i]
      /\ \A i \in Len(queue) + 1 .. Len(queue) + Len(r) : queue'[i] = r[i - Len(queue)]
  BY DEF TypeOK
<1>2. \A i \in Len(queue) + 1 .. Len(queue) + Len(r) : i - Len(queue) \in DOMAIN r
  BY <1>1
<1>3. ASSUME NEW i \in DOMAIN queue'
      PROVE  \/ \E j \in DOMAIN queue : queue'[i] = queue[j]
             \/ queue'[i].kind \in {"tick", "free"}
             \/ queue'[i].kind = "event" /\ queue'[i].source \in Sockets
  <2>1. CASE i \in 1 .. Len(queue)
    BY <1>1, <2>1
  <2>2. CASE i \in Len(queue) + 1 .. Len(queue) + Len(r)
    BY <1>1, <1>2, <2>2
  <2> QED
    BY <1>1, <2>1, <2>2
<1> QED
  BY <1>3 DEF OnlyEventsCome

LEMMA SelectBrings ==
  ASSUME TypeOK,
         \/ Build \/ SelectFails \/ Wakes
         \/ \E due \in SUBSET Timers : SelectRound(due)
  PROVE  OnlyEventsCome /\ UNCHANGED <<canceled, closing, closed, now>>
<1>1. CASE Build \/ SelectFails \/ Wakes
  BY <1>1 DEF Build, SelectFails, Wakes, owner, OnlyEventsCome
<1>2. ASSUME NEW due \in SUBSET Timers, HandleCommand(due)
      PROVE  OnlyEventsCome /\ UNCHANGED <<canceled, closing, closed, now>>
  <2> DEFINE c == Head(commands)
             before == IF c.cmd = "free" THEN Append(queue, FreeItem(c.source)) ELSE queue
  <2>1. /\ Handle(c.cmd, c.source, due) /\ commands # <<>>
        /\ UNCHANGED <<canceled, closing, closed, now>>
    BY <1>2 DEF HandleCommand, owner
  <2>2. c.cmd \in {"arm", "disarm", "free"} /\ c.source \in Sources
    BY <2>1, HeadCommand
  <2> HIDE DEF c
  <2>3. before \in Seq(Item) /\ FreeItem(c.source) \in Item /\ Expire(due, before)
    BY <2>1, <2>2, HandleIs, FreeItemType DEF TypeOK
  <2>4. PICK ticks \in Seq(Item) :
           /\ queue' = before \o ticks
           /\ \A i \in DOMAIN ticks : ticks[i].kind = "tick" /\ ticks[i].source \in due
    BY <2>3, ExpireQueues
  <2>5. PICK one \in Seq(Item) :
           before = queue \o one /\ \A i \in DOMAIN one : one[i].kind = "free"
    <3>1. CASE c.cmd = "free"
      <4> DEFINE e == FreeItem(c.source)
      <4>1. e \in Item /\ e.kind = "free"
        BY <2>3 DEF FreeItem
      <4>2. before = Append(queue, e)
        BY <3>1
      <4> HIDE DEF e, before
      <4>3. <<e>> \in Seq(Item) /\ before = queue \o <<e>> /\ \A i \in DOMAIN <<e>> : <<e>>[i].kind = "free"
        BY <4>1, <4>2 DEF TypeOK
      <4> QED
        BY <4>3
    <3>2. CASE c.cmd # "free"
      <4>1. <<>> \in Seq(Item) /\ before = queue \o <<>> /\ DOMAIN <<>> = {}
        BY <3>2 DEF TypeOK
      <4> HIDE DEF before
      <4> QED
        BY <4>1
    <3> QED
      BY <3>1, <3>2
  <2> HIDE DEF before
  <2> DEFINE r == one \o ticks
  <2>6. queue' = queue \o r /\ r \in Seq(Item)
    BY <2>4, <2>5, ConcatAssociative, SMTT(60) DEF TypeOK
  <2>7. \A i \in DOMAIN r : r[i].kind \in {"tick", "free"}
    BY <2>4, <2>5
  <2> HIDE DEF r
  <2> QED
    BY <2>1, <2>6, <2>7, QueueComes
<1>3. ASSUME NEW due \in SUBSET Timers, Fire(due)
      PROVE  OnlyEventsCome /\ UNCHANGED <<canceled, closing, closed, now>>
  <2> DEFINE I == {i \in DOMAIN list : list[i] \in watch}
             events == EventsFor(Sublist(list, I))
  <2>1. Expire(due, queue \o events) /\ UNCHANGED <<canceled, closing, closed, now>>
    BY <1>3 DEF Fire, owner
  <2>2. I \in SUBSET DOMAIN list
    OBVIOUS
  <2> HIDE DEF I
  <2>3. Sublist(list, I) \in Seq(Sockets)
    BY <2>2, UnwatchedIs
  <2>4. ToSet(Sublist(list, I)) \subseteq Sockets
    BY <2>3 DEF ToSet
  <2>5. events \in Seq(Item) /\ \A i \in DOMAIN events : /\ events[i].kind = "event"
                                                         /\ events[i].source \in Sockets
    BY <2>3, <2>4, EventsAre
  <2> HIDE DEF events
  <2>6. queue \in Seq(Item) /\ queue \o events \in Seq(Item)
    BY <2>5 DEF TypeOK
  <2>7. PICK ticks \in Seq(Item) :
           /\ queue' = (queue \o events) \o ticks
           /\ \A i \in DOMAIN ticks : ticks[i].kind = "tick" /\ ticks[i].source \in due
    BY <2>1, <2>6, ExpireQueues
  <2> DEFINE r == events \o ticks
  <2>8. queue' = queue \o r /\ r \in Seq(Item)
    BY <2>5, <2>6, <2>7, ConcatAssociative
  <2>9. \A i \in DOMAIN r : \/ r[i].kind \in {"tick", "free"}
                            \/ r[i].kind = "event" /\ r[i].source \in Sockets
    BY <2>5, <2>7
  <2> HIDE DEF r
  <2> QED
    BY <2>1, <2>8, <2>9, QueueComes
<1>4. ASSUME NEW due \in SUBSET Timers, Recover(due)
      PROVE  OnlyEventsCome /\ UNCHANGED <<canceled, closing, closed, now>>
  <2>1. Expire(due, queue) /\ UNCHANGED <<canceled, closing, closed, now>>
    BY <1>4 DEF Recover, owner
  <2>2. PICK ticks \in Seq(Item) :
           /\ queue' = queue \o ticks
           /\ \A i \in DOMAIN ticks : ticks[i].kind = "tick" /\ ticks[i].source \in due
    BY <2>1, ExpireQueues DEF TypeOK
  <2> QED
    BY <2>1, <2>2, QueueComes
<1> QED
  BY <1>1, <1>2, <1>3, <1>4 DEF SelectRound

\* The items of a queue whose first is taken are of the queue.
LEMMA TailComes == ASSUME TypeOK, queue # <<>>, queue' = Tail(queue) PROVE OnlyEventsCome
<1>1. /\ Len(queue) \in Nat \ {0} /\ DOMAIN queue = 1 .. Len(queue)
      /\ DOMAIN queue' = 1 .. Len(queue) - 1
      /\ \A i \in 1 .. Len(queue) - 1 : queue'[i] = queue[i + 1]
  BY DEF TypeOK
<1> QED
  BY <1>1 DEF OnlyEventsCome

LEMMA SourceOfItems == TypeOK => \A i \in DOMAIN queue : queue[i].source \in Sources
<1>1. TypeOK => \A i \in DOMAIN queue : queue[i] \in Item
  BY DEF TypeOK
<1> QED
  BY <1>1 DEF Item

LEMMA StepKeepsOpen ==
  ASSUME TypeOK, ClosedIsCanceled, EventsOpen, Next
  PROVE  ClosedIsCanceled' /\ EventsOpen'
<1>1. ASSUME OnlyEventsCome, UNCHANGED <<canceled, closing>>,
             \A s \in Sources : closed'[s] => canceled[s],
             now'.kind = "event" => now'.source \in Sockets /\ ~closed'[now'.source]
      PROVE  ClosedIsCanceled' /\ EventsOpen'
  <2>1. ClosedIsCanceled'
    BY <1>1 DEF ClosedIsCanceled, OnlyEventsCome
  <2>2. EventsOpen'
    BY <1>1 DEF EventsOpen, OnlyEventsCome
  <2> QED
    BY <2>1, <2>2
<1>2. ASSUME NEW s \in Sources, Suspend(s) \/ Resume(s) \/ SetTimer(s) \/ Release(s) \/ BecomeReady(s)
      PROVE  ClosedIsCanceled' /\ EventsOpen'
  <2>1. UNCHANGED <<closing, closed, queue, now>> /\ \A x \in Sources : canceled[x] => canceled'[x]
    BY <1>2 DEF Suspend, Resume, SetTimer, Release, BecomeReady, owner, TypeOK
  <2> QED
    BY <2>1, SourceOfItems DEF ClosedIsCanceled, EventsOpen
<1>3. ASSUME NEW s \in Sources, Cancel(s) PROVE ClosedIsCanceled' /\ EventsOpen'
  <2>1. /\ UNCHANGED <<closed, queue, now>>
        /\ \A x \in Sources : canceled[x] => canceled'[x]
        /\ \A x \in Sources : closing'[x] => closing[x] \/ canceled'[x]
    BY <1>3 DEF Cancel, TypeOK
  <2> QED
    BY <2>1, SourceOfItems DEF ClosedIsCanceled, EventsOpen
<1>4. ASSUME NEW s \in Sources, QueueCancel(s) PROVE ClosedIsCanceled' /\ EventsOpen'
  <2> DEFINE e == [kind |-> "cancel", source |-> s]
  <2>1. /\ UNCHANGED <<closed, now, canceled>> /\ queue' = Append(queue, e) /\ canceled[s]
        /\ \A x \in Sources : closing'[x] => closing[x]
    BY <1>4 DEF QueueCancel, TypeOK, ClosedIsCanceled
  <2>2. \A i \in DOMAIN queue' : (\E j \in DOMAIN queue : queue'[i] = queue[j]) \/ queue'[i] = e
    BY <2>1 DEF TypeOK
  <2>3. e.kind = "cancel" /\ e.source = s
    OBVIOUS
  <2> HIDE DEF e
  <2>4. ClosedIsCanceled'
    BY <2>1, <2>2, <2>3 DEF ClosedIsCanceled
  <2>5. EventsOpen'
    BY <2>1, <2>2, <2>3 DEF EventsOpen
  <2> QED
    BY <2>4, <2>5
<1>5. CASE \/ Build \/ SelectFails \/ Wakes
           \/ \E due \in SUBSET Timers : SelectRound(due)
  BY <1>1, <1>5, SelectBrings DEF ClosedIsCanceled, EventsOpen
<1>6. CASE RunEvent
  <2>1. /\ OnlyEventsCome /\ UNCHANGED <<canceled, closing, closed>>
        /\ queue # <<>> /\ now' # Idle =>
             now'.kind = Head(queue).kind /\ now'.source = Head(queue).source /\ Active(Head(queue).source)
    BY <1>6, TailComes DEF RunEvent, owner, HandlerStarts
  <2>2. now'.kind = "event" => now'.source \in Sockets /\ ~canceled[now'.source]
    <3>1. queue # <<>> /\ Head(queue) = queue[1] /\ 1 \in DOMAIN queue
      BY <1>6 DEF RunEvent, TypeOK
    <3>2. Head(queue).kind = "event" => Head(queue).source \in Sockets
      BY <3>1 DEF EventsOpen
    <3> QED
      BY <2>1, <3>1, <3>2 DEF Active, Idle
  <2> QED
    BY <1>1, <2>1, <2>2 DEF ClosedIsCanceled, Sources
<1>7. CASE RunCancel
  <2>1. /\ OnlyEventsCome /\ UNCHANGED <<canceled, closing, now>> /\ now.kind # "event"
        /\ queue # <<>> /\ Head(queue).kind = "cancel"
        /\ \A x \in Sources : closed'[x] => closed[x] \/ x = Head(queue).source
    BY <1>7, TailComes DEF RunCancel, owner, Idle, TypeOK
  <2>2. canceled[Head(queue).source]
    BY <2>1 DEF ClosedIsCanceled, TypeOK
  <2> QED
    BY <1>1, <2>1, <2>2 DEF ClosedIsCanceled
<1>8. CASE RunFree
  <2>1. OnlyEventsCome /\ UNCHANGED <<canceled, closing, now, closed>>
    BY <1>8, TailComes DEF RunFree, owner
  <2> QED
    BY <1>1, <2>1 DEF ClosedIsCanceled, EventsOpen
<1>9. CASE HandlerReturns \/ Rearm
  <2>1. /\ UNCHANGED <<canceled, closing, closed, queue>>
        /\ now'.kind = "event" => now'.source = now.source /\ now.kind = "event"
    BY <1>9 DEF HandlerReturns, Rearm, owner, TypeOK, Now, Idle
  <2>2. OnlyEventsCome
    BY <2>1 DEF OnlyEventsCome
  <2> QED
    BY <1>1, <2>1, <2>2 DEF ClosedIsCanceled, EventsOpen
<1> QED
  BY <1>2, <1>3, <1>4, <1>5, <1>6, <1>7, <1>8, <1>9 DEF Next, OwnerStep, QueueStep

-------------------------------------------------------------------------------
LEMMA InitInv == Init => Inv
<1> SUFFICES ASSUME Init PROVE Inv
  OBVIOUS
<1>1. TypeOK
  BY CallsAssumption DEF Init, TypeOK, Now
<1>2. ASSUME NEW s \in Sources PROVE Life(s)
  BY DEF Init, Life, Owned, Lacks
<1>3. ClosedIsCanceled /\ EventsOpen
  BY DEF Init, ClosedIsCanceled, EventsOpen, Idle
<1> QED
  BY <1>1, <1>2, <1>3 DEF Inv

LEMMA NextKeepsInv == Inv /\ [Next]_vars => Inv'
<1> SUFFICES ASSUME Inv, [Next]_vars PROVE Inv'
  OBVIOUS
<1>1. CASE Next
  <2>1. TypeOK'
    BY <1>1, OwnerTypes, SelectTypes, QueueTypes DEF Inv, Next
  <2>2. ASSUME NEW x \in Sources PROVE Life(x)'
    <3>1. TypeOK /\ Life(x)
      BY DEF Inv
    <3>2. CASE \E s \in Sources : OwnerStep(s) \/ BecomeReady(s)
      BY <3>1, <3>2, OwnerKeepsLife
    <3>3. CASE Build \/ SelectFails \/ Wakes
      BY <3>1, <3>3, SameLife DEF Build, SelectFails, Wakes, owner
    <3>4. CASE \E due \in SUBSET Timers : SelectRound(due)
      BY <3>1, <3>4, HandleKeepsLife, FireKeepsLife, RecoverKeepsLife DEF SelectRound
    <3>5. CASE QueueStep
      BY <3>1, <3>5, QueueKeepsLife
    <3> QED
      BY <1>1, <3>2, <3>3, <3>4, <3>5 DEF Next
  <2>3. ClosedIsCanceled' /\ EventsOpen'
    BY <1>1, StepKeepsOpen DEF Inv
  <2> QED
    BY <2>1, <2>2, <2>3 DEF Inv
<1>2. CASE UNCHANGED vars
  <2>1. UNCHANGED <<held, freed, canceled, closing, commands, list, timers, queue, now>>
    BY <1>2 DEF vars
  <2>2. TypeOK'
    BY <1>2 DEF Inv, TypeOK, vars
  <2>3. ASSUME NEW s \in Sources PROVE Life(s)'
    BY <2>1, SameLife DEF Inv
  <2>4. ClosedIsCanceled' /\ EventsOpen'
    BY <1>2 DEF Inv, ClosedIsCanceled, EventsOpen, vars
  <2> QED
    BY <2>2, <2>3, <2>4 DEF Inv
<1> QED
  BY <1>1, <1>2

LEMMA SpecInv == Spec => []Inv
BY InitInv, NextKeepsInv, PTL DEF Spec

\* Nothing in the lists, commands and queue is about a source that was freed
\* (__dispatch_source_free), and its handler does not run.
THEOREM FreedIsForgotten == Spec => []NoUseAfterFree
<1>1. Inv => NoUseAfterFree
  <2> SUFFICES ASSUME Inv, NEW s \in Sources, freed[s]
               PROVE  /\ s \notin ToSet(list) \union timers
                      /\ \A i \in DOMAIN commands : commands[i].source # s
                      /\ \A i \in DOMAIN queue : queue[i].source # s
                      /\ now # Idle => now.source # s
    BY DEF NoUseAfterFree
  <2>1. Gone(s)
    BY DEF Inv, Life, Owned, Told, Dropped
  <2> QED
    BY <2>1 DEF Gone, Silent, Unlisted
<1> QED
  BY <1>1, SpecInv, PTL

\* A read or write handler runs only while the socket is open: the last cancel
\* handler, which closes it (_HTTPConnectionFinalize), comes later.
THEOREM HandlersFindSocketOpen == Spec => []SocketOpenInHandler
<1>1. Inv => SocketOpenInHandler
  BY DEF Inv, EventsOpen, SocketOpenInHandler, SocketOpen
<1> QED
  BY <1>1, SpecInv, PTL

-------------------------------------------------------------------------------
(* Numbers and lists of units. *)

\* Min of a set of numbers.
LEMMA LeastOf ==
  ASSUME NEW T \in SUBSET Nat, T # {}
  PROVE  Min(T) \in T /\ \A y \in T : Min(T) <= y
<1> DEFINE Less == {pair \in Nat \X Nat : pair[1] < pair[2]}
<1>0. IsWellFoundedOn(Less, Nat)
  BY NatLessThanWellFounded DEF OpToRel
<1>1. PICK x \in T : \A y \in T : <<y, x>> \notin Less
  BY <1>0, WFMin
<1>2. ASSUME NEW y \in T PROVE x <= y
  <2>1. x \in Nat /\ y \in Nat
    OBVIOUS
  <2>2. y < x => <<y, x>> \in Less
    BY <2>1
  <2> QED
    BY <1>1, <2>1, <2>2
<1> QED
  BY <1>2 DEF Min

\* A read takes the first n units and leaves those after them.
LEMMA CutParts ==
  ASSUME NEW S, NEW s \in Seq(S), NEW n \in Nat
  PROVE  /\ First(s, n) \in Seq(S) /\ After(s, n) \in Seq(S)
         /\ Len(First(s, n)) = IF n <= Len(s) THEN n ELSE Len(s)
         /\ Len(After(s, n)) = IF n <= Len(s) THEN Len(s) - n ELSE 0
         /\ First(s, n) \o After(s, n) = s
<1>1. Len(s) \in Nat /\ \A i \in 1 .. Len(s) : s[i] \in S
  BY LenProperties, ElementOfSeq
<1>2. Min({n, Len(s)}) \in {n, Len(s)} /\ Min({n, Len(s)}) <= n /\ Min({n, Len(s)}) <= Len(s)
  BY <1>1, LeastOf
<1>3. CASE n <= Len(s)
  <2>1. Min({n, Len(s)}) = n
    BY <1>1, <1>2, <1>3
  <2>2. /\ SubSeq(s, 1, n) \in Seq(S) /\ Len(SubSeq(s, 1, n)) = n
        /\ SubSeq(s, n + 1, Len(s)) \in Seq(S) /\ Len(SubSeq(s, n + 1, Len(s))) = Len(s) - n
    BY <1>1, <1>3, SubSeqProperties
  <2>3. SubSeq(s, 1, n) \o SubSeq(s, n + 1, Len(s)) = SubSeq(s, 1, Len(s))
    <3>1. 1 \in 1 .. Len(s) + 1 /\ n \in 1 - 1 .. Len(s) /\ Len(s) \in n .. Len(s)
      BY <1>1, <1>3
    <3> QED
      BY <3>1, ConcatAdjacentSubSeq
  <2> QED
    BY <1>3, <2>1, <2>2, <2>3, SubSeqFull DEF First, After
<1>4. CASE n > Len(s)
  <2>1. Min({n, Len(s)}) = Len(s)
    BY <1>1, <1>2, <1>4
  <2>2. SubSeq(s, 1, Len(s)) = s /\ SubSeq(s, n + 1, Len(s)) = <<>>
    BY <1>1, <1>4, SubSeqFull, SubSeqEmpty
  <2>3. First(s, n) = s /\ After(s, n) = <<>>
    BY <2>1, <2>2 DEF First, After
  <2> QED
    BY <1>1, <1>4, <2>3, ConcatEmptySeq, EmptySeq
<1> QED
  BY <1>1, <1>3, <1>4

\* What is behind the first p elements, up to the m-th.
Between(q, p, m) == SubSeq(q, p + 1, m)

\* What is between two places of a list.
LEMMA BetweenIs ==
  ASSUME NEW S, NEW q \in Seq(S), NEW p \in Nat, NEW m \in Nat, p <= m, m <= Len(q)
  PROVE  /\ Between(q, p, m) \in Seq(S) /\ Len(Between(q, p, m)) = m - p
         /\ \A i \in 1 .. m - p : Between(q, p, m)[i] = q[p + i]
<1>1. Len(q) \in Nat /\ \A i \in 1 .. Len(q) : q[i] \in S
  BY LenProperties, ElementOfSeq
<1>2. \A i \in p + 1 .. m : q[i] \in S
  BY <1>1
<1>3. /\ SubSeq(q, p + 1, m) \in Seq(S)
      /\ Len(SubSeq(q, p + 1, m)) = IF p + 1 <= m THEN m - (p + 1) + 1 ELSE 0
      /\ \A i \in 1 .. m - (p + 1) + 1 : SubSeq(q, p + 1, m)[i] = q[p + 1 + i - 1]
  BY <1>2, SubSeqProperties
<1>4. m - (p + 1) + 1 = m - p /\ \A i \in 1 .. m - p : p + 1 + i - 1 = p + i
  OBVIOUS
<1> QED
  BY <1>3, <1>4 DEF Between

Joined(q, p, m, a, b) == a \o b = Between(q, p, m)

\* A list that is cut in two is cut at a place.
LEMMA CutAt ==
  ASSUME NEW S, NEW q \in Seq(S), NEW p \in Nat, NEW m \in Nat, NEW a \in Seq(S), NEW b \in Seq(S),
         p <= m, m <= Len(q), Joined(q, p, m, a, b)
  PROVE  \E r \in Nat : /\ r = p + Len(a) /\ r <= m
                        /\ a = Between(q, p, r) /\ b = Between(q, r, m)
<1>1. Len(q) \in Nat /\ Len(a) \in Nat /\ Len(b) \in Nat
  BY LenProperties
<1>2. Len(Between(q, p, m)) = m - p /\ \A i \in 1 .. m - p : Between(q, p, m)[i] = q[p + i]
  BY BetweenIs
<1>3. /\ Len(a) + Len(b) = m - p
      /\ \A i \in 1 .. Len(a) + Len(b) : (a \o b)[i] = IF i <= Len(a) THEN a[i] ELSE b[i - Len(a)]
  <2>1. Len(a \o b) = Len(a) + Len(b)
    BY ConcatProperties
  <2>2. Len(a \o b) = m - p
    BY <1>2 DEF Joined
  <2> QED
    BY <2>1, <2>2, ConcatProperties
<1> DEFINE r == p + Len(a)
<1>4. r \in Nat /\ p <= r /\ r <= m /\ r <= Len(q) /\ r - p = Len(a) /\ m - r = Len(b)
  BY <1>1, <1>3
<1>5. a = Between(q, p, r)
  <2> HIDE DEF r
  <2>1. /\ Between(q, p, r) \in Seq(S) /\ Len(Between(q, p, r)) = Len(a)
        /\ \A i \in 1 .. Len(a) : Between(q, p, r)[i] = q[p + i]
    <3>1. /\ Between(q, p, r) \in Seq(S) /\ Len(Between(q, p, r)) = r - p
          /\ \A i \in 1 .. r - p : Between(q, p, r)[i] = q[p + i]
      BY <1>4, BetweenIs
    <3> QED
      BY <1>4, <3>1
  <2>2. \A i \in 1 .. Len(a) : a[i] = q[p + i]
    BY <1>1, <1>2, <1>3 DEF Joined
  <2> QED
    BY <2>1, <2>2, SeqEqual
<1>6. b = Between(q, r, m)
  <2>1. /\ Between(q, r, m) \in Seq(S) /\ Len(Between(q, r, m)) = Len(b)
        /\ \A i \in 1 .. Len(b) : Between(q, r, m)[i] = q[r + i]
    <3> HIDE DEF r
    <3>1. /\ Between(q, r, m) \in Seq(S) /\ Len(Between(q, r, m)) = m - r
          /\ \A i \in 1 .. m - r : Between(q, r, m)[i] = q[r + i]
      BY <1>4, BetweenIs
    <3> QED
      BY <1>4, <3>1
  <2>2. ASSUME NEW i \in 1 .. Len(b) PROVE b[i] = q[r + i]
    <3>1. Len(a) + i \in 1 .. Len(a) + Len(b) /\ ~(Len(a) + i <= Len(a)) /\ Len(a) + i - Len(a) = i
      BY <1>1
    <3>2. (a \o b)[Len(a) + i] = b[i]
      BY <1>3, <3>1
    <3>3. (a \o b)[Len(a) + i] = q[p + (Len(a) + i)] /\ p + (Len(a) + i) = r + i
      BY <1>1, <1>2, <1>3, <3>1 DEF Joined
    <3> QED
      BY <3>2, <3>3
  <2> HIDE DEF r
  <2> QED
    BY <2>1, <2>2, SeqEqual
<1> QED
  BY <1>1, <1>4, <1>5, <1>6

-------------------------------------------------------------------------------
(* The messages behind one another. *)

\* What a piece at a time adds up to is well defined, for any number of pieces.
LEMMA Accumulates ==
  ASSUME NEW n \in Nat, NEW piece
  PROVE  \E f : f = [k \in 0 .. n |-> IF k = 0 THEN <<>> ELSE f[k - 1] \o piece[k]]
<1> DEFINE Upto(f, m) == f = [k \in 0 .. m |-> IF k = 0 THEN <<>> ELSE f[k - 1] \o piece[k]]
           T == {m \in Nat : ~\E f : Upto(f, m)}
<1>1. ASSUME T # {} PROVE FALSE
  <2>1. Min(T) \in T /\ \A y \in T : Min(T) <= y
    <3>1. T \in SUBSET Nat
      OBVIOUS
    <3> HIDE DEF T
    <3> QED
      BY <1>1, <3>1, LeastOf
  <2>2. PICK m \in T : \A y \in T : m <= y
    BY <2>1
  <2>3. CASE m = 0
    <3>1. Upto([k \in 0 .. 0 |-> <<>>], 0)
      OBVIOUS
    <3> HIDE DEF Upto
    <3> QED
      BY <2>3, <3>1
  <2>4. CASE m # 0
    <3>1. m \in Nat /\ m - 1 \in Nat /\ ~(m <= m - 1)
      BY <2>4
    <3>2. m - 1 \notin T
      <4> HIDE DEF T
      <4> QED
        BY <2>2, <3>1
    <3>3. PICK f : Upto(f, m - 1)
      BY <3>1, <3>2
    <3> DEFINE g == [k \in 0 .. m |-> IF k = m THEN f[m - 1] \o piece[m] ELSE f[k]]
    <3>4. ASSUME NEW k \in 0 .. m
          PROVE  g[k] = IF k = 0 THEN <<>> ELSE g[k - 1] \o piece[k]
      <4>1. CASE k = 0
        <5>1. g[k] = f[k] /\ 0 \in 0 .. m - 1
          BY <2>4, <3>1, <4>1
        <5> QED
          BY <3>3, <4>1, <5>1
      <4>2. CASE k # 0 /\ k # m
        <5>1. k \in 0 .. m - 1 /\ k - 1 \in 0 .. m /\ k - 1 # m
          BY <3>1, <4>2
        <5>2. g[k] = f[k] /\ g[k - 1] = f[k - 1]
          BY <4>2, <5>1
        <5>3. f[k] = f[k - 1] \o piece[k]
          BY <3>3, <4>2, <5>1
        <5> QED
          BY <4>2, <5>2, <5>3
      <4>3. CASE k = m
        <5>1. m - 1 \in 0 .. m /\ m - 1 # m
          BY <3>1
        <5>2. g[m - 1] = f[m - 1]
          BY <5>1
        <5> QED
          BY <2>4, <4>3, <5>2
      <4> QED
        BY <4>1, <4>2, <4>3
    <3>5. Upto(g, m)
      <4>1. g = [k \in 0 .. m |-> g[k]]
        OBVIOUS
      <4> HIDE DEF g
      <4> QED
        BY <3>4, <4>1
    <3> HIDE DEF g, Upto
    <3> QED
      BY <3>5
  <2> QED
    BY <2>3, <2>4
<1>2. n \notin T
  BY <1>1
<1> QED
  BY <1>2

\* The sums of the model are well defined.
LEMMA UptoIs ==
  /\ RequestsUpto = [k \in 0 .. Requests |->
                       IF k = 0 THEN <<>> ELSE RequestsUpto[k - 1] \o RequestUnits(k)]
  /\ ResponsesUpto = [k \in 0 .. Requests |->
                        IF k = 0 THEN <<>> ELSE ResponsesUpto[k - 1] \o OnWire(k)]
<1>1. \E f : f = [k \in 0 .. Requests |-> IF k = 0 THEN <<>> ELSE f[k - 1] \o RequestUnits(k)]
  <2> DEFINE piece == [k \in 0 .. Requests |-> RequestUnits(k)]
  <2>1. \E f : f = [k \in 0 .. Requests |-> IF k = 0 THEN <<>> ELSE f[k - 1] \o piece[k]]
    <3> HIDE DEF piece
    <3> QED
      BY Accumulates, RequestsAssumption
  <2> QED
    BY <2>1
<1>2. \E f : f = [k \in 0 .. Requests |-> IF k = 0 THEN <<>> ELSE f[k - 1] \o OnWire(k)]
  <2> DEFINE piece == [k \in 0 .. Requests |-> OnWire(k)]
  <2>1. \E f : f = [k \in 0 .. Requests |-> IF k = 0 THEN <<>> ELSE f[k - 1] \o piece[k]]
    <3> HIDE DEF piece
    <3> QED
      BY Accumulates, RequestsAssumption
  <2> QED
    BY <2>1
<1>3. RequestsUpto = [k \in 0 .. Requests |->
                       IF k = 0 THEN <<>> ELSE RequestsUpto[k - 1] \o RequestUnits(k)]
  BY <1>1 DEF RequestsUpto
<1>4. ResponsesUpto = [k \in 0 .. Requests |->
                        IF k = 0 THEN <<>> ELSE ResponsesUpto[k - 1] \o OnWire(k)]
  BY <1>2 DEF ResponsesUpto
<1> QED
  BY <1>3, <1>4

AddsUp(f, n, piece) == f = [k \in 0 .. n |-> IF k = 0 THEN <<>> ELSE f[k - 1] \o piece[k]]

\* The pieces are found in the whole, one behind the other.
IsSum(S, f, n, piece) ==
  /\ f[0] = <<>>
  /\ \A k \in 0 .. n : f[k] \in Seq(S) /\ Len(f[k]) \in Nat /\ Len(f[k]) <= Len(f[n])
  /\ \A k \in 1 .. n : /\ Len(f[k]) = Len(f[k - 1]) + Len(piece[k])
                       /\ Between(f[n], Len(f[k - 1]), Len(f[k])) = piece[k]

\* A list begins another.
Begins(a, q) == Len(a) <= Len(q) /\ \A i \in 1 .. Len(a) : a[i] = q[i]

\* A list begins with what it was joined from first.
LEMMA ConcatBegins ==
  ASSUME NEW S, NEW a \in Seq(S), NEW b \in Seq(S)
  PROVE  Begins(a, a \o b)
<1>1. Len(a) \in Nat /\ Len(b) \in Nat /\ Len(a \o b) = Len(a) + Len(b)
  BY LenProperties, ConcatProperties
<1>2. \A i \in 1 .. Len(a) + Len(b) : (a \o b)[i] = IF i <= Len(a) THEN a[i] ELSE b[i - Len(a)]
  BY ConcatProperties
<1>3. \A i \in 1 .. Len(a) : i \in 1 .. Len(a) + Len(b) /\ i <= Len(a)
  BY <1>1
<1>4. Len(a) <= Len(a \o b)
  BY <1>1
<1> QED
  BY <1>2, <1>3, <1>4 DEF Begins

LEMMA BeginsBegins ==
  ASSUME NEW S, NEW a \in Seq(S), NEW b \in Seq(S), NEW c \in Seq(S), Begins(a, b), Begins(b, c)
  PROVE  Begins(a, c)
<1>1. Len(a) \in Nat /\ Len(b) \in Nat /\ Len(c) \in Nat /\ Len(a) <= Len(b) /\ Len(b) <= Len(c)
  BY LenProperties DEF Begins
<1>2. Len(a) <= Len(c) /\ \A i \in 1 .. Len(a) : i \in 1 .. Len(b)
  BY <1>1
<1> QED
  BY <1>2 DEF Begins

\* The second of two pieces is found behind the first.
LEMMA PieceAt ==
  ASSUME NEW S, NEW q \in Seq(S), NEW a \in Seq(S), NEW b \in Seq(S), Begins(a \o b, q)
  PROVE  Between(q, Len(a), Len(a) + Len(b)) = b
<1>1. Len(a) \in Nat /\ Len(b) \in Nat /\ Len(a \o b) = Len(a) + Len(b)
  BY LenProperties, ConcatProperties
<1> DEFINE m == Len(a) + Len(b)
<1>2. m \in Nat /\ Len(a) <= m /\ m <= Len(q) /\ m - Len(a) = Len(b)
  BY <1>1 DEF Begins
<1>3. /\ Between(q, Len(a), m) \in Seq(S) /\ Len(Between(q, Len(a), m)) = Len(b)
      /\ \A i \in 1 .. Len(b) : Between(q, Len(a), m)[i] = q[Len(a) + i]
  <2> HIDE DEF m
  <2>1. /\ Between(q, Len(a), m) \in Seq(S) /\ Len(Between(q, Len(a), m)) = m - Len(a)
        /\ \A i \in 1 .. m - Len(a) : Between(q, Len(a), m)[i] = q[Len(a) + i]
    BY <1>1, <1>2, BetweenIs, SMTT(60)
  <2> QED
    BY <1>2, <2>1
<1>4. ASSUME NEW i \in 1 .. Len(b) PROVE b[i] = q[Len(a) + i]
  <2>1. Len(a) + i \in 1 .. Len(a) + Len(b) /\ ~(Len(a) + i <= Len(a)) /\ Len(a) + i - Len(a) = i
    BY <1>1
  <2>2. (a \o b)[Len(a) + i] = b[i]
    BY <2>1, ConcatProperties
  <2>3. (a \o b)[Len(a) + i] = q[Len(a) + i]
    BY <1>1, <2>1 DEF Begins
  <2> QED
    BY <2>2, <2>3
<1> HIDE DEF m
<1>5. Between(q, Len(a), m) = b
  BY <1>3, <1>4, SeqEqual
<1> QED
  BY <1>5 DEF m

\* Each piece is found where the sum of those before it ends.
LEMMA Pieces ==
  ASSUME NEW S, NEW n \in Nat, NEW f, NEW piece, \A k \in 1 .. n : piece[k] \in Seq(S),
         AddsUp(f, n, piece)
  PROVE  IsSum(S, f, n, piece)
<1>1. f[0] = <<>> /\ \A k \in 1 .. n : f[k] = f[k - 1] \o piece[k]
  <2>1. 0 \in 0 .. n /\ \A k \in 1 .. n : k \in 0 .. n /\ k # 0
    OBVIOUS
  <2> QED
    BY <2>1 DEF AddsUp
<1> DEFINE Good(k) == f[k] \in Seq(S) /\ \A j \in 0 .. k : f[j] \in Seq(S) /\ Begins(f[j], f[k])
           T == {k \in 0 .. n : ~Good(k)}
<1>2. ASSUME T # {} PROVE FALSE
  <2>1. Min(T) \in T /\ \A y \in T : Min(T) <= y
    <3>1. T \in SUBSET Nat
      OBVIOUS
    <3> HIDE DEF T
    <3> QED
      BY <1>2, <3>1, LeastOf
  <2>2. PICK m \in T : \A y \in T : m <= y
    BY <2>1
  <2>3. CASE m = 0
    <3>1. f[0] \in Seq(S)
      BY <1>1, EmptySeq
    <3>2. Begins(f[0], f[0])
      <4>1. Len(f[0]) \in Nat
        BY <3>1, LenProperties
      <4> QED
        BY <4>1 DEF Begins
    <3>3. \A j \in 0 .. 0 : j = 0
      OBVIOUS
    <3>4. Good(0)
      BY <3>1, <3>2, <3>3
    <3> QED
      BY <2>3, <3>4
  <2>4. CASE m # 0
    <3>1. m \in 1 .. n /\ m - 1 \in 0 .. n /\ ~(m <= m - 1)
      BY <2>4
    <3>2. Good(m - 1)
      <4>1. m - 1 \notin T
        <5> HIDE DEF T
        <5> QED
          BY <2>2, <3>1
      <4> QED
        BY <3>1, <4>1
    <3>3. f[m] = f[m - 1] \o piece[m] /\ piece[m] \in Seq(S) /\ f[m - 1] \in Seq(S)
      BY <1>1, <3>1, <3>2
    <3>4. f[m] \in Seq(S) /\ Begins(f[m - 1], f[m])
      BY <3>3, ConcatProperties, ConcatBegins
    <3>5. Begins(f[m], f[m])
      <4>1. Len(f[m]) \in Nat
        BY <3>4, LenProperties
      <4> QED
        BY <4>1 DEF Begins
    <3>6. ASSUME NEW j \in 0 .. m PROVE f[j] \in Seq(S) /\ Begins(f[j], f[m])
      <4>1. CASE j = m
        BY <3>4, <3>5, <4>1
      <4>2. CASE j # m
        <5>1. j \in 0 .. m - 1
          BY <3>1, <4>2
        <5>2. f[j] \in Seq(S) /\ Begins(f[j], f[m - 1])
          BY <3>2, <5>1
        <5> QED
          BY <3>3, <3>4, <5>2, BeginsBegins
      <4> QED
        BY <4>1, <4>2
    <3>7. Good(m)
      BY <3>4, <3>6
    <3> QED
      BY <3>7
  <2> QED
    BY <2>3, <2>4
<1>3. Good(n)
  <2>1. n \in 0 .. n
    OBVIOUS
  <2> QED
    BY <1>2, <2>1
<1>4. ASSUME NEW k \in 0 .. n
      PROVE  f[k] \in Seq(S) /\ Len(f[k]) \in Nat /\ Len(f[k]) <= Len(f[n])
  BY <1>3, LenProperties DEF Begins
<1>5. ASSUME NEW k \in 1 .. n
      PROVE  /\ Len(f[k]) = Len(f[k - 1]) + Len(piece[k])
             /\ Between(f[n], Len(f[k - 1]), Len(f[k])) = piece[k]
  <2>1. k \in 0 .. n /\ k - 1 \in 0 .. n
    OBVIOUS
  <2>2. f[k - 1] \in Seq(S) /\ piece[k] \in Seq(S) /\ f[n] \in Seq(S)
    BY <1>3, <2>1
  <2>3. f[k] = f[k - 1] \o piece[k]
    BY <1>1
  <2>4. Len(f[k]) = Len(f[k - 1]) + Len(piece[k])
    BY <2>2, <2>3, ConcatProperties
  <2>5. Begins(f[k - 1] \o piece[k], f[n])
    BY <1>3, <2>1, <2>3
  <2>6. Between(f[n], Len(f[k - 1]), Len(f[k - 1]) + Len(piece[k])) = piece[k]
    BY <2>2, <2>5, PieceAt
  <2> QED
    BY <2>4, <2>6
<1> QED
  BY <1>1, <1>4, <1>5 DEF IsSum

RequestUnit == [part : {"line", "end", "data"}, n : Nat]

\* The messages and their frames.
LEMMA RequestIs ==
  ASSUME NEW k \in Nat
  PROVE  /\ RequestUnits(k) \in Seq(RequestUnit)
         /\ Len(RequestUnits(k)) = IF k \in WithBody THEN 3 ELSE 2
         /\ RequestUnits(k)[1] = Unit("line", k)
         /\ RequestUnits(k)[2] = Unit("end", k)
<1>1. /\ Unit("line", k) \in RequestUnit /\ Unit("end", k) \in RequestUnit
      /\ Unit("data", k) \in RequestUnit
  BY DEF Unit, RequestUnit
<1>2. CASE k \in WithBody
  <2>1. RequestUnits(k) = <<Unit("line", k), Unit("end", k)>> \o <<Unit("data", k)>>
    BY <1>2 DEF RequestUnits
  <2> DEFINE u == Unit("line", k)
             v == Unit("end", k)
             w == Unit("data", k)
  <2>2. <<u, v>> \in Seq(RequestUnit) /\ <<w>> \in Seq(RequestUnit) /\ Len(<<u, v>>) = 2 /\ Len(<<w>>) = 1
    <3>1. u \in RequestUnit /\ v \in RequestUnit /\ w \in RequestUnit
      BY <1>1
    <3> HIDE DEF u, v, w
    <3> QED
      BY <3>1
  <2>3. /\ <<u, v>> \o <<w>> \in Seq(RequestUnit) /\ Len(<<u, v>> \o <<w>>) = 2 + 1
        /\ (<<u, v>> \o <<w>>)[1] = u /\ (<<u, v>> \o <<w>>)[2] = v
    <3> HIDE DEF u, v, w
    <3>1. /\ <<u, v>> \o <<w>> \in Seq(RequestUnit) /\ Len(<<u, v>> \o <<w>>) = 2 + 1
          /\ \A i \in 1 .. 2 + 1 : (<<u, v>> \o <<w>>)[i] = IF i <= 2 THEN <<u, v>>[i] ELSE <<w>>[i - 2]
      BY <2>2, ConcatProperties
    <3> QED
      BY <3>1
  <2> QED
    BY <1>2, <2>1, <2>3
<1>3. CASE k \notin WithBody
  <2>1. RequestUnits(k) = <<Unit("line", k), Unit("end", k)>> \o <<>>
    BY <1>3 DEF RequestUnits
  <2>2. RequestUnits(k) = <<Unit("line", k), Unit("end", k)>>
    BY <2>1
  <2> QED
    BY <1>1, <1>3, <2>2
<1> QED
  BY <1>2, <1>3

LEMMA FrameIs ==
  ASSUME NEW s \in Units
  PROVE  Frame(s) \in Units /\ Len(Frame(s)) = Len(s) + 2
<1>1. /\ Unit("length", Len(s)) \in UnitType /\ Unit("tag", 0) \in UnitType
  BY LenProperties DEF Unit, UnitType, Units
<1>2. <<Unit("length", Len(s))>> \in Seq(UnitType) /\ <<Unit("tag", 0)>> \in Seq(UnitType)
  BY <1>1
<1>3. /\ <<Unit("length", Len(s))>> \o s \in Seq(UnitType)
      /\ Len(<<Unit("length", Len(s))>> \o s) = 1 + Len(s)
  BY <1>2, ConcatProperties DEF Units
<1>4. Frame(s) \in Seq(UnitType) /\ Len(Frame(s)) = 1 + Len(s) + 1
  <2>1. Len(<<Unit("tag", 0)>>) = 1
    OBVIOUS
  <2> HIDE DEF Unit
  <2> QED
    BY <1>2, <1>3, <2>1, ConcatProperties DEF Frame
<1>5. Len(s) \in Nat
  BY LenProperties DEF Units
<1> QED
  BY <1>4, <1>5 DEF Units

LEMMA ResponseIs ==
  ASSUME NEW k \in Nat
  PROVE  ResponseUnits(k) \in Units /\ Len(ResponseUnits(k)) = 2
<1>1. Unit("head", k) \in UnitType /\ Unit("body", k) \in UnitType
  BY DEF Unit, UnitType
<1> QED
  BY <1>1 DEF ResponseUnits, Units

LEMMA FramesAre ==
  ASSUME NEW s \in Units
  PROVE  Frames(s) \in Units /\ Len(Frames(s)) > 0
<1>1. Len(s) \in Nat /\ WriteMax \in Nat \ {0}
  BY LenProperties, SizesAssumption DEF Units
<1>2. CASE Len(s) <= WriteMax
  BY <1>1, <1>2, FrameIs DEF Frames
<1>3. CASE ~(Len(s) <= WriteMax)
  <2> DEFINE a == SubSeq(s, 1, WriteMax)
             b == SubSeq(s, WriteMax + 1, Len(s))
  <2>1. a \in Units /\ b \in Units
    <3>1. /\ \A i \in 1 .. WriteMax : s[i] \in UnitType
          /\ \A i \in WriteMax + 1 .. Len(s) : s[i] \in UnitType
      <4>1. \A i \in 1 .. Len(s) : s[i] \in UnitType
        BY ElementOfSeq DEF Units
      <4> QED
        BY <1>1, <1>3, <4>1
    <3> QED
      BY <1>1, <3>1, SubSeqProperties DEF Units
  <2>2. Frames(s) = Frame(a) \o Frame(b)
    BY <1>3 DEF Frames
  <2> HIDE DEF a, b
  <2>3. /\ Frame(a) \in Units /\ Frame(b) \in Units
        /\ Len(Frame(a)) = Len(a) + 2 /\ Len(Frame(b)) = Len(b) + 2
        /\ Len(a) \in Nat /\ Len(b) \in Nat
    BY <2>1, FrameIs, LenProperties DEF Units
  <2>4. Frames(s) \in Units /\ Len(Frames(s)) = Len(Frame(a)) + Len(Frame(b))
    BY <2>2, <2>3, ConcatProperties DEF Units
  <2> QED
    BY <2>3, <2>4
<1> QED
  BY <1>2, <1>3

LEMMA WireIs ==
  ASSUME NEW k \in Nat
  PROVE  OnWire(k) \in Units /\ Len(OnWire(k)) \in Nat \ {0}
<1>1. ResponseUnits(k) \in Units /\ Len(ResponseUnits(k)) = 2
  BY ResponseIs
<1>2. Frames(ResponseUnits(k)) \in Units /\ Len(Frames(ResponseUnits(k))) > 0
  BY <1>1, FramesAre
<1>3. Len(Frames(ResponseUnits(k))) \in Nat
  BY <1>2, LenProperties DEF Units
<1> QED
  BY <1>1, <1>2, <1>3 DEF OnWire

\* The requests and the responses, as the pieces of what is asked and answered.
Asks(k) == Len(RequestsUpto[k])
Answers(k) == Len(ResponsesUpto[k])

\* A request is what is between the first k - 1 requests and the first k; so is a response.
LEMMA RequestsAre ==
  /\ AllRequests \in Seq(RequestUnit) /\ Asks(0) = 0 /\ Asks(Requests) = Len(AllRequests)
  /\ \A k \in 0 .. Requests : Asks(k) \in Nat /\ Asks(k) <= Len(AllRequests)
  /\ \A k \in 1 .. Requests : /\ Asks(k) = Asks(k - 1) + Len(RequestUnits(k))
                              /\ Between(AllRequests, Asks(k - 1), Asks(k)) = RequestUnits(k)
<1> DEFINE piece == [k \in 1 .. Requests |-> RequestUnits(k)]
<1>1. Requests \in Nat /\ Requests \in 0 .. Requests
  BY RequestsAssumption
<1>2. \A k \in 1 .. Requests : piece[k] = RequestUnits(k) /\ piece[k] \in Seq(RequestUnit)
  BY <1>1, RequestIs
<1> HIDE DEF piece
<1>3. AddsUp(RequestsUpto, Requests, piece)
  <2>1. \A k \in 0 .. Requests : k # 0 => k \in 1 .. Requests
    BY <1>1
  <2>2. \A k \in 0 .. Requests :
           (IF k = 0 THEN <<>> ELSE RequestsUpto[k - 1] \o RequestUnits(k))
             = IF k = 0 THEN <<>> ELSE RequestsUpto[k - 1] \o piece[k]
    BY <1>2, <2>1
  <2>3. [k \in 0 .. Requests |-> IF k = 0 THEN <<>> ELSE RequestsUpto[k - 1] \o RequestUnits(k)]
          = [k \in 0 .. Requests |-> IF k = 0 THEN <<>> ELSE RequestsUpto[k - 1] \o piece[k]]
    BY <2>2
  <2> QED
    BY <2>3, UptoIs DEF AddsUp
<1>4. IsSum(RequestUnit, RequestsUpto, Requests, piece)
  BY <1>1, <1>2, <1>3, Pieces
<1> QED
  BY <1>1, <1>2, <1>4, EmptySeq DEF AllRequests, Asks, IsSum

LEMMA ResponsesAre ==
  /\ AllResponses \in Units /\ Answers(0) = 0 /\ Answers(Requests) = Len(AllResponses)
  /\ \A k \in 0 .. Requests : Answers(k) \in Nat /\ Answers(k) <= Len(AllResponses)
  /\ \A k \in 1 .. Requests : /\ Answers(k) = Answers(k - 1) + Len(OnWire(k))
                              /\ Between(AllResponses, Answers(k - 1), Answers(k)) = OnWire(k)
<1> DEFINE piece == [k \in 1 .. Requests |-> OnWire(k)]
<1>1. Requests \in Nat /\ Requests \in 0 .. Requests
  BY RequestsAssumption
<1>2. \A k \in 1 .. Requests : piece[k] = OnWire(k) /\ piece[k] \in Seq(UnitType)
  BY <1>1, WireIs DEF Units
<1> HIDE DEF piece
<1>3. AddsUp(ResponsesUpto, Requests, piece)
  <2>1. \A k \in 0 .. Requests : k # 0 => k \in 1 .. Requests
    BY <1>1
  <2>2. \A k \in 0 .. Requests :
           (IF k = 0 THEN <<>> ELSE ResponsesUpto[k - 1] \o OnWire(k))
             = IF k = 0 THEN <<>> ELSE ResponsesUpto[k - 1] \o piece[k]
    BY <1>2, <2>1
  <2>3. [k \in 0 .. Requests |-> IF k = 0 THEN <<>> ELSE ResponsesUpto[k - 1] \o OnWire(k)]
          = [k \in 0 .. Requests |-> IF k = 0 THEN <<>> ELSE ResponsesUpto[k - 1] \o piece[k]]
    BY <2>2
  <2> QED
    BY <2>3, UptoIs DEF AddsUp
<1>4. IsSum(UnitType, ResponsesUpto, Requests, piece)
  BY <1>1, <1>2, <1>3, Pieces
<1> QED
  BY <1>1, <1>2, <1>4, EmptySeq DEF AllResponses, Answers, Units, IsSum

\* Fewer requests have a shorter answer.
LEMMA AnswersGrow ==
  ASSUME NEW j \in 0 .. Requests, NEW k \in 0 .. Requests, j < k
  PROVE  Answers(j) < Answers(k)
<1> DEFINE T == {m \in Nat : m \in 0 .. Requests /\ j < m /\ ~(Answers(j) < Answers(m))}
<1>1. Requests \in Nat /\ j \in Nat
  BY RequestsAssumption
<1>2. ASSUME T # {} PROVE FALSE
  <2>1. Min(T) \in T /\ \A y \in T : Min(T) <= y
    <3>1. T \in SUBSET Nat
      OBVIOUS
    <3> HIDE DEF T
    <3> QED
      BY <1>2, <3>1, LeastOf
  <2>2. PICK m \in T : \A y \in T : m <= y
    BY <2>1
  <2>3. m \in 1 .. Requests /\ m - 1 \in 0 .. Requests /\ ~(m <= m - 1) /\ m \in Nat /\ m - 1 \in Nat
    BY <1>1, <2>2
  <2>4. /\ Answers(m) = Answers(m - 1) + Len(OnWire(m)) /\ Len(OnWire(m)) \in Nat \ {0}
        /\ Answers(m - 1) \in Nat /\ Answers(j) \in Nat
    BY <2>3, ResponsesAre, WireIs
  <2>5. m - 1 \notin T
    <3> HIDE DEF T
    <3> QED
      BY <2>2, <2>3
  <2>6. j = m - 1 \/ Answers(j) < Answers(m - 1)
    BY <1>1, <2>2, <2>3, <2>5
  <2>7. Answers(j) < Answers(m)
    BY <2>4, <2>6
  <2> QED
    BY <2>2, <2>7
<1> QED
  BY <1>1, <1>2

-------------------------------------------------------------------------------
(* What is left of a list, when the places that stay are known in their order. *)

Ordered(f, n, I) == /\ f \in [1 .. n -> I]
                    /\ \A k \in 1 .. n : \A j \in 1 .. n : j < k => f[j] < f[k]
                    /\ \A i \in I : \E k \in 1 .. n : f[k] = i

\* An order of the places tells what stays, and there is one.
LEMMA SublistIs ==
  ASSUME NEW q, NEW n \in Nat, NEW I \in SUBSET Nat, NEW f, Ordered(f, n, I)
  PROVE  Sublist(q, I) = [k \in 1 .. n |-> q[f[k]]]
<1>1. /\ f \in [1 .. n -> I] /\ \A k \in 1 .. n : f[k] \in I /\ f[k] \in Nat
      /\ \A k \in 1 .. n : \A j \in 1 .. n : j < k => f[j] < f[k]
      /\ \A i \in I : \E k \in 1 .. n : f[k] = i
  BY DEF Ordered
<1>2. \A k \in 1 .. n : \A j \in 1 .. n : f[j] <= f[k] <=> j <= k
  <2>1. \A k \in 1 .. n : \A j \in 1 .. n : j < k \/ j = k \/ k < j
    OBVIOUS
  <2>2. \A k \in 1 .. n : \A j \in 1 .. n : j \in Nat /\ k \in Nat
    OBVIOUS
  <2> QED
    BY <1>1, <2>1, <2>2
<1>3. ASSUME NEW k \in 1 .. n
      PROVE  Cardinality({i \in I : i <= f[k]}) = k
  <2> DEFINE g == [j \in 1 .. k |-> f[j]]
             J == {i \in I : i <= f[k]}
  <2>1. k \in Nat /\ IsFiniteSet(1 .. k) /\ Cardinality(1 .. k) = k /\ \A j \in 1 .. k : j \in 1 .. n
    BY FS_Interval
  <2>2. \A j \in 1 .. k : g[j] = f[j] /\ g[j] \in J
    BY <1>1, <1>2, <2>1
  <2>3. \A j \in 1 .. k : \A x \in 1 .. k : g[j] = g[x] => j = x
    <3>1. \A j \in 1 .. k : \A x \in 1 .. k : f[j] = f[x] => j = x
      <4>1. \A j \in 1 .. k : \A x \in 1 .. k : f[j] = f[x] => j <= x /\ x <= j
        BY <1>1, <1>2, <2>1
      <4> QED
        BY <4>1
    <3> QED
      BY <2>2, <3>1
  <2>4. \A i \in J : \E j \in 1 .. k : g[j] = i
    <3>1. ASSUME NEW i \in J PROVE \E j \in 1 .. k : g[j] = i
      <4>1. PICK j \in 1 .. n : f[j] = i
        BY <1>1
      <4>2. j \in 1 .. k
        BY <1>2, <4>1
      <4> QED
        BY <2>2, <4>1, <4>2
    <3> QED
      BY <3>1
  <2>5. g \in [1 .. k -> J]
    BY <2>2
  <2> HIDE DEF g, J
  <2>6. g \in Bijection(1 .. k, J)
    BY <2>3, <2>4, <2>5 DEF Bijection, Injection, Surjection, IsInjective
  <2>7. Cardinality(J) = Cardinality(1 .. k)
    BY <2>1, <2>6, FS_Bijection DEF ExistsBijection
  <2> QED
    BY <2>1, <2>7 DEF J
<1>4. Cardinality(I) = n
  <2>1. IsFiniteSet(1 .. n) /\ Cardinality(1 .. n) = n
    BY FS_Interval
  <2>2. \A j \in 1 .. n : \A x \in 1 .. n : f[j] = f[x] => j = x
    <3>1. \A j \in 1 .. n : \A x \in 1 .. n : f[j] = f[x] => j <= x /\ x <= j
      BY <1>1, <1>2
    <3> QED
      BY <3>1
  <2>3. f \in Bijection(1 .. n, I)
    BY <1>1, <2>2 DEF Bijection, Injection, Surjection, IsInjective
  <2> QED
    BY <2>1, <2>3, FS_Bijection DEF ExistsBijection
<1>5. ASSUME NEW k \in 1 .. n
      PROVE  (CHOOSE i \in I : Cardinality({j \in I : j <= i}) = k) = f[k]
  <2> DEFINE at == CHOOSE i \in I : Cardinality({j \in I : j <= i}) = k
  <2>1. at \in I /\ Cardinality({j \in I : j <= at}) = k
    BY <1>1, <1>3
  <2> HIDE DEF at
  <2>2. PICK x \in 1 .. n : f[x] = at
    BY <1>1, <2>1
  <2>3. x = k
    BY <1>3, <2>1, <2>2
  <2> QED
    BY <2>2, <2>3 DEF at
<1>6. \A k \in 1 .. n : q[CHOOSE i \in I : Cardinality({j \in I : j <= i}) = k] = q[f[k]]
  BY <1>5
<1>7. Sublist(q, I) = [k \in 1 .. n |-> q[CHOOSE i \in I : Cardinality({j \in I : j <= i}) = k]]
  BY <1>4 DEF Sublist
<1> QED
  BY <1>6, <1>7

LEMMA OrderExists ==
  ASSUME NEW I \in SUBSET Nat, IsFiniteSet(I)
  PROVE  \E n \in Nat : \E f : Ordered(f, n, I)
<1> DEFINE n == Cardinality(I)
           upTo(i) == {j \in I : j <= i}
           f == [k \in 1 .. n |-> CHOOSE i \in I : Cardinality(upTo(i)) = k]
<1>1. n \in Nat
  BY FS_CardinalityType
<1>2. ASSUME NEW k \in 1 .. n PROVE f[k] \in I /\ Cardinality(upTo(f[k])) = k
  <2>1. \E i \in I : Cardinality(upTo(i)) = k
    BY KthPlace
  <2> QED
    BY <2>1
<1>3. \A i \in I : IsFiniteSet(upTo(i)) /\ Cardinality(upTo(i)) \in 1 .. n
  <2>1. ASSUME NEW i \in I PROVE IsFiniteSet(upTo(i)) /\ Cardinality(upTo(i)) \in 1 .. n
    <3>1. upTo(i) \in SUBSET I /\ i \in upTo(i)
      OBVIOUS
    <3>2. IsFiniteSet(upTo(i)) /\ Cardinality(upTo(i)) <= n
      BY <3>1, FS_Subset
    <3>3. Cardinality(upTo(i)) \in Nat /\ Cardinality(upTo(i)) # 0
      BY <3>1, <3>2, FS_CardinalityType, FS_EmptySet
    <3> QED
      BY <1>1, <3>2, <3>3
  <2> QED
    BY <2>1
<1>4. ASSUME NEW i \in I, NEW j \in I, i <= j
      PROVE  Cardinality(upTo(i)) <= Cardinality(upTo(j))
  <2>1. i \in Nat /\ j \in Nat /\ \A x \in I : x \in Nat
    OBVIOUS
  <2>2. upTo(i) \in SUBSET upTo(j)
    <3>1. \A x \in I : x <= i => x <= j
      BY <1>4, <2>1
    <3> QED
      BY <3>1
  <2> HIDE DEF upTo
  <2> QED
    BY <1>3, <2>2, FS_Subset
<1>5. ASSUME NEW i \in I, NEW j \in I, i < j
      PROVE  Cardinality(upTo(i)) # Cardinality(upTo(j))
  <2>1. i \in Nat /\ j \in Nat /\ \A x \in I : x \in Nat
    OBVIOUS
  <2>2. upTo(i) \in SUBSET upTo(j)
    <3>1. \A x \in I : x <= i => x <= j
      BY <1>5, <2>1
    <3> QED
      BY <3>1
  <2>3. j \in upTo(j) /\ j \notin upTo(i)
    BY <1>5, <2>1
  <2> QED
    BY <1>3, <2>2, <2>3, FS_Subset
<1>6. ASSUME NEW k \in 1 .. n, NEW j \in 1 .. n, j < k PROVE f[j] < f[k]
  <2>1. f[j] \in I /\ f[k] \in I /\ f[j] \in Nat /\ f[k] \in Nat
    BY <1>2
  <2>2. Cardinality(upTo(f[j])) = j /\ Cardinality(upTo(f[k])) = k
    BY <1>2
  <2>3. ~(f[k] <= f[j])
    <3> SUFFICES ASSUME f[k] <= f[j] PROVE FALSE
      OBVIOUS
    <3>1. Cardinality(upTo(f[k])) <= Cardinality(upTo(f[j]))
      <4> HIDE DEF f, upTo
      <4> QED
        BY <1>4, <2>1
    <3>2. k <= j
      BY <2>2, <3>1
    <3> QED
      BY <1>6, <3>2
  <2> HIDE DEF f
  <2> QED
    BY <2>1, <2>3
<1>7. ASSUME NEW i \in I PROVE \E k \in 1 .. n : f[k] = i
  <2> DEFINE k == Cardinality(upTo(i))
  <2>1. k \in 1 .. n
    BY <1>3
  <2>2. f[k] \in I /\ Cardinality(upTo(f[k])) = k
    BY <1>2, <2>1
  <2>3. f[k] \in Nat /\ i \in Nat
    BY <2>2
  <2>4. ~(f[k] < i) /\ ~(i < f[k])
    <3> HIDE DEF f, upTo
    <3> QED
      BY <1>5, <2>2
  <2> HIDE DEF f, k
  <2>5. f[k] = i
    BY <2>3, <2>4
  <2> QED
    BY <2>1, <2>5
<1>8. f \in [1 .. n -> I]
  BY <1>2
<1> HIDE DEF f
<1>9. Ordered(f, n, I)
  BY <1>6, <1>7, <1>8 DEF Ordered
<1> QED
  BY <1>1, <1>9

\* What the frames of a list carry.
Clear(w) == {i \in DOMAIN w : w[i].part \notin Framing}

\* What is decrypted is what is clear, in order; frames joined are decrypted one by one.
LEMMA ClearIs ==
  ASSUME NEW w \in Units
  PROVE  /\ Clear(w) \in SUBSET (1 .. Len(w)) /\ Clear(w) \in SUBSET Nat /\ IsFiniteSet(Clear(w))
         /\ Len(w) \in Nat /\ \A i \in 1 .. Len(w) : w[i] \in UnitType
<1>1. Len(w) \in Nat /\ DOMAIN w = 1 .. Len(w) /\ \A i \in 1 .. Len(w) : w[i] \in UnitType
  BY LenProperties, ElementOfSeq DEF Units
<1>2. Clear(w) \in SUBSET (1 .. Len(w))
  BY <1>1 DEF Clear
<1>3. IsFiniteSet(1 .. Len(w))
  BY <1>1, FS_Interval
<1> QED
  BY <1>1, <1>2, <1>3, FS_Subset

LEMMA DecryptedIs ==
  ASSUME NEW w \in Units, NEW n \in Nat, NEW f, Ordered(f, n, Clear(w))
  PROVE  /\ Decrypted[w] = [k \in 1 .. n |-> w[f[k]]]
         /\ Decrypted[w] \in Units /\ Len(Decrypted[w]) = n
<1>1. Decrypted[w] = Sublist(w, Clear(w))
  BY DEF Decrypted, Clear
<1>2. Decrypted[w] = [k \in 1 .. n |-> w[f[k]]]
  BY <1>1, ClearIs, SublistIs
<1>3. \A k \in 1 .. n : w[f[k]] \in UnitType
  BY ClearIs DEF Ordered
<1>4. [k \in 1 .. n |-> w[f[k]]] \in Seq(UnitType) /\ Len([k \in 1 .. n |-> w[f[k]]]) = n
  BY <1>3
<1> QED
  BY <1>2, <1>4 DEF Units

LEMMA DecryptedJoin ==
  ASSUME NEW a \in Units, NEW b \in Units
  PROVE  /\ Decrypted[a] \in Units /\ Decrypted[b] \in Units
         /\ a \o b \in Units /\ Decrypted[a \o b] = Decrypted[a] \o Decrypted[b]
<1>1. PICK m \in Nat : \E f : Ordered(f, m, Clear(a))
  BY ClearIs, OrderExists
<1>2. PICK f : Ordered(f, m, Clear(a))
  BY <1>1
<1>3. PICK n \in Nat : \E g : Ordered(g, n, Clear(b))
  BY ClearIs, OrderExists
<1>4. PICK g : Ordered(g, n, Clear(b))
  BY <1>3
<1>5. /\ Decrypted[a] = [k \in 1 .. m |-> a[f[k]]] /\ Decrypted[a] \in Units /\ Len(Decrypted[a]) = m
      /\ Decrypted[b] = [k \in 1 .. n |-> b[g[k]]] /\ Decrypted[b] \in Units /\ Len(Decrypted[b]) = n
  BY <1>2, <1>4, DecryptedIs
<1>6. /\ a \o b \in Units /\ Len(a \o b) = Len(a) + Len(b) /\ Len(a) \in Nat /\ Len(b) \in Nat
      /\ \A i \in 1 .. Len(a) + Len(b) : (a \o b)[i] = IF i <= Len(a) THEN a[i] ELSE b[i - Len(a)]
  BY ConcatProperties, LenProperties DEF Units
<1> DEFINE h == [k \in 1 .. m + n |-> IF k <= m THEN f[k] ELSE Len(a) + g[k - m]]
           A == Clear(a)
           B == Clear(b)
           C == Clear(a \o b)
<1>7. /\ A \in SUBSET (1 .. Len(a)) /\ B \in SUBSET (1 .. Len(b))
      /\ \A i \in 1 .. Len(a) : i \in C <=> i \in A
      /\ \A i \in 1 .. Len(b) : Len(a) + i \in C <=> i \in B
      /\ C \in SUBSET (1 .. Len(a) + Len(b))
  <2>1. /\ A \in SUBSET (1 .. Len(a)) /\ B \in SUBSET (1 .. Len(b))
        /\ C \in SUBSET (1 .. Len(a) + Len(b))
    BY <1>6, ClearIs
  <2>2. DOMAIN a = 1 .. Len(a) /\ DOMAIN b = 1 .. Len(b) /\ DOMAIN (a \o b) = 1 .. Len(a) + Len(b)
    BY <1>6, LenProperties DEF Units
  <2>3. \A i \in 1 .. Len(a) : i \in C <=> i \in A
    <3>1. ASSUME NEW i \in 1 .. Len(a) PROVE i \in C <=> i \in A
      <4>1. i \in 1 .. Len(a) + Len(b) /\ i <= Len(a)
        BY <1>6
      <4>2. (a \o b)[i] = a[i]
        BY <1>6, <4>1
      <4> QED
        BY <2>2, <4>1, <4>2 DEF Clear
    <3> QED
      BY <3>1
  <2>4. \A i \in 1 .. Len(b) : Len(a) + i \in C <=> i \in B
    <3>1. ASSUME NEW i \in 1 .. Len(b) PROVE Len(a) + i \in C <=> i \in B
      <4>1. Len(a) + i \in 1 .. Len(a) + Len(b) /\ ~(Len(a) + i <= Len(a)) /\ Len(a) + i - Len(a) = i
        BY <1>6
      <4>2. (a \o b)[Len(a) + i] = b[i]
        BY <1>6, <4>1
      <4> QED
        BY <2>2, <4>1, <4>2 DEF Clear
    <3> QED
      BY <3>1
  <2> QED
    BY <2>1, <2>3, <2>4
<1>8. /\ \A k \in 1 .. m : f[k] \in A /\ f[k] \in 1 .. Len(a)
      /\ \A k \in 1 .. n : g[k] \in B /\ g[k] \in 1 .. Len(b)
  BY <1>2, <1>4, <1>7 DEF Ordered
<1>9. /\ \A k \in 1 .. m : k \in 1 .. m + n /\ h[k] = f[k]
      /\ \A k \in 1 .. n : m + k \in 1 .. m + n /\ h[m + k] = Len(a) + g[k]
  <2>1. \A k \in 1 .. m : k \in 1 .. m + n /\ k <= m
    OBVIOUS
  <2>2. \A k \in 1 .. n : m + k \in 1 .. m + n /\ ~(m + k <= m) /\ m + k - m = k
    OBVIOUS
  <2> QED
    BY <2>1, <2>2
<1>10. \A k \in 1 .. m + n : k \in 1 .. m \/ \E j \in 1 .. n : k = m + j
  <2>1. ASSUME NEW k \in 1 .. m + n, k \notin 1 .. m PROVE \E j \in 1 .. n : k = m + j
    <3>1. k - m \in 1 .. n /\ k = m + (k - m)
      BY <2>1
    <3> QED
      BY <3>1
  <2> QED
    BY <2>1
<1> HIDE DEF h, A, B, C
<1>11. \A k \in 1 .. m + n : h[k] \in C
  <2>1. ASSUME NEW k \in 1 .. m PROVE h[k] \in C
    BY <1>7, <1>8, <1>9
  <2>2. ASSUME NEW k \in 1 .. n PROVE h[m + k] \in C
    BY <1>7, <1>8, <1>9
  <2> QED
    BY <1>10, <2>1, <2>2
<1>12. ASSUME NEW k \in 1 .. m + n, NEW j \in 1 .. m + n, j < k PROVE h[j] < h[k]
  <2>1. CASE k \in 1 .. m
    <3>1. j \in 1 .. m
      BY <1>12, <2>1
    <3>2. f[j] < f[k]
      BY <1>2, <1>12, <2>1, <3>1 DEF Ordered
    <3> QED
      BY <1>9, <2>1, <3>1, <3>2
  <2>2. CASE \E x \in 1 .. n : k = m + x
    <3>1. PICK x \in 1 .. n : k = m + x
      BY <2>2
    <3>2. h[k] = Len(a) + g[x] /\ g[x] \in 1 .. Len(b)
      BY <1>8, <1>9, <3>1
    <3>3. CASE j \in 1 .. m
      <4>1. h[j] = f[j] /\ f[j] \in 1 .. Len(a)
        BY <1>8, <1>9, <3>3
      <4> QED
        BY <1>6, <3>2, <4>1
    <3>4. CASE \E y \in 1 .. n : j = m + y
      <4>1. PICK y \in 1 .. n : j = m + y
        BY <3>4
      <4>2. h[j] = Len(a) + g[y] /\ g[y] \in 1 .. Len(b)
        BY <1>8, <1>9, <4>1
      <4>3. y < x
        BY <1>12, <3>1, <4>1
      <4>4. g[y] < g[x]
        BY <1>4, <4>3 DEF Ordered
      <4> QED
        BY <1>6, <3>2, <4>2, <4>4
    <3> QED
      BY <1>10, <3>3, <3>4
  <2> QED
    BY <1>10, <2>1, <2>2
<1>13. ASSUME NEW i \in C PROVE \E k \in 1 .. m + n : h[k] = i
  <2>1. CASE i <= Len(a)
    <3>1. i \in A
      BY <1>6, <1>7, <2>1
    <3>2. PICK k \in 1 .. m : f[k] = i
      BY <1>2, <3>1 DEF Ordered, A
    <3> QED
      BY <1>9, <3>2
  <2>2. CASE ~(i <= Len(a))
    <3>1. i - Len(a) \in 1 .. Len(b) /\ Len(a) + (i - Len(a)) = i
      BY <1>6, <1>7, <2>2
    <3>2. i - Len(a) \in B
      BY <1>7, <3>1
    <3>3. PICK k \in 1 .. n : g[k] = i - Len(a)
      BY <1>4, <3>2 DEF Ordered, B
    <3> QED
      BY <1>9, <3>1, <3>3
  <2> QED
    BY <2>1, <2>2
<1>14. h \in [1 .. m + n -> C]
  BY <1>11 DEF h
<1>15. Ordered(h, m + n, C)
  BY <1>12, <1>13, <1>14 DEF Ordered
<1>16. /\ Decrypted[a \o b] = [k \in 1 .. m + n |-> (a \o b)[h[k]]]
       /\ Decrypted[a \o b] \in Units /\ Len(Decrypted[a \o b]) = m + n
  <2>1. m + n \in Nat
    OBVIOUS
  <2> QED
    BY <1>6, <1>15, <2>1, DecryptedIs DEF C
<1>17. /\ Decrypted[a] \o Decrypted[b] \in Units /\ Len(Decrypted[a] \o Decrypted[b]) = m + n
       /\ \A i \in 1 .. m + n : (Decrypted[a] \o Decrypted[b])[i]
                                  = IF i <= m THEN Decrypted[a][i] ELSE Decrypted[b][i - m]
  BY <1>5, ConcatProperties DEF Units
<1>18. ASSUME NEW k \in 1 .. m + n
       PROVE  Decrypted[a \o b][k] = (Decrypted[a] \o Decrypted[b])[k]
  <2>1. Decrypted[a \o b][k] = (a \o b)[h[k]]
    BY <1>16
  <2>2. CASE k \in 1 .. m
    <3>1. h[k] = f[k] /\ f[k] \in 1 .. Len(a) + Len(b) /\ f[k] <= Len(a)
      BY <1>6, <1>8, <1>9, <2>2
    <3>2. (a \o b)[h[k]] = a[f[k]]
      BY <1>6, <3>1
    <3>3. (Decrypted[a] \o Decrypted[b])[k] = Decrypted[a][k]
      <4>1. k \in 1 .. m + n /\ k <= m
        BY <2>2
      <4> QED
        BY <1>17, <4>1
    <3>4. Decrypted[a][k] = a[f[k]]
      BY <1>5, <2>2
    <3> QED
      BY <2>1, <3>2, <3>3, <3>4
  <2>3. CASE \E j \in 1 .. n : k = m + j
    <3>1. PICK j \in 1 .. n : k = m + j
      BY <2>3
    <3>2. /\ h[k] = Len(a) + g[j] /\ Len(a) + g[j] \in 1 .. Len(a) + Len(b)
          /\ ~(Len(a) + g[j] <= Len(a)) /\ Len(a) + g[j] - Len(a) = g[j]
      BY <1>6, <1>8, <1>9, <3>1
    <3>3. (a \o b)[h[k]] = b[g[j]]
      <4>1. PICK x \in 1 .. Len(a) + Len(b) : x = Len(a) + g[j]
        BY <3>2
      <4>0. h[k] = x
        BY <3>2, <4>1
      <4>2. ~(x <= Len(a)) /\ x - Len(a) = g[j]
        <5>1. g[j] \in 1 .. Len(b) /\ Len(a) \in Nat /\ Len(b) \in Nat
          BY <1>6, <1>8
        <5> QED
          BY <4>1, <5>1
      <4>3. (a \o b)[x] = b[x - Len(a)]
        BY <1>6, <4>2
      <4> QED
        BY <4>0, <4>2, <4>3
    <3>4. ~(k <= m) /\ k - m = j
      BY <3>1
    <3>5. (Decrypted[a] \o Decrypted[b])[k] = Decrypted[b][j]
      BY <1>17, <3>4
    <3>6. Decrypted[b][j] = b[g[j]]
      BY <1>5
    <3> QED
      BY <2>1, <3>3, <3>5, <3>6
  <2> QED
    BY <1>10, <2>2, <2>3
<1>19. Decrypted[a \o b] = Decrypted[a] \o Decrypted[b]
  BY <1>16, <1>17, <1>18, SeqEqual DEF Units
<1> QED
  BY <1>5, <1>6, <1>19

IsClear(w) == \A i \in 1 .. Len(w) : w[i].part \notin Framing

\* What is clear is its own decryption, what frames it decrypts to nothing.
LEMMA ClearDecrypted ==
  ASSUME NEW w \in Units, IsClear(w)
  PROVE  Decrypted[w] = w
<1> DEFINE n == Len(w)
           f == [k \in 1 .. n |-> k]
<1>1. n \in Nat /\ DOMAIN w = 1 .. n
  BY LenProperties DEF Units
<1>2. Clear(w) = 1 .. n
  BY <1>1 DEF Clear, IsClear
<1>3. Ordered(f, n, Clear(w))
  BY <1>2 DEF Ordered
<1>4. /\ Decrypted[w] = [k \in 1 .. n |-> w[f[k]]]
      /\ Decrypted[w] \in Units /\ Len(Decrypted[w]) = n
  <2> HIDE DEF f, n
  <2> QED
    BY <1>1, <1>3, DecryptedIs
<1>5. \A k \in 1 .. n : Decrypted[w][k] = w[k]
  BY <1>4
<1> QED
  BY <1>4, <1>5, SeqEqual DEF Units

LEMMA FramingDecrypted ==
  ASSUME NEW u \in UnitType, u.part \in Framing
  PROVE  <<u>> \in Units /\ Decrypted[<<u>>] = <<>>
<1>1. <<u>> \in Units /\ DOMAIN <<u>> = 1 .. 1 /\ <<u>>[1] = u
  BY DEF Units
<1>2. Clear(<<u>>) = {}
  BY <1>1 DEF Clear
<1>3. PICK f : Ordered(f, 0, {})
  <2>1. Ordered([k \in 1 .. 0 |-> 0], 0, {})
    BY DEF Ordered
  <2> QED
    BY <2>1
<1>4. Decrypted[<<u>>] \in Units /\ Len(Decrypted[<<u>>]) = 0
  <2>1. Ordered(f, 0, Clear(<<u>>)) /\ 0 \in Nat
    BY <1>2, <1>3
  <2> QED
    BY <1>1, <2>1, DecryptedIs
<1> QED
  BY <1>1, <1>4, EmptySeq DEF Units

LEMMA FrameDecrypted ==
  ASSUME NEW s \in Units, IsClear(s)
  PROVE  Frame(s) \in Units /\ Decrypted[Frame(s)] = s
<1> DEFINE u == Unit("length", Len(s))
           v == Unit("tag", 0)
<1>1. u \in UnitType /\ v \in UnitType /\ u.part \in Framing /\ v.part \in Framing
  BY LenProperties DEF Unit, UnitType, Units, Framing
<1> HIDE DEF u, v
<1>2. /\ <<u>> \in Units /\ Decrypted[<<u>>] = <<>>
      /\ <<v>> \in Units /\ Decrypted[<<v>>] = <<>>
  BY <1>1, FramingDecrypted
<1>3. <<u>> \o s \in Units /\ Decrypted[<<u>> \o s] = <<>> \o s
  <2>1. Decrypted[s] = s
    BY ClearDecrypted
  <2>2. <<u>> \o s \in Units /\ Decrypted[<<u>> \o s] = Decrypted[<<u>>] \o Decrypted[s]
    BY <1>2, DecryptedJoin
  <2> QED
    BY <1>2, <2>1, <2>2
<1>4. (<<u>> \o s) \o <<v>> \in Units /\ Decrypted[(<<u>> \o s) \o <<v>>] = (<<>> \o s) \o <<>>
  BY <1>2, <1>3, DecryptedJoin
<1>5. Frame(s) = (<<u>> \o s) \o <<v>>
  BY DEF Frame, u, v
<1>6. (<<>> \o s) \o <<>> = s
  BY ConcatEmptySeq DEF Units
<1> QED
  BY <1>4, <1>5, <1>6

-------------------------------------------------------------------------------
(* The references: the list of the server and each of the two sources hold one  *)
(* until the connection is closed, then each source until its cancel handler    *)
(* has run, and the completion of a response holds one until it runs.           *)

HoldsOfSources == IF stopped THEN cancels ELSE 3
HoldsOfCompletion == IF completion THEN 1 ELSE 0

RefsInv == /\ stopped \in BOOLEAN /\ completion \in BOOLEAN /\ cancels \in 0 .. 2
           /\ refs = HoldsOfSources + HoldsOfCompletion
           /\ ~stopped => cancels = 0
           /\ running => ~stopped
           /\ completion => state = "WritingResponse"

\* Each step keeps the count.
LEMMA RefsInit == CnxInit => RefsInv
<1> SUFFICES ASSUME CnxInit PROVE RefsInv
  OBVIOUS
<1>1. /\ stopped = FALSE /\ completion = FALSE /\ cancels = 0 /\ refs = 3
      /\ running = FALSE /\ state = "ReadingRequest"
  BY DEF CnxInit
<1>2. HoldsOfSources = 3 /\ HoldsOfCompletion = 0
  BY <1>1 DEF HoldsOfSources, HoldsOfCompletion
<1>3. refs = HoldsOfSources + HoldsOfCompletion /\ cancels \in 0 .. 2
  BY <1>1, <1>2
<1> QED
  BY <1>1, <1>3, Zenon DEF RefsInv

LEMMA RefsClosed ==
  ASSUME RefsInv, ~stopped, Closed, UNCHANGED <<completion, state>>
  PROVE  RefsInv'
BY DEF RefsInv, HoldsOfSources, HoldsOfCompletion, Closed

LEMMA RefsStay ==
  ASSUME RefsInv, UNCHANGED <<stopped, cancels, refs, completion, state>>, running' => ~stopped
  PROVE  RefsInv'
BY DEF RefsInv, HoldsOfSources, HoldsOfCompletion

LEMMA RefsNext == RefsInv /\ [CnxNext]_cnxVars => RefsInv'
<1> SUFFICES ASSUME RefsInv, [CnxNext]_cnxVars PROVE RefsInv'
  OBVIOUS
<1>1. running => ~stopped
  BY DEF RefsInv
<1>2. CASE ClientStep
  <2>1. UNCHANGED <<stopped, cancels, refs, completion, state, running>>
    BY <1>2 DEF ClientStep, SendPlain, BeginFrame, SendFrame, Receive, Leave, server, writing, life
  <2> QED
    BY <1>1, <2>1, RefsStay
<1>3. CASE ReadHandler
  <2>1. UNCHANGED <<stopped, cancels, refs, completion, state>> /\ ~stopped
    BY <1>3 DEF ReadHandler, writing
  <2> QED
    BY <2>1, RefsStay
<1>4. CASE WriteHandler
  <2>1. UNCHANGED <<stopped, cancels, refs, completion, state>> /\ ~stopped
    BY <1>4 DEF WriteHandler, writing
  <2> QED
    BY <2>1, RefsStay
<1>5. CASE ReadHeader
  <2>1. running /\ UNCHANGED <<completion, state>>
    BY <1>5 DEF ReadHeader, Reads, writing
  <2>2. Closed \/ WaitsToRead \/ GoesOn
    BY <1>5 DEF ReadHeader
  <2>3. CASE WaitsToRead
    BY <1>1, <2>1, <2>3, RefsStay DEF WaitsToRead
  <2>4. CASE GoesOn
    BY <1>1, <2>1, <2>4, RefsStay DEF GoesOn, life
  <2> QED
    BY <1>1, <2>1, <2>2, <2>3, <2>4, RefsClosed
<1>6. CASE ReadBody
  <2>1. running /\ UNCHANGED <<completion, state>>
    BY <1>6 DEF ReadBody, Reads, writing
  <2>2. Closed \/ WaitsToRead \/ GoesOn
    BY <1>6 DEF ReadBody
  <2>3. CASE WaitsToRead
    BY <1>1, <2>1, <2>3, RefsStay DEF WaitsToRead
  <2>4. CASE GoesOn
    BY <1>1, <2>1, <2>4, RefsStay DEF GoesOn, life
  <2> QED
    BY <1>1, <2>1, <2>2, <2>3, <2>4, RefsClosed
<1>7. CASE HandleRequest
  <2>1. /\ ~stopped /\ ~completion /\ cancels = 0 /\ refs = 3
        /\ state' = "WritingResponse" /\ completion' = (handled + 1 = Verify)
        /\ refs' = Retained(handled + 1) /\ UNCHANGED <<stopped, cancels, running>>
    BY <1>7 DEF HandleRequest, Reads, RefsInv, HoldsOfSources, HoldsOfCompletion
  <2> QED
    BY <1>1, <2>1 DEF RefsInv, HoldsOfSources, HoldsOfCompletion, Retained
<1>8. CASE HandleFails
  <2>1. running /\ Closed /\ UNCHANGED <<completion, state>>
    BY <1>8 DEF HandleFails, Reads, writing
  <2> QED
    BY <1>1, <2>1, RefsClosed
<1>9. CASE Encrypt
  <2>1. UNCHANGED <<stopped, cancels, refs, completion, state, running>>
    BY <1>9 DEF Encrypt, life
  <2> QED
    BY <1>1, <2>1, RefsStay
<1>10. CASE Flush
  <2>1. running /\ UNCHANGED <<completion, state>> /\ (GoesOn \/ WaitsToWrite)
    BY <1>10 DEF Flush, Writes
  <2>2. UNCHANGED <<stopped, cancels, refs>>
    BY <2>1 DEF GoesOn, WaitsToWrite, life
  <2> QED
    BY <1>1, <2>1, <2>2, RefsStay
<1>11. CASE WriteFails
  <2>1. running /\ Closed /\ UNCHANGED <<completion, state>>
    BY <1>11 DEF WriteFails, Writes, writing
  <2> QED
    BY <1>1, <2>1, RefsClosed
<1>12. CASE ResponseWritten
  <2>1. /\ ~stopped /\ cancels = 0 /\ refs = 3 + HoldsOfCompletion /\ completion \in BOOLEAN
        /\ ~completion'
    BY <1>1, <1>12 DEF ResponseWritten, Writes, RefsInv, HoldsOfSources
  <2>2. Completed = 3
    BY <2>1 DEF Completed, HoldsOfCompletion
  <2>3. \/ refs' = 3 /\ UNCHANGED <<stopped, cancels>>
        \/ refs' = 3 - 1 /\ stopped' /\ cancels' = 2 /\ ~running'
    BY <1>12, <2>2 DEF ResponseWritten
  <2>4. completion' = FALSE
    BY <1>12 DEF ResponseWritten
  <2>5. stopped' \in BOOLEAN
    BY <1>12, <2>3 DEF ResponseWritten, RefsInv
  <2>6. HoldsOfCompletion' = 0
    BY <2>4 DEF HoldsOfCompletion
  <2>7. CASE refs' = 3 /\ UNCHANGED <<stopped, cancels>>
    <3>1. HoldsOfSources' = 3
      BY <2>1, <2>7 DEF HoldsOfSources
    <3>2. refs' = HoldsOfSources' + HoldsOfCompletion' /\ cancels' \in 0 .. 2 /\ cancels' = 0
      BY <2>1, <2>6, <2>7, <3>1
    <3>3. ~stopped'
      BY <2>1, <2>7, Zenon
    <3> QED
      BY <2>4, <2>5, <3>2, <3>3, Zenon DEF RefsInv
  <2>8. CASE refs' = 3 - 1 /\ stopped' /\ cancels' = 2 /\ ~running'
    <3>1. HoldsOfSources' = 2
      BY <2>8 DEF HoldsOfSources
    <3>2. refs' = HoldsOfSources' + HoldsOfCompletion' /\ cancels' \in 0 .. 2
      BY <2>6, <2>8, <3>1
    <3> QED
      BY <2>4, <2>5, <2>8, <3>2, Zenon DEF RefsInv
  <2> QED
    BY <2>3, <2>7, <2>8
<1>13. CASE ServerCloses
  <2>1. ~stopped /\ Closed /\ UNCHANGED <<completion, state>>
    BY <1>13 DEF ServerCloses, writing
  <2> QED
    BY <2>1, RefsClosed
<1>14. CASE CancelHandler
  <2>1. /\ cancels > 0 /\ cancels' = cancels - 1 /\ refs' = refs - 1 /\ ~running
        /\ UNCHANGED <<completion, state, stopped, running>>
    BY <1>14 DEF CancelHandler, writing
  <2> QED
    BY <2>1 DEF RefsInv, HoldsOfSources, HoldsOfCompletion
<1>15. CASE UNCHANGED cnxVars
  <2>1. UNCHANGED <<stopped, cancels, refs, completion, state, running>>
    BY <1>15 DEF cnxVars, writing, life
  <2> QED
    BY <1>1, <2>1, RefsStay
<1> QED
  BY <1>2, <1>3, <1>4, <1>5, <1>6, <1>7, <1>8, <1>9, <1>10, <1>11, <1>12, <1>13, <1>14, <1>15
  DEF CnxNext, StateMachine

\* A connection that runs, that waits for a cancel handler or that is open has a
\* reference: it is not finalized under a handler.
THEOREM ConnectionAliveWhileUsed == CnxSpec => []AliveWhileUsed
<1>1. RefsInv => AliveWhileUsed
  BY DEF RefsInv, AliveWhileUsed, HoldsOfSources, HoldsOfCompletion
<1> QED
  BY <1>1, RefsInit, RefsNext, PTL DEF CnxSpec

-------------------------------------------------------------------------------
(* The messages: what was asked for and not handled is in the message that is   *)
(* read, behind it and in the buffers of the transport and the socket, in that  *)
(* order and nothing else; what was answered and not received, in the socket    *)
(* and in the buffers of the transport and the response.                        *)

StreamTypes ==
  /\ asked \in 0 .. Len(AllRequests) /\ sending \in Units
  /\ got \in 0 .. Len(AllResponses) /\ left \in BOOLEAN
  /\ inbox \in Units /\ outbox \in Units /\ Len(outbox) <= SendBuffer
  /\ encrypted \in BOOLEAN
  /\ partial \in Units /\ buffered \in Units
  /\ header \in Units /\ headerRead \in BOOLEAN /\ extra \in Units /\ body \in Units
  /\ state \in {"ReadingRequest", "WritingResponse"}
  /\ response \in Units /\ written \in Units /\ completion \in BOOLEAN
  /\ handled \in 0 .. Requests

InMessage == IF state = "ReadingRequest" THEN header \o body ELSE <<>>
Coming == buffered \o Decrypted[(partial \o inbox) \o sending]
FlowInv == /\ Asks(handled) <= asked
           /\ (InMessage \o extra) \o Coming = Between(AllRequests, Asks(handled), asked)

\* A header ends where the first end of one is.
EndsHeader(s) == /\ Len(s) > 0 /\ s[Len(s)].part = "end"
                 /\ \A i \in 1 .. Len(s) : i < Len(s) => s[i].part # "end"
HeaderInv == IF headerRead THEN EndsHeader(header) /\ Len(body) <= BodyLen ELSE body = <<>>

Unsent(s) == IF s = <<>> THEN <<>> ELSE Frames(s)
BackInv ==
  /\ IF left THEN outbox = <<>>
     ELSE /\ got <= Answers(handled)
          /\ (outbox \o written) \o Unsent(response) = Between(AllResponses, got, Answers(handled))
  /\ state = "ReadingRequest" => written = <<>> /\ response = <<>>
  /\ Len(response) <= 2

\* The transport is encrypted from the response to the last pair-verify on, and the
\* client does not encrypt before.
TurnInv ==
  /\ encrypted => Verify # 0 /\ handled >= Verify
  /\ completion => handled = Verify /\ Verify # 0 /\ state = "WritingResponse" /\ ~encrypted
  /\ ~encrypted /\ ~completion => /\ Verify = 0 \/ handled < Verify
                                  /\ IsClear(inbox) /\ sending = <<>>
  /\ ~encrypted => partial = <<>> /\ buffered = <<>>

MessagesInv == StreamTypes /\ FlowInv /\ HeaderInv /\ BackInv /\ TurnInv

\* Max of a set of numbers.
LEMMA GreatestOf ==
  ASSUME NEW n \in Nat, NEW T \in SUBSET (0 .. n), T # {}
  PROVE  Max(T) \in T /\ \A x \in T : x <= Max(T)
<1> DEFINE D == {n - x : x \in T}
<1>1. D \in SUBSET Nat /\ D # {}
  BY \A x \in T : n - x \in Nat
<1>2. Min(D) \in D /\ \A y \in D : Min(D) <= y
  BY <1>1, LeastOf
<1>3. PICK x \in T : Min(D) = n - x
  BY <1>2
<1> HIDE DEF D
<1>4. ASSUME NEW y \in T PROVE y <= x
  <2>1. n - y \in D
    BY DEF D
  <2> QED
    BY <1>2, <1>3, <2>1
<1> QED
  BY <1>4 DEF Max

\* Lists of units joined and cut.
LEMMA Joins ==
  ASSUME NEW a \in Units, NEW b \in Units
  PROVE  a \o b \in Units
BY ConcatProperties DEF Units

LEMMA JoinsAgain ==
  ASSUME NEW a \in Units, NEW b \in Units, NEW c \in Units
  PROVE  (a \o b) \o c = a \o (b \o c)
BY ConcatAssociative DEF Units

LEMMA Associates ==
  \A x, y, z \in Units : (x \o y) \o z = x \o (y \o z)
BY JoinsAgain

LEMMA Decrypts ==
  \A x, y \in Units : /\ Decrypted[x] \in Units /\ x \o y \in Units
                       /\ Decrypted[x \o y] = Decrypted[x] \o Decrypted[y]
BY DecryptedJoin

LEMMA JoinsNothing ==
  /\ <<>> \in Units
  /\ \A a \in Units : <<>> \o a = a /\ a \o <<>> = a
BY EmptySeq, ConcatEmptySeq DEF Units

LEMMA CutsUnits ==
  ASSUME NEW s \in Units, NEW n \in Nat
  PROVE  /\ First(s, n) \in Units /\ After(s, n) \in Units
         /\ First(s, n) \o After(s, n) = s
BY CutParts DEF Units

\* A read gives the next units of what comes, and leaves the rest.
Gives(got0, n) == /\ got0 \in Units /\ Len(got0) <= n
                  /\ buffered' \in Units /\ partial' \in Units /\ inbox' \in Units
                  /\ Coming = got0 \o Coming'
                  /\ ~encrypted => partial' = <<>> /\ buffered' = <<>> /\ IsClear(inbox')

\* What is left of clear units is clear.
LEMMA ClearCuts ==
  ASSUME NEW s \in Units, NEW n \in Nat, IsClear(s)
  PROVE  IsClear(After(s, n))
<1>1. Len(s) \in Nat
  BY LenProperties DEF Units
<1>2. CASE n <= Len(s)
  <2>1. After(s, n) = Between(s, n, Len(s))
    BY DEF After, Between
  <2>2. /\ Len(Between(s, n, Len(s))) = Len(s) - n
        /\ \A i \in 1 .. Len(s) - n : Between(s, n, Len(s))[i] = s[n + i]
    <3>1. Len(s) <= Len(s)
      BY <1>1
    <3> QED
      BY <1>1, <1>2, <3>1, BetweenIs DEF Units
  <2>3. \A i \in 1 .. Len(s) - n : n + i \in 1 .. Len(s)
    BY <1>1, <1>2
  <2> QED
    BY <2>1, <2>2, <2>3 DEF IsClear
<1>3. CASE ~(n <= Len(s))
  <2>1. After(s, n) = <<>>
    BY <1>1, <1>3, SubSeqEmpty DEF After
  <2>2. Len(<<>>) = 0
    BY EmptySeq
  <2> QED
    BY <2>1, <2>2 DEF IsClear
<1> QED
  BY <1>2, <1>3

\* Each read gives the next units: none, those of the socket, or those of the frames.
LEMMA NothingRead ==
  ASSUME StreamTypes, NEW n \in Nat, Took(NoRead), UNCHANGED sending,
         ~encrypted => partial = <<>> /\ buffered = <<>> /\ IsClear(inbox)
  PROVE  Gives(NoRead.got, n)
<1>1. UNCHANGED <<buffered, partial, inbox>> /\ NoRead.got = <<>>
  BY DEF Took, NoRead
<1>2. Coming' = Coming
  BY <1>1 DEF Coming
<1>3. (partial \o inbox) \o sending \in Units
  BY Joins DEF StreamTypes
<1>4. Coming \in Units
  BY <1>3, DecryptedJoin, Joins DEF Coming, StreamTypes
<1>5. Coming = <<>> \o Coming'
  BY <1>2, <1>4, JoinsNothing
<1>6. <<>> \in Units /\ Len(<<>>) <= n
  BY JoinsNothing, EmptySeq
<1> QED
  BY <1>1, <1>5, <1>6 DEF Gives, StreamTypes

LEMMA SocketRead ==
  ASSUME StreamTypes, NEW n \in Nat, Took(ReadSocket(n)), UNCHANGED sending,
         ~encrypted, partial = <<>>, buffered = <<>>, IsClear(inbox), sending = <<>>
  PROVE  Gives(ReadSocket(n).got, n)
<1> DEFINE a == First(inbox, n)
           b == After(inbox, n)
<1>1. ReadSocket(n).got = a /\ buffered' = <<>> /\ partial' = <<>> /\ inbox' = b /\ sending' = <<>>
  BY DEF Took, ReadSocket
<1>2. /\ a \in Units /\ b \in Units /\ a \o b = inbox
      /\ Len(a) = IF n <= Len(inbox) THEN n ELSE Len(inbox)
  BY CutParts, CutsUnits DEF StreamTypes, Units
<1>3. IsClear(b)
  BY ClearCuts DEF StreamTypes
<1> HIDE DEF a, b
<1>4. ASSUME NEW w \in Units, IsClear(w)
      PROVE  <<>> \o Decrypted[(<<>> \o w) \o <<>>] = w
  <2>1. (<<>> \o w) \o <<>> = w /\ Decrypted[w] = w
    BY <1>4, JoinsNothing, ClearDecrypted
  <2> QED
    BY <2>1, JoinsNothing
<1>5. Coming = inbox
  BY <1>4 DEF Coming, StreamTypes
<1>6. Coming' = b
  <2>1. <<>> \o Decrypted[(<<>> \o b) \o <<>>] = b
    BY <1>2, <1>3, <1>4
  <2> QED
    BY <1>1, <2>1 DEF Coming
<1>7. Len(a) <= n
  BY <1>2, LenProperties DEF Units, StreamTypes
<1> QED
  BY <1>1, <1>2, <1>3, <1>5, <1>6, <1>7, JoinsNothing DEF Gives

LEMMA FramesRead ==
  ASSUME StreamTypes, NEW n \in Nat, Took(ReadFrames(n)), UNCHANGED sending, encrypted
  PROVE  Gives(ReadFrames(n).got, n)
<1> DEFINE w == partial \o inbox
           data(i) == buffered \o Decrypted[SubSeq(w, 1, i)]
           tags == {0} \union {i \in DOMAIN w : w[i].part = "tag"}
           enough == {i \in tags : Len(data(i)) >= n}
           i == Min(enough \union {Max(tags)})
<1>1. w \in Units /\ Len(w) \in Nat /\ DOMAIN w = 1 .. Len(w)
  BY Joins, LenProperties DEF Units, StreamTypes
<1>2. i \in 0 .. Len(w)
  <2>1. tags \in SUBSET (0 .. Len(w)) /\ tags # {}
    BY <1>1
  <2>2. enough \in SUBSET tags
    OBVIOUS
  <2> HIDE DEF tags, enough
  <2>3. Max(tags) \in tags
    BY <1>1, <2>1, GreatestOf
  <2>4. enough \union {Max(tags)} \in SUBSET Nat /\ enough \union {Max(tags)} # {}
    <3>1. \A x \in tags : x \in Nat
      BY <1>1, <2>1
    <3>2. enough \union {Max(tags)} \subseteq tags
      BY <2>2, <2>3
    <3> QED
      BY <3>1, <3>2, Zenon
  <2>5. Min(enough \union {Max(tags)}) \in enough \union {Max(tags)}
    BY <2>4, LeastOf
  <2>6. Min(enough \union {Max(tags)}) \in tags
    <3>1. enough \union {Max(tags)} \subseteq tags
      BY <2>2, <2>3
    <3> QED
      BY <2>5, <3>1, Zenon
  <2> QED
    BY <2>1, <2>6 DEF tags, enough
<1>3. /\ ReadFrames(n).got = First(data(i), n)
      /\ buffered' = After(data(i), n)
      /\ partial' = IF enough = {} THEN After(w, i) ELSE IF i = 0 THEN partial ELSE <<>>
      /\ inbox' = IF enough = {} THEN <<>> ELSE IF i = 0 THEN inbox ELSE After(w, i)
  BY DEF Took, ReadFrames
<1> HIDE DEF i, enough, tags
<1> DEFINE a == SubSeq(w, 1, i)
           b == After(w, i)
<1>4. /\ a \in Units /\ b \in Units /\ a \o b = w
      /\ i = 0 => b = w
  <2>1. /\ First(w, i) \in Units /\ b \in Units /\ First(w, i) \o b = w
        /\ Len(First(w, i)) = i
    <3>1. i \in Nat /\ i <= Len(w)
      BY <1>1, <1>2
    <3> HIDE DEF w
    <3>2. /\ First(w, i) \in Units /\ b \in Units /\ First(w, i) \o b = w
          /\ Len(First(w, i)) = IF i <= Len(w) THEN i ELSE Len(w)
      BY <1>1, <3>1, CutParts DEF Units
    <3> QED
      BY <3>1, <3>2
  <2>2. First(w, i) = a
    <3>1. Min({i, Len(w)}) \in {i, Len(w)} /\ Min({i, Len(w)}) <= i /\ Min({i, Len(w)}) <= Len(w)
      <4>1. {i, Len(w)} \in SUBSET Nat
        BY <1>1, <1>2
      <4> HIDE DEF w
      <4> QED
        BY <4>1, LeastOf
    <3>2. Min({i, Len(w)}) = i
      <4> HIDE DEF w
      <4> QED
        BY <1>1, <1>2, <3>1
    <3> QED
      BY <3>2 DEF First
  <2>3. i = 0 => a = <<>>
    BY SubSeqEmpty
  <2> QED
    BY <2>1, <2>2, <2>3, JoinsNothing
<1>5. partial' \in Units /\ inbox' \in Units /\ partial' \o inbox' = b
  <2>1. CASE enough = {}
    BY <1>3, <1>4, <2>1, JoinsNothing
  <2>2. CASE enough # {} /\ i = 0
    BY <1>3, <1>4, <2>2 DEF StreamTypes
  <2>3. CASE enough # {} /\ i # 0
    BY <1>3, <1>4, <2>3, JoinsNothing
  <2> QED
    BY <2>1, <2>2, <2>3
<1> DEFINE d == data(i)
           e == Decrypted[b \o sending]
<1>6. sending \in Units /\ buffered \in Units /\ Decrypted[a] \in Units /\ e \in Units /\ d \in Units
  <2>1. sending \in Units /\ buffered \in Units
    BY DEF StreamTypes
  <2>2. b \o sending \in Units /\ Decrypted[a] \in Units
    <3> HIDE DEF a, b
    <3> QED
      BY <1>4, <2>1, Decrypts, Zenon
  <2>3. e \in Units
    <3> HIDE DEF b
    <3> QED
      BY <2>2, Decrypts, Zenon
  <2>4. buffered \o Decrypted[a] \in Units
    <3> HIDE DEF a
    <3> QED
      BY <2>1, <2>2, Decrypts, Zenon
  <2> QED
    BY <2>1, <2>2, <2>3, <2>4, Zenon
<1>7. Coming = d \o e
  <2>1. w \o sending = a \o (b \o sending)
    <3> HIDE DEF a, b, w
    <3>0. a \in Units /\ b \in Units /\ sending \in Units
      BY <1>4, <1>6
    <3>1. (a \o b) \o sending = a \o (b \o sending)
      BY <3>0, Associates, ZenonT(60)
    <3> QED
      BY <1>4, <3>1
  <2>2. Decrypted[a \o (b \o sending)] = Decrypted[a] \o e
    BY <1>4, <1>6, Joins, DecryptedJoin
  <2>3. buffered \o (Decrypted[a] \o e) = (buffered \o Decrypted[a]) \o e
    <3>1. buffered \in Units /\ Decrypted[a] \in Units /\ e \in Units
      BY <1>6
    <3> HIDE DEF a, e
    <3> QED
      BY <3>1, Associates, ZenonT(60)
  <2> QED
    BY <2>1, <2>2, <2>3 DEF Coming
<1>8. Coming' = After(d, n) \o e
  BY <1>3, <1>5 DEF Coming
<1> HIDE DEF d, e, a, b, data, w
<1>9. /\ First(d, n) \in Units /\ After(d, n) \in Units /\ First(d, n) \o After(d, n) = d
      /\ Len(First(d, n)) = IF n <= Len(d) THEN n ELSE Len(d)
  BY <1>6, CutParts, CutsUnits DEF Units
<1>10. Coming = First(d, n) \o Coming'
  <2>1. First(d, n) \in Units /\ After(d, n) \in Units /\ e \in Units
    BY <1>6, <1>9
  <2>2. \A x, y, z \in Units : (x \o y) \o z = x \o (y \o z)
    BY JoinsAgain
  <2>3. (First(d, n) \o After(d, n)) \o e = First(d, n) \o (After(d, n) \o e)
    BY <2>1, <2>2, Zenon
  <2> QED
    BY <1>7, <1>8, <1>9, <2>3
<1>11. ReadFrames(n).got = First(d, n) /\ buffered' = After(d, n)
  BY <1>3 DEF d
<1>12. Len(First(d, n)) <= n
  BY <1>6, <1>9, LenProperties DEF Units
<1> QED
  BY <1>5, <1>9, <1>10, <1>11, <1>12 DEF Gives

-------------------------------------------------------------------------------
(* Parts of lists of units. *)

LEMMA OneUnit ==
  ASSUME NEW u \in UnitType
  PROVE  <<u>> \in Units /\ Len(<<u>>) = 1 /\ <<u>>[1] = u
<1>1. <<u>> \in Seq(UnitType)
  OBVIOUS
<1> QED
  BY <1>1 DEF Units

LEMMA OnlyUnit ==
  ASSUME NEW q \in Units, Len(q) = 1
  PROVE  q = <<q[1]>>
BY DEF Units

LEMMA HeadFirst ==
  ASSUME NEW q \in Units, q # <<>>
  PROVE  /\ Head(q) \in UnitType /\ Tail(q) \in Units /\ Len(Tail(q)) = Len(q) - 1
         /\ <<Head(q)>> \o Tail(q) = q
<1>1. /\ Head(q) \in UnitType /\ Tail(q) \in Units /\ Len(Tail(q)) = Len(q) - 1
  BY HeadTailProperties DEF Units
<1> QED
  BY <1>1 DEF Units

LEMMA BetweenGrows ==
  ASSUME NEW S, NEW q \in Seq(S), NEW p \in Nat, NEW m \in Nat, NEW k \in Nat,
         p <= m, m <= k, k <= Len(q)
  PROVE  Between(q, p, m) \o Between(q, m, k) = Between(q, p, k)
<1>1. Len(q) \in Nat
  BY LenProperties
<1>2. p + 1 \in 1 .. Len(q) + 1 /\ m \in (p + 1) - 1 .. Len(q) /\ k \in m .. Len(q)
  BY <1>1
<1>3. SubSeq(q, p + 1, m) \o SubSeq(q, m + 1, k) = SubSeq(q, p + 1, k)
  BY <1>2, ConcatAdjacentSubSeq
<1> QED
  BY <1>3 DEF Between

LEMMA BetweenNothing ==
  ASSUME NEW q, NEW p \in Nat
  PROVE  Between(q, p, p) = <<>>
BY SubSeqEmpty DEF Between

\* What the client asks is clear: there is no framing in it.
LEMMA RequestsClear ==
  ASSUME NEW p \in Nat, NEW m \in Nat, p <= m, m <= Len(AllRequests)
  PROVE  /\ Between(AllRequests, p, m) \in Units /\ IsClear(Between(AllRequests, p, m))
         /\ Len(Between(AllRequests, p, m)) = m - p
<1>1. RequestUnit \subseteq UnitType /\ \A u \in RequestUnit : u.part \notin Framing
  BY DEF RequestUnit, UnitType, Framing
<1>2. /\ Between(AllRequests, p, m) \in Seq(RequestUnit)
      /\ Len(Between(AllRequests, p, m)) = m - p
  BY RequestsAre, BetweenIs
<1>3. Between(AllRequests, p, m) \in Units
  BY <1>1, <1>2, SeqMonotonic DEF Units
<1>4. \A i \in 1 .. Len(Between(AllRequests, p, m)) : Between(AllRequests, p, m)[i] \in RequestUnit
  BY <1>2, ElementOfSeq
<1> QED
  BY <1>1, <1>2, <1>3, <1>4 DEF IsClear

LEMMA RequestsTypes ==
  /\ AllRequests \in Units /\ Len(AllRequests) \in Nat
  /\ \A i \in 1 .. Len(AllRequests) : AllRequests[i] \in RequestUnit /\ AllRequests[i] \in UnitType
<1>1. RequestUnit \subseteq UnitType
  BY DEF RequestUnit, UnitType
<1>2. AllRequests \in Seq(RequestUnit)
  BY RequestsAre
<1>3. AllRequests \in Units
  BY <1>1, <1>2, SeqMonotonic DEF Units
<1>4. \A i \in 1 .. Len(AllRequests) : AllRequests[i] \in RequestUnit
  BY <1>2, ElementOfSeq
<1> QED
  BY <1>1, <1>2, <1>3, <1>4, LenProperties

\* What comes is a list of units.
LEMMA ComingTypes ==
  ASSUME StreamTypes
  PROVE  /\ Coming \in Units /\ InMessage \in Units /\ InMessage \o extra \in Units
         /\ partial \o inbox \in Units /\ (partial \o inbox) \o sending \in Units
         /\ Decrypted[(partial \o inbox) \o sending] \in Units
<1>1. partial \o inbox \in Units
  BY Joins DEF StreamTypes
<1>2. (partial \o inbox) \o sending \in Units
  BY <1>1, Joins DEF StreamTypes
<1>3. Decrypted[(partial \o inbox) \o sending] \in Units
  BY <1>2, DecryptedJoin
<1>4. Coming \in Units
  BY <1>3, Joins DEF Coming, StreamTypes
<1>5. InMessage \in Units
  BY Joins, JoinsNothing DEF InMessage, StreamTypes
<1> QED
  BY <1>1, <1>2, <1>3, <1>4, <1>5, Joins DEF StreamTypes

-------------------------------------------------------------------------------
(* The steps.  Each part of the invariant stays when what it speaks of does. *)

LEMMA FlowStays ==
  ASSUME FlowInv, asked' = asked, handled' = handled, InMessage' = InMessage, extra' = extra,
         Coming' = Coming
  PROVE  FlowInv'
BY DEF FlowInv, Asks

LEMMA HeaderStays ==
  ASSUME HeaderInv, UNCHANGED <<header, headerRead, body>>
  PROVE  HeaderInv'
BY DEF HeaderInv, EndsHeader, BodyLen

LEMMA BackStays ==
  ASSUME BackInv, UNCHANGED <<left, outbox, got, handled, written, response, state>>
  PROVE  BackInv'
BY DEF BackInv, Unsent, Answers

LEMMA TurnStays ==
  ASSUME TurnInv,
         UNCHANGED <<encrypted, handled, completion, state, inbox, sending, partial, buffered>>
  PROVE  TurnInv'
BY DEF TurnInv, IsClear

LEMMA InMessageStays ==
  ASSUME UNCHANGED <<state, header, body>>
  PROVE  InMessage' = InMessage
BY DEF InMessage

LEMMA ComingStays ==
  ASSUME UNCHANGED <<buffered, partial, inbox, sending>>
  PROVE  Coming' = Coming
BY DEF Coming

LEMMA MessagesStay ==
  ASSUME MessagesInv,
         UNCHANGED <<client, inbox, outbox, encrypted, reading, state, writing, handled>>
  PROVE  MessagesInv'
<1>1. UNCHANGED <<asked, sending, got, left, inbox, outbox, encrypted, partial, buffered, header,
                  headerRead, extra, body, state, response, written, completion, handled>>
  BY DEF client, reading, writing
<1>2. StreamTypes'
  BY <1>1 DEF StreamTypes, MessagesInv
<1>3. FlowInv'
  BY <1>1, InMessageStays, ComingStays, FlowStays DEF MessagesInv
<1> QED
  BY <1>1, <1>2, <1>3, HeaderStays, BackStays, TurnStays DEF MessagesInv

\* The client asks for more.
LEMMA FlowGrows ==
  ASSUME StreamTypes, FlowInv, NEW n \in Nat, asked + n <= Len(AllRequests), asked' = asked + n,
         handled' = handled, InMessage' = InMessage, extra' = extra,
         Coming' = Coming \o Between(AllRequests, asked, asked + n)
  PROVE  FlowInv'
<1> DEFINE A == Asks(handled)
           more == Between(AllRequests, asked, asked + n)
           before == InMessage \o extra
<1>1. A \in Nat /\ asked \in Nat /\ A <= asked
  BY RequestsAre DEF StreamTypes, FlowInv
<1>2. AllRequests \in Units /\ Len(AllRequests) \in Nat
  BY RequestsTypes
<1>3. before \o Coming = Between(AllRequests, A, asked)
  BY DEF FlowInv
<1>4. Asks(handled)' = A
  BY DEF Asks
<1>5. before \in Units /\ Coming \in Units
  BY ComingTypes
<1>6. more \in Units
  BY <1>1, <1>2, RequestsClear
<1>7. (before \o Coming) \o more = before \o (Coming \o more)
  <2> HIDE DEF more, before
  <2> QED
    BY <1>5, <1>6, Associates, ZenonT(60)
<1>8. (before \o Coming)' = before \o (Coming \o more)
  OBVIOUS
<1> HIDE DEF A, more, before
<1>9. Between(AllRequests, A, asked) \o more = Between(AllRequests, A, asked + n)
  <2>1. asked <= asked + n /\ asked + n \in Nat
    BY <1>1
  <2> QED
    BY <1>1, <1>2, <2>1, BetweenGrows DEF more, Units
<1>10. A <= asked + n
  BY <1>1
<1> QED
  BY <1>3, <1>4, <1>7, <1>8, <1>9, <1>10 DEF FlowInv, before

\* Clear units joined are clear.
LEMMA ClearJoins ==
  ASSUME NEW a \in Units, NEW b \in Units, IsClear(a), IsClear(b)
  PROVE  IsClear(a \o b)
<1>1. /\ Len(a) \in Nat /\ Len(b) \in Nat /\ Len(a \o b) = Len(a) + Len(b)
      /\ \A i \in 1 .. Len(a) + Len(b) : (a \o b)[i] = IF i <= Len(a) THEN a[i] ELSE b[i - Len(a)]
  BY LenProperties, ConcatProperties DEF Units
<1>2. ASSUME NEW i \in 1 .. Len(a) + Len(b) PROVE (a \o b)[i].part \notin Framing
  <2>1. CASE i <= Len(a)
    <3>1. i \in 1 .. Len(a)
      BY <1>1, <2>1
    <3> QED
      BY <1>1, <2>1, <3>1 DEF IsClear
  <2>2. CASE ~(i <= Len(a))
    <3>1. i - Len(a) \in 1 .. Len(b)
      BY <1>1, <2>2
    <3> QED
      BY <1>1, <2>2, <3>1 DEF IsClear
  <2> QED
    BY <2>1, <2>2
<1> QED
  BY <1>1, <1>2 DEF IsClear

\* The steps of the client.
LEMMA SendPlainKeeps ==
  ASSUME MessagesInv, SendPlain
  PROVE  MessagesInv'
<1> DEFINE u == AllRequests[asked + 1]
           one == <<u>>
<1>1. /\ ~left /\ sending = <<>> /\ asked < Len(AllRequests)
      /\ inbox' = Append(inbox, u) /\ asked' = asked + 1
      /\ UNCHANGED <<sending, got, left, outbox, encrypted, partial, buffered, header, headerRead,
                     extra, body, state, response, written, completion, handled>>
  BY DEF SendPlain, server, reading, writing
<1>2. asked \in Nat /\ Len(AllRequests) \in Nat /\ asked + 1 \in 1 .. Len(AllRequests)
  BY <1>1, RequestsTypes DEF MessagesInv, StreamTypes
<1>3. u \in UnitType /\ u \in RequestUnit
  BY <1>2, RequestsTypes
<1> HIDE DEF u
<1>4. one \in Units /\ IsClear(one) /\ inbox' = inbox \o one /\ inbox' \in Units
  <2>1. u.part \notin Framing
    BY <1>3 DEF RequestUnit, Framing
  <2>2. <<u>> \in Units /\ Len(<<u>>) = 1 /\ <<u>>[1] = u
    BY <1>3, OneUnit
  <2>3. IsClear(<<u>>)
    BY <2>1, <2>2 DEF IsClear
  <2>4. inbox \in Units
    BY DEF MessagesInv, StreamTypes
  <2>5. Append(inbox, u) = inbox \o <<u>>
    BY <1>3, <2>4, AppendIsConcat DEF Units
  <2> QED
    BY <1>1, <2>2, <2>3, <2>4, <2>5, Joins
<1> HIDE DEF one
<1>5. Between(AllRequests, asked, asked + 1) = one
  <2>1. asked <= asked + 1 /\ asked + 1 <= Len(AllRequests) /\ asked + 1 \in Nat
    BY <1>2
  <2>2. /\ Between(AllRequests, asked, asked + 1) \in Seq(RequestUnit)
        /\ Len(Between(AllRequests, asked, asked + 1)) = (asked + 1) - asked
        /\ \A i \in 1 .. (asked + 1) - asked :
             Between(AllRequests, asked, asked + 1)[i] = AllRequests[asked + i]
    BY <1>2, <2>1, BetweenIs, RequestsAre
  <2>3. (asked + 1) - asked = 1 /\ 1 \in 1 .. (asked + 1) - asked
    BY <1>2
  <2>4. Between(AllRequests, asked, asked + 1)[1] = u
    BY <2>2, <2>3 DEF u
  <2>5. Between(AllRequests, asked, asked + 1) \in Units
    BY <1>2, <2>1, RequestsClear
  <2>6. Between(AllRequests, asked, asked + 1) = <<Between(AllRequests, asked, asked + 1)[1]>>
    BY <2>2, <2>3, <2>5, OnlyUnit
  <2> QED
    BY <2>4, <2>6 DEF one
<1>6. Coming' = Coming \o one
  <2> DEFINE w == partial \o inbox
  <2>1. w \in Units /\ buffered \in Units /\ w \o <<>> = w /\ w \o one \in Units
    BY <1>4, ComingTypes, JoinsNothing, Joins DEF MessagesInv, StreamTypes
  <2>2. (partial \o inbox') \o <<>> = w \o one
    <3>1. partial \in Units /\ inbox \in Units /\ one \in Units
      BY <1>4 DEF MessagesInv, StreamTypes
    <3>2. partial \o (inbox \o one) = w \o one
      BY <3>1, Associates, ZenonT(60)
    <3> HIDE DEF w
    <3> QED
      BY <1>4, <2>1, <3>2, JoinsNothing
  <2>3. Decrypted[w \o one] = Decrypted[w] \o one /\ Decrypted[w] \in Units
    <3> HIDE DEF w
    <3>1. one \in Units /\ Decrypted[one] = one
      BY <1>4, ClearDecrypted
    <3>2. Decrypted[w \o one] = Decrypted[w] \o Decrypted[one] /\ Decrypted[w] \in Units
      BY <2>1, <3>1, Decrypts
    <3> QED
      BY <3>1, <3>2
  <2>4. buffered \o (Decrypted[w] \o one) = (buffered \o Decrypted[w]) \o one
    <3> HIDE DEF w
    <3>1. one \in Units
      BY <1>4
    <3> QED
      BY <2>1, <2>3, <3>1, Associates, ZenonT(60)
  <2>5. Coming = buffered \o Decrypted[w]
    BY <1>1, <2>1 DEF Coming
  <2>6. Coming' = buffered \o Decrypted[w \o one]
    BY <1>1, <2>2 DEF Coming
  <2> QED
    BY <2>3, <2>4, <2>5, <2>6
<1>7. FlowInv'
  <2>1. asked + 1 <= Len(AllRequests)
    BY <1>2
  <2>2. InMessage' = InMessage
    BY <1>1, InMessageStays
  <2>3. Coming' = Coming \o Between(AllRequests, asked, asked + 1)
    BY <1>5, <1>6
  <2>4. StreamTypes /\ FlowInv /\ 1 \in Nat
    BY DEF MessagesInv
  <2> QED
    BY <1>1, <2>1, <2>2, <2>3, <2>4, FlowGrows
<1>8. StreamTypes'
  BY <1>1, <1>2, <1>4 DEF MessagesInv, StreamTypes
<1>9. TurnInv'
  <2>1. ASSUME IsClear(inbox) PROVE IsClear(inbox')
    <3>1. inbox \in Units /\ one \in Units
      BY <1>4 DEF MessagesInv, StreamTypes
    <3>2. IsClear(inbox \o one)
      BY <1>4, <2>1, <3>1, ClearJoins
    <3> QED
      BY <1>4, <3>2
  <2> QED
    BY <1>1, <2>1 DEF MessagesInv, TurnInv
<1> QED
  BY <1>1, <1>7, <1>8, <1>9, HeaderStays, BackStays DEF MessagesInv

\* A cut of a list of units, and the units of a response that are not in the write buffer.
LEMMA CutUnitsAt ==
  ASSUME NEW q \in Units, NEW p \in Nat, NEW m \in Nat, NEW a \in Units, NEW b \in Units,
         p <= m, m <= Len(q), Joined(q, p, m, a, b)
  PROVE  \E r \in Nat : /\ r = p + Len(a) /\ r <= m
                        /\ a = Between(q, p, r) /\ b = Between(q, r, m)
BY CutAt DEF Units

LEMMA UnsentIs ==
  ASSUME NEW s \in Units
  PROVE  Unsent(s) \in Units
BY FramesAre, JoinsNothing DEF Unsent

LEMMA BeginFrameKeeps ==
  ASSUME MessagesInv, NEW n \in 1 .. ReadMax, BeginFrame(n)
  PROVE  MessagesInv'
<1> DEFINE s == Between(AllRequests, asked, asked + n)
           f == Frame(s)
           w == partial \o inbox
<1>1. /\ ~left /\ sending = <<>> /\ asked + n <= Len(AllRequests)
      /\ Verify # 0 /\ Answer(Verify)
      /\ sending' = f /\ asked' = asked + n
      /\ UNCHANGED <<got, left, inbox, outbox, encrypted, partial, buffered, header, headerRead,
                     extra, body, state, response, written, completion, handled>>
  BY DEF BeginFrame, server, reading, writing, Between
<1>2. /\ asked \in Nat /\ Len(AllRequests) \in Nat /\ n \in Nat /\ asked + n \in Nat
      /\ asked <= asked + n
  BY RequestsTypes, SizesAssumption DEF MessagesInv, StreamTypes
<1>3. s \in Units /\ IsClear(s)
  BY <1>1, <1>2, RequestsClear
<1> HIDE DEF s
<1>4. f \in Units /\ Decrypted[f] = s
  BY <1>3, FrameDecrypted
<1> HIDE DEF f
<1>5. w \in Units /\ buffered \in Units /\ w \o <<>> = w
  BY ComingTypes, JoinsNothing DEF MessagesInv, StreamTypes
<1>6. Coming = buffered \o Decrypted[w]
  BY <1>1, <1>5 DEF Coming
<1>7. Coming' = buffered \o Decrypted[w \o f]
  BY <1>1 DEF Coming
<1> HIDE DEF w
<1>8. Coming' = Coming \o s
  <2>1. Decrypted[w \o f] = Decrypted[w] \o Decrypted[f] /\ Decrypted[w] \in Units
    BY <1>4, <1>5, Decrypts
  <2>2. buffered \o (Decrypted[w] \o s) = (buffered \o Decrypted[w]) \o s
    BY <1>3, <1>5, <2>1, Associates, ZenonT(60)
  <2> QED
    BY <1>4, <1>6, <1>7, <2>1, <2>2
<1>9. FlowInv'
  <2>1. InMessage' = InMessage
    BY <1>1, InMessageStays
  <2>2. StreamTypes /\ FlowInv
    BY DEF MessagesInv
  <2>3. Coming' = Coming \o Between(AllRequests, asked, asked + n)
    BY <1>8 DEF s
  <2> QED
    BY <1>1, <1>2, <2>1, <2>2, <2>3, FlowGrows
<1>10. StreamTypes'
  <2>1. asked' \in 0 .. Len(AllRequests)
    BY <1>1, <1>2
  <2> QED
    BY <1>1, <1>4, <2>1 DEF MessagesInv, StreamTypes
<1>11. encrypted \/ completion
  <2> SUFFICES ASSUME ~encrypted, ~completion PROVE FALSE
    OBVIOUS
  <2>1. handled < Verify /\ got <= Answers(handled)
    BY <1>1 DEF MessagesInv, TurnInv, BackInv
  <2>2. got >= Answers(Verify)
    BY <1>1 DEF Answer, Answers
  <2>3. handled \in 0 .. Requests /\ Verify \in 0 .. Requests
    BY RequestsAssumption DEF MessagesInv, StreamTypes
  <2>4. Answers(handled) < Answers(Verify)
    BY <2>1, <2>3, AnswersGrow
  <2>5. got \in Nat /\ Answers(handled) \in Nat /\ Answers(Verify) \in Nat
    BY <2>3, ResponsesAre DEF MessagesInv, StreamTypes
  <2> QED
    BY <2>1, <2>2, <2>4, <2>5
<1>12. TurnInv'
  BY <1>1, <1>11 DEF MessagesInv, TurnInv
<1> QED
  BY <1>1, <1>9, <1>10, <1>12, HeaderStays, BackStays DEF MessagesInv

LEMMA SendFrameKeeps ==
  ASSUME MessagesInv, SendFrame
  PROVE  MessagesInv'
<1> DEFINE one == <<Head(sending)>>
           rest == Tail(sending)
<1>1. /\ ~left /\ sending # <<>> /\ inbox' = Append(inbox, Head(sending)) /\ sending' = rest
      /\ UNCHANGED <<asked, got, left, outbox, encrypted, partial, buffered, header, headerRead,
                     extra, body, state, response, written, completion, handled>>
  BY DEF SendFrame, server, reading, writing
<1>2. sending \in Units /\ inbox \in Units /\ partial \in Units
  BY DEF MessagesInv, StreamTypes
<1>3. one \in Units /\ rest \in Units /\ one \o rest = sending /\ Head(sending) \in UnitType
  BY <1>1, <1>2, HeadFirst, OneUnit
<1>4. inbox' = inbox \o one /\ inbox \o one \in Units
  <2>1. Append(inbox, Head(sending)) = inbox \o one
    BY <1>2, <1>3, AppendIsConcat DEF Units
  <2> QED
    BY <1>1, <1>2, <1>3, <2>1, Joins
<1> HIDE DEF one, rest
<1>5. Coming' = Coming
  <2>1. partial \o (inbox \o one) = (partial \o inbox) \o one /\ partial \o inbox \in Units
    <3>1. partial \o (inbox \o one) = (partial \o inbox) \o one
      BY <1>2, <1>3, Associates, ZenonT(60)
    <3> QED
      BY <1>2, <3>1, Joins
  <2>2. ((partial \o inbox) \o one) \o rest = (partial \o inbox) \o (one \o rest)
    BY <1>3, <2>1, Associates, ZenonT(60)
  <2> QED
    BY <1>1, <1>3, <1>4, <2>1, <2>2 DEF Coming
<1>6. FlowInv'
  BY <1>1, <1>5, InMessageStays, FlowStays DEF MessagesInv
<1>7. StreamTypes'
  BY <1>1, <1>3, <1>4 DEF MessagesInv, StreamTypes
<1>8. TurnInv'
  BY <1>1 DEF MessagesInv, TurnInv
<1> QED
  BY <1>1, <1>6, <1>7, <1>8, HeaderStays, BackStays DEF MessagesInv

LEMMA ReceiveKeeps ==
  ASSUME MessagesInv, Receive
  PROVE  MessagesInv'
<1> DEFINE one == <<Head(outbox)>>
           rest == Tail(outbox)
           upto == Answers(handled)
           tail == (rest \o written) \o Unsent(response)
<1>1. /\ ~left /\ outbox # <<>> /\ outbox' = rest /\ got' = got + 1
      /\ UNCHANGED <<asked, sending, left, inbox, encrypted, partial, buffered, header, headerRead,
                     extra, body, state, response, written, completion, handled>>
  BY DEF Receive, server, reading, writing
<1>2. /\ outbox \in Units /\ written \in Units /\ got \in Nat /\ Len(outbox) \in Nat
      /\ Len(outbox) <= SendBuffer /\ SendBuffer \in Nat
  BY LenProperties, SizesAssumption DEF MessagesInv, StreamTypes, Units
<1>3. /\ one \in Units /\ Len(one) = 1 /\ rest \in Units /\ one \o rest = outbox
      /\ Len(rest) = Len(outbox) - 1
  BY <1>1, <1>2, HeadFirst, OneUnit
<1>4. upto \in Nat /\ upto <= Len(AllResponses) /\ AllResponses \in Units
  BY ResponsesAre DEF MessagesInv, StreamTypes
<1>5. got <= upto /\ (outbox \o written) \o Unsent(response) = Between(AllResponses, got, upto)
  BY <1>1 DEF MessagesInv, BackInv
<1>6. Unsent(response) \in Units
  BY UnsentIs DEF MessagesInv, StreamTypes
<1> HIDE DEF one, rest, upto
<1>7. tail \in Units /\ (outbox \o written) \o Unsent(response) = one \o tail
  <2>1. (one \o rest) \o written = one \o (rest \o written) /\ rest \o written \in Units
    <3>1. (one \o rest) \o written = one \o (rest \o written)
      BY <1>2, <1>3, Associates, ZenonT(60)
    <3> QED
      BY <1>2, <1>3, <3>1, Joins
  <2>2. (one \o (rest \o written)) \o Unsent(response) = one \o tail
    BY <1>3, <1>6, <2>1, Associates, ZenonT(60)
  <2>3. tail \in Units
    BY <1>6, <2>1, Joins
  <2> QED
    BY <1>3, <2>1, <2>2, <2>3
<1> HIDE DEF tail
<1>8. got + 1 <= upto /\ tail = Between(AllResponses, got + 1, upto)
  <2>1. one \o tail = Between(AllResponses, got, upto)
    BY <1>5, <1>7
  <2>2. PICK r \in Nat : /\ r = got + Len(one) /\ r <= upto
                         /\ tail = Between(AllResponses, r, upto)
    <3>1. Joined(AllResponses, got, upto, one, tail)
      BY <2>1 DEF Joined
    <3> QED
      BY <1>2, <1>3, <1>4, <1>5, <1>7, <3>1, CutUnitsAt
  <2>3. r = got + 1
    BY <1>3, <2>2
  <2> QED
    BY <2>2, <2>3
<1>9. BackInv'
  <2>1. upto' = upto /\ Unsent(response)' = Unsent(response)
    BY <1>1 DEF upto, Unsent, Answers
  <2>2. /\ ~left' /\ got' <= Answers(handled)'
        /\ ((outbox \o written) \o Unsent(response))' = Between(AllResponses, got', Answers(handled)')
    BY <1>1, <1>8, <2>1 DEF upto, tail
  <2> QED
    BY <1>1, <2>2 DEF MessagesInv, BackInv
<1>10. StreamTypes'
  <2>1. Len(rest) <= SendBuffer
    BY <1>2, <1>3
  <2>2. got + 1 \in 0 .. Len(AllResponses)
    <3>1. Len(AllResponses) \in Nat
      BY <1>4, LenProperties DEF Units
    <3> QED
      BY <1>2, <1>4, <1>8, <3>1
  <2> QED
    BY <1>1, <1>3, <2>1, <2>2 DEF MessagesInv, StreamTypes
<1>11. FlowInv'
  BY <1>1, InMessageStays, ComingStays, FlowStays DEF MessagesInv
<1> QED
  BY <1>1, <1>9, <1>10, <1>11, HeaderStays, TurnStays DEF MessagesInv

LEMMA LeaveKeeps ==
  ASSUME MessagesInv, Leave
  PROVE  MessagesInv'
<1>1. /\ left' = TRUE /\ outbox' = <<>>
      /\ UNCHANGED <<asked, sending, got, inbox, encrypted, partial, buffered, header, headerRead,
                     extra, body, state, response, written, completion, handled>>
  BY DEF Leave, server, reading, writing
<1>2. StreamTypes'
  <2>1. <<>> \in Units /\ Len(<<>>) <= SendBuffer
    BY JoinsNothing, EmptySeq, SizesAssumption
  <2> QED
    BY <1>1, <2>1 DEF MessagesInv, StreamTypes
<1>3. BackInv'
  BY <1>1 DEF MessagesInv, BackInv
<1>4. FlowInv'
  BY <1>1, InMessageStays, ComingStays, FlowStays DEF MessagesInv
<1> QED
  BY <1>1, <1>2, <1>3, <1>4, HeaderStays, TurnStays DEF MessagesInv

\* The first n units of enough.
LEMMA FirstIs ==
  ASSUME NEW s \in Units, NEW n \in Nat, n <= Len(s)
  PROVE  /\ Len(First(s, n)) = n /\ First(s, n) = SubSeq(s, 1, n)
         /\ \A i \in 1 .. n : First(s, n)[i] = s[i]
<1>1. Len(s) \in Nat
  BY LenProperties DEF Units
<1>2. Min({n, Len(s)}) = n
  <2>1. {n, Len(s)} \in SUBSET Nat
    BY <1>1
  <2>2. Min({n, Len(s)}) \in {n, Len(s)} /\ \A y \in {n, Len(s)} : Min({n, Len(s)}) <= y
    BY <2>1, LeastOf
  <2> QED
    BY <1>1, <2>2
<1>3. First(s, n) = SubSeq(s, 1, n)
  BY <1>2 DEF First
<1>4. \A i \in 1 .. n : s[i] \in UnitType
  <2>1. \A i \in 1 .. Len(s) : s[i] \in UnitType
    BY ElementOfSeq DEF Units
  <2> QED
    BY <1>1, <2>1
<1>5. /\ Len(SubSeq(s, 1, n)) = IF 1 <= n THEN n - 1 + 1 ELSE 0
      /\ \A i \in 1 .. n - 1 + 1 : SubSeq(s, 1, n)[i] = s[1 + i - 1]
  BY <1>4, SubSeqProperties
<1>6. n - 1 + 1 = n /\ \A i \in 1 .. n : 1 + i - 1 = i
  OBVIOUS
<1> QED
  BY <1>3, <1>5, <1>6

\* The header that HTTPReadHeader finds ends where the first end is.
LEMMA EndFound ==
  ASSUME NEW s \in Units, HasEnd(s)
  PROVE  EndOf(s) \in Nat /\ EndsHeader(First(s, EndOf(s)))
<1> DEFINE ends == {i \in DOMAIN s : s[i].part = "end"}
           e == EndOf(s)
<1>1. Len(s) \in Nat /\ DOMAIN s = 1 .. Len(s)
  BY LenProperties DEF Units
<1>2. ends \in SUBSET Nat /\ ends # {}
  BY <1>1 DEF HasEnd
<1>3. e \in ends /\ \A i \in ends : e <= i
  <2>1. e = Min(ends)
    BY DEF EndOf
  <2> HIDE DEF ends, e
  <2>2. Min(ends) \in ends /\ \A i \in ends : Min(ends) <= i
    BY <1>2, LeastOf
  <2> QED
    BY <2>1, <2>2
<1>4. e \in 1 .. Len(s) /\ s[e].part = "end"
  BY <1>1, <1>3
<1>5. \A i \in 1 .. Len(s) : i < e => s[i].part # "end"
  <2>1. \A i \in 1 .. Len(s) : s[i].part = "end" => e <= i
    BY <1>1, <1>3
  <2> HIDE DEF e
  <2> QED
    BY <1>1, <1>4, <2>1
<1> HIDE DEF e
<1>6. Len(First(s, e)) = e /\ \A i \in 1 .. e : First(s, e)[i] = s[i]
  <2>1. e \in Nat /\ e <= Len(s)
    BY <1>1, <1>4
  <2> QED
    BY <2>1, FirstIs
<1>7. \A i \in 1 .. e : i \in 1 .. Len(s)
  BY <1>1, <1>4
<1>8. e \in 1 .. e /\ e > 0 /\ e \in Nat
  BY <1>1, <1>4
<1>9. EndsHeader(First(s, e))
  BY <1>4, <1>5, <1>6, <1>7, <1>8 DEF EndsHeader
<1> QED
  BY <1>8, <1>9 DEF e

\* A read gives the next units whatever the transport.
LEMMA ReadGives ==
  ASSUME MessagesInv, state = "ReadingRequest", NEW n \in Nat, NEW r,
         r = NoRead \/ r = ReadF(n), Took(r), UNCHANGED sending
  PROVE  Gives(r.got, n)
<1>1. StreamTypes
  BY DEF MessagesInv
<1>2. ~encrypted => partial = <<>> /\ buffered = <<>> /\ IsClear(inbox) /\ sending = <<>>
  BY DEF MessagesInv, TurnInv
<1>3. CASE r = NoRead
  BY <1>1, <1>2, <1>3, NothingRead
<1>4. CASE r = ReadF(n) /\ encrypted
  <2>1. r = ReadFrames(n)
    BY <1>4 DEF ReadF
  <2> QED
    BY <1>1, <1>4, <2>1, FramesRead
<1>5. CASE r = ReadF(n) /\ ~encrypted
  <2>1. r = ReadSocket(n)
    BY <1>5 DEF ReadF
  <2> QED
    BY <1>1, <1>2, <1>5, <2>1, SocketRead
<1> QED
  BY <1>3, <1>4, <1>5

\* What a read gives goes behind what is in hand, and the message that is read and what
\* is behind it stay the next that was asked for.
LEMMA FlowMoves ==
  ASSUME StreamTypes, FlowInv, NEW got0 \in Units, Coming = got0 \o Coming', Coming' \in Units,
         (InMessage \o extra)' = (InMessage \o extra) \o got0,
         asked' = asked, handled' = handled
  PROVE  FlowInv'
<1> DEFINE before == InMessage \o extra
           after == Coming'
<1>1. before \in Units
  BY ComingTypes
<1>2. (InMessage \o extra)' \o Coming' = (before \o got0) \o after
  OBVIOUS
<1> HIDE DEF before, after
<1>3. (before \o got0) \o after = before \o (got0 \o after)
  <2>1. after \in Units
    BY DEF after
  <2> QED
    BY <1>1, <2>1, Associates, ZenonT(60)
<1>4. before \o (got0 \o after) = before \o Coming
  BY DEF after
<1>5. (InMessage \o extra)' \o Coming' = (InMessage \o extra) \o Coming
  BY <1>2, <1>3, <1>4 DEF before
<1>6. Asks(handled)' = Asks(handled)
  BY DEF Asks
<1> QED
  BY <1>5, <1>6 DEF FlowInv

\* What comes after a read is a list of units.
LEMMA ComingAfter ==
  ASSUME StreamTypes, buffered' \in Units, partial' \in Units, inbox' \in Units, sending' = sending
  PROVE  Coming' \in Units
<1>1. partial' \o inbox' \in Units
  BY Joins
<1>2. (partial' \o inbox') \o sending \in Units
  BY <1>1, Joins DEF StreamTypes
<1>3. Decrypted[(partial' \o inbox') \o sending] \in Units
  BY <1>2, DecryptedJoin
<1> QED
  BY <1>3, Joins DEF Coming

\* HTTPReadHeader and the body of HTTPMessageReadMessage.
LEMMA ReadHeaderKeeps ==
  ASSUME MessagesInv, ReadHeader
  PROVE  MessagesInv'
<1>1. /\ state = "ReadingRequest" /\ ~headerRead
      /\ UNCHANGED <<asked, sending, got, left, outbox, encrypted, body, state, response, written,
                     completion, handled>>
  BY DEF ReadHeader, Reads, client, writing
<1>2. PICK r \in {IF HasEnd(InHand) THEN NoRead ELSE ReadF(Len(AllRequests))} :
        LET s == InHand \o r.got
        IN /\ Took(r)
           /\ IF HasEnd(s)
              THEN /\ header' = First(s, EndOf(s)) /\ extra' = After(s, EndOf(s))
                   /\ headerRead' = TRUE
                   /\ GoesOn
              ELSE /\ header' = s /\ extra' = <<>>
                   /\ UNCHANGED headerRead
                   /\ IF left THEN Closed ELSE WaitsToRead
  BY DEF ReadHeader
<1> DEFINE given == r.got
           s == InHand \o given
<1>3. /\ Took(r)
      /\ r = NoRead \/ r = ReadF(Len(AllRequests))
      /\ \/ /\ HasEnd(s) /\ header' = First(s, EndOf(s)) /\ extra' = After(s, EndOf(s))
            /\ headerRead' = TRUE
         \/ header' = s /\ extra' = <<>> /\ headerRead' = headerRead
  BY <1>2
<1>4. Gives(given, Len(AllRequests))
  <2>1. Len(AllRequests) \in Nat
    BY RequestsTypes
  <2> QED
    BY <1>1, <1>2, <1>3, <2>1, ReadGives
<1>5. StreamTypes /\ header \in Units /\ extra \in Units
  BY DEF MessagesInv, StreamTypes
<1>6. body = <<>>
  BY <1>1 DEF MessagesInv, HeaderInv
<1>7. /\ given \in Units /\ InHand \in Units /\ s \in Units
      /\ Coming' \in Units /\ Coming = given \o Coming'
  <2>1. given \in Units
    BY <1>4 DEF Gives
  <2>2. InHand \in Units
    BY <1>5, Joins DEF InHand
  <2>3. s \in Units
    BY <2>1, <2>2, Joins
  <2>4. Coming' \in Units
    BY <1>1, <1>4, <1>5, ComingAfter DEF Gives
  <2> QED
    BY <1>4, <2>1, <2>2, <2>3, <2>4 DEF Gives
<1> HIDE DEF given
<1>8. InMessage \o extra = InHand
  <2>1. header \o <<>> = header
    BY <1>5, JoinsNothing
  <2> QED
    BY <1>1, <1>6, <2>1 DEF InMessage, InHand
<1> HIDE DEF s
<1>9. /\ header' \in Units /\ extra' \in Units /\ header' \o extra' = s
      /\ headerRead' \in BOOLEAN
      /\ headerRead' => EndsHeader(header')
  <2>1. CASE header' = s /\ extra' = <<>> /\ headerRead' = headerRead
    <3>1. headerRead' \in BOOLEAN /\ ~headerRead'
      BY <1>1, <2>1, Zenon DEF MessagesInv, StreamTypes
    <3>2. s \o <<>> = s /\ <<>> \in Units
      BY <1>7, JoinsNothing
    <3> QED
      BY <1>7, <2>1, <3>1, <3>2
  <2>2. CASE /\ HasEnd(s) /\ header' = First(s, EndOf(s)) /\ extra' = After(s, EndOf(s))
             /\ headerRead' = TRUE
    <3>1. EndOf(s) \in Nat /\ EndsHeader(First(s, EndOf(s)))
      BY <1>7, <2>2, EndFound
    <3>2. /\ First(s, EndOf(s)) \in Units /\ After(s, EndOf(s)) \in Units
          /\ First(s, EndOf(s)) \o After(s, EndOf(s)) = s
      BY <1>7, <3>1, CutsUnits
    <3> QED
      BY <2>2, <3>1, <3>2
  <2> QED
    BY <1>3, <2>1, <2>2
<1>10. FlowInv'
  <2>1. (InMessage \o extra)' = s
    <3>1. InMessage' = header' \o <<>>
      BY <1>1, <1>6 DEF InMessage
    <3>2. header' \o <<>> = header'
      BY <1>9, JoinsNothing
    <3> QED
      BY <1>9, <3>1, <3>2
  <2>2. (InMessage \o extra)' = (InMessage \o extra) \o given
    BY <1>8, <2>1 DEF s
  <2> QED
    BY <1>1, <1>5, <1>7, <2>2, FlowMoves DEF MessagesInv
<1>11. StreamTypes'
  BY <1>1, <1>4, <1>9 DEF MessagesInv, StreamTypes, Gives
<1>12. HeaderInv'
  <2>1. body' = <<>> /\ Len(<<>>) = 0 /\ BodyLen' \in {0, 1}
    BY <1>1, <1>6, EmptySeq DEF BodyLen
  <2>2. headerRead' => EndsHeader(header')
    BY <1>9
  <2>3. Len(body') <= BodyLen'
    BY <2>1
  <2>4. EndsHeader(header)' <=> EndsHeader(header')
    BY DEF EndsHeader
  <2> QED
    BY <2>1, <2>2, <2>3, <2>4 DEF HeaderInv
<1>13. TurnInv'
  <2>1. ~encrypted => partial' = <<>> /\ buffered' = <<>> /\ IsClear(inbox')
    BY <1>4 DEF Gives
  <2>2. IsClear(inbox') <=> IsClear(inbox)'
    BY DEF IsClear
  <2> QED
    BY <1>1, <2>1, <2>2 DEF MessagesInv, TurnInv
<1> QED
  BY <1>1, <1>10, <1>11, <1>12, <1>13, BackStays DEF MessagesInv

LEMMA ReadBodyKeeps ==
  ASSUME MessagesInv, ReadBody
  PROVE  MessagesInv'
<1>1. /\ state = "ReadingRequest" /\ headerRead /\ ~Complete
      /\ UNCHANGED <<asked, sending, got, left, outbox, encrypted, header, headerRead, state,
                     response, written, completion, handled>>
  BY DEF ReadBody, Reads, client, writing
<1>2. PICK r \in {IF extra # <<>> THEN NoRead ELSE ReadF(BodyLen - Len(body))} :
        LET n == BodyLen - Len(body)
            s == First(extra \o r.got, n)
        IN /\ Took(r)
           /\ body' = body \o s
           /\ extra' = After(extra, n)
           /\ IF Len(s) = n THEN GoesOn ELSE IF left THEN Closed ELSE WaitsToRead
  BY DEF ReadBody
<1> DEFINE n == BodyLen - Len(body)
           given == r.got
           s == First(extra \o given, n)
           rest == After(extra, n)
<1>3. Took(r) /\ body' = body \o s /\ extra' = rest
  BY <1>2
<1>4. StreamTypes /\ header \in Units /\ extra \in Units /\ body \in Units
  BY DEF MessagesInv, StreamTypes
<1>5. BodyLen \in Nat /\ Len(body) \in Nat /\ Len(body) <= BodyLen /\ n \in Nat
  <2>1. BodyLen \in Nat
    BY DEF BodyLen
  <2>2. Len(body) \in Nat
    BY <1>4, LenProperties DEF Units
  <2>3. Len(body) <= BodyLen
    BY <1>1 DEF MessagesInv, HeaderInv
  <2> HIDE DEF n
  <2>4. n = BodyLen - Len(body)
    BY DEF n
  <2> QED
    BY <2>1, <2>2, <2>3, <2>4
<1>6. extra # <<>> => given = <<>>
  BY <1>2 DEF NoRead
<1>7. Gives(given, n)
  <2>1. r = NoRead \/ r = ReadF(n)
    BY <1>2
  <2> HIDE DEF n
  <2> QED
    BY <1>1, <1>3, <1>5, <2>1, ReadGives
<1> HIDE DEF n, given
<1>8. /\ given \in Units /\ Len(given) <= n /\ Coming' \in Units /\ Coming = given \o Coming'
  <2>1. Coming' \in Units
    BY <1>1, <1>4, <1>7, ComingAfter DEF Gives
  <2> QED
    BY <1>7, <2>1 DEF Gives
<1>9. s \in Units /\ rest \in Units /\ Len(s) <= n /\ s \o rest = extra \o given
  <2>1. CASE extra # <<>>
    <3>1. given = <<>> /\ extra \o given = extra
      BY <1>4, <1>6, <2>1, JoinsNothing
    <3>2. s = First(extra, n)
      BY <3>1
    <3> HIDE DEF s, rest
    <3>3. /\ First(extra, n) \in Units /\ After(extra, n) \in Units
          /\ First(extra, n) \o After(extra, n) = extra
      BY <1>4, <1>5, CutsUnits
    <3>4. Len(First(extra, n)) = IF n <= Len(extra) THEN n ELSE Len(extra)
      BY <1>4, <1>5, CutParts DEF Units
    <3>5. Len(extra) \in Nat
      BY <1>4, LenProperties DEF Units
    <3>6. Len(First(extra, n)) <= n
      BY <1>5, <3>4, <3>5
    <3> QED
      BY <3>1, <3>2, <3>3, <3>6 DEF rest
  <2>2. CASE extra = <<>>
    <3>1. extra \o given = given /\ Len(given) \in Nat
      BY <1>8, <2>2, JoinsNothing, LenProperties DEF Units
    <3>2. After(given, n) = <<>>
      <4>1. Len(given) < n + 1 /\ n + 1 \in Int /\ Len(given) \in Int
        BY <1>5, <1>8, <3>1
      <4> QED
        BY <4>1, SubSeqEmpty DEF After
    <3>3. First(given, n) \o After(given, n) = given /\ First(given, n) \in Units
      BY <1>5, <1>8, CutsUnits
    <3>4. First(given, n) = given
      BY <3>2, <3>3, JoinsNothing
    <3>5. s = given
      BY <3>1, <3>4
    <3>6. rest = <<>>
      <4>1. Len(<<>>) = 0
        BY EmptySeq
      <4>2. 0 < n + 1 /\ n + 1 \in Int /\ 0 \in Int
        BY <1>5
      <4> QED
        BY <2>2, <4>1, <4>2, SubSeqEmpty DEF After
    <3> HIDE DEF s, rest
    <3> QED
      BY <1>8, <3>1, <3>5, <3>6, JoinsNothing
  <2> QED
    BY <2>1, <2>2
<1> HIDE DEF s, rest
<1>10. body' \in Units /\ Len(body') <= BodyLen
  <2>1. body \o s \in Units /\ Len(body \o s) = Len(body) + Len(s) /\ Len(s) \in Nat
    BY <1>4, <1>9, ConcatProperties, LenProperties DEF Units
  <2>2. Len(body) + Len(s) <= BodyLen
    BY <1>5, <1>9, <2>1 DEF n
  <2> QED
    BY <1>3, <2>1, <2>2
<1>11. FlowInv'
  <2>1. (InMessage \o extra)' = (header \o (body \o s)) \o rest
    BY <1>1, <1>3 DEF InMessage
  <2>2. InMessage \o extra = (header \o body) \o extra
    BY <1>1 DEF InMessage
  <2>3. header \o body \in Units /\ header \o (body \o s) = (header \o body) \o s
    <3>1. header \o (body \o s) = (header \o body) \o s
      BY <1>4, <1>9, Associates, ZenonT(60)
    <3> QED
      BY <1>4, <3>1, Joins
  <2>4. ((header \o body) \o s) \o rest = (header \o body) \o (s \o rest)
    BY <1>9, <2>3, Associates, ZenonT(60)
  <2>5. (header \o body) \o (extra \o given) = ((header \o body) \o extra) \o given
    BY <1>4, <1>8, <2>3, Associates, ZenonT(60)
  <2>6. (InMessage \o extra)' = (InMessage \o extra) \o given
    BY <1>9, <2>1, <2>2, <2>3, <2>4, <2>5
  <2> QED
    BY <1>1, <1>4, <1>8, <2>6, FlowMoves DEF MessagesInv
<1>12. StreamTypes'
  BY <1>1, <1>3, <1>7, <1>9, <1>10 DEF MessagesInv, StreamTypes, Gives
<1>13. HeaderInv'
  <2>1. EndsHeader(header)' <=> EndsHeader(header)
    BY <1>1 DEF EndsHeader
  <2>2. BodyLen' = BodyLen
    BY <1>1 DEF BodyLen
  <2> QED
    BY <1>1, <1>10, <2>1, <2>2 DEF MessagesInv, HeaderInv
<1>14. TurnInv'
  <2>1. ~encrypted => partial' = <<>> /\ buffered' = <<>> /\ IsClear(inbox')
    BY <1>7 DEF Gives
  <2>2. IsClear(inbox') <=> IsClear(inbox)'
    BY DEF IsClear
  <2> QED
    BY <1>1, <2>1, <2>2 DEF MessagesInv, TurnInv
<1> QED
  BY <1>1, <1>11, <1>12, <1>13, <1>14, BackStays DEF MessagesInv

\* A message that is complete is the next request, and what is behind it comes next.
LEMMA RequestComplete ==
  ASSUME MessagesInv, state = "ReadingRequest", Complete
  PROVE  /\ handled < Requests
         /\ header \o body = RequestUnits(handled + 1)
         /\ Asks(handled + 1) <= asked
         /\ extra \o Coming = Between(AllRequests, Asks(handled + 1), asked)
<1> DEFINE k == handled + 1
           from == Asks(handled)
           rest == extra \o Coming
           request == RequestUnits(k)
<1>1. /\ header \in Units /\ body \in Units /\ extra \in Units /\ Coming \in Units
      /\ handled \in 0 .. Requests /\ Requests \in Nat /\ handled \in Nat /\ asked \in Nat
      /\ asked <= Len(AllRequests) /\ Len(AllRequests) \in Nat /\ AllRequests \in Units
      /\ from \in Nat /\ from <= asked
  BY ComingTypes, RequestsTypes, RequestsAre, RequestsAssumption
  DEF MessagesInv, StreamTypes, FlowInv
<1>2. EndsHeader(header) /\ Len(body) = BodyLen
  BY DEF MessagesInv, HeaderInv, Complete
<1>3. (header \o body) \o rest = Between(AllRequests, from, asked)
  <2>1. header \o body \in Units
    BY <1>1, Joins
  <2>2. ((header \o body) \o extra) \o Coming = (header \o body) \o rest
    BY <1>1, <2>1, Associates, ZenonT(60)
  <2>3. ((header \o body) \o extra) \o Coming = Between(AllRequests, from, asked)
    BY DEF MessagesInv, FlowInv, InMessage
  <2> QED
    BY <2>2, <2>3
<1>4. rest \in Units /\ body \o rest \in Units /\ header \o body \in Units
  BY <1>1, Joins
<1> HIDE DEF from, rest
<1>5. PICK r \in Nat : /\ r = from + Len(header) /\ r <= asked
                       /\ header = Between(AllRequests, from, r)
  <2>1. header \o (body \o rest) = (header \o body) \o rest
    <3>1. header \in Units /\ body \in Units /\ rest \in Units
      BY <1>1, <1>4
    <3> QED
      BY <3>1, Associates, ZenonT(60)
  <2>2. header \o (body \o rest) = Between(AllRequests, from, asked)
    BY <1>3, <2>1
  <2>3. Joined(AllRequests, from, asked, header, body \o rest)
    BY <2>2 DEF Joined
  <2> QED
    BY <1>1, <1>4, <2>3, CutUnitsAt
<1>6. Len(header) \in Nat /\ Len(header) > 0
  BY <1>1, <1>2, LenProperties DEF Units, EndsHeader
<1>7. handled < Requests
  <2>1. from < asked
    BY <1>1, <1>5, <1>6
  <2>2. handled # Requests
    BY <1>1, <2>1, RequestsAre DEF from
  <2> QED
    BY <1>1, <2>2
<1>8. k \in 1 .. Requests /\ k \in Nat /\ k - 1 = handled
  BY <1>1, <1>7
<1> HIDE DEF k
<1>9. /\ Asks(k) = from + Len(request) /\ Between(AllRequests, from, Asks(k)) = request
      /\ Asks(k) \in Nat /\ Asks(k) <= Len(AllRequests)
  <2>1. /\ Asks(k) = Asks(k - 1) + Len(RequestUnits(k))
        /\ Between(AllRequests, Asks(k - 1), Asks(k)) = RequestUnits(k)
    BY <1>8, RequestsAre
  <2>2. k \in 0 .. Requests
    BY <1>8
  <2>3. Asks(k) \in Nat /\ Asks(k) <= Len(AllRequests)
    BY <2>2, RequestsAre
  <2> QED
    BY <1>8, <2>1, <2>3 DEF from
<1>10. /\ Len(request) \in Nat /\ Len(request) = IF k \in WithBody THEN 3 ELSE 2
       /\ request[1] = Unit("line", k) /\ request[2] = Unit("end", k)
  <2>1. /\ Len(RequestUnits(k)) = IF k \in WithBody THEN 3 ELSE 2
        /\ RequestUnits(k)[1] = Unit("line", k) /\ RequestUnits(k)[2] = Unit("end", k)
    BY <1>8, RequestIs
  <2> QED
    BY <2>1
<1> HIDE DEF request
<1>11. \A i \in 1 .. 2 : request[i] = AllRequests[from + i]
  <2> DEFINE upto == Asks(k)
  <2>1. /\ upto \in Nat /\ from <= upto /\ upto <= Len(AllRequests) /\ upto - from = Len(request)
        /\ Between(AllRequests, from, upto) = request
    BY <1>1, <1>9, <1>10
  <2> HIDE DEF upto
  <2>2. \A i \in 1 .. upto - from : Between(AllRequests, from, upto)[i] = AllRequests[from + i]
    <3>1. AllRequests \in Seq(UnitType) /\ from \in Nat /\ upto \in Nat /\ from <= upto
          /\ upto <= Len(AllRequests)
      BY <1>1, <2>1 DEF Units
    <3> QED
      BY ONLY <3>1, BetweenIs
  <2>3. \A i \in 1 .. 2 : i \in 1 .. upto - from
    BY <1>10, <2>1
  <2> QED
    BY <2>1, <2>2, <2>3
<1>12. \A i \in 1 .. Len(header) : header[i] = AllRequests[from + i]
  <2>1. from <= r /\ r <= Len(AllRequests) /\ r - from = Len(header)
    BY <1>1, <1>5, <1>6
  <2>2. \A i \in 1 .. r - from : Between(AllRequests, from, r)[i] = AllRequests[from + i]
    <3>1. AllRequests \in Seq(UnitType) /\ from \in Nat /\ r \in Nat /\ from <= r
          /\ r <= Len(AllRequests)
      BY <1>1, <2>1 DEF Units
    <3> QED
      BY ONLY <3>1, BetweenIs
  <2> QED
    BY <1>5, <2>1, <2>2
<1>13. Len(header) = 2
  <2>1. Unit("line", k).part # "end" /\ Unit("end", k).part = "end"
    BY DEF Unit
  <2>2. Len(header) # 1
    <3> SUFFICES ASSUME Len(header) = 1 PROVE FALSE
      OBVIOUS
    <3>1. 1 \in 1 .. 2 /\ 1 \in 1 .. Len(header)
      OBVIOUS
    <3>2. header[1] = Unit("line", k)
      BY <1>10, <1>11, <1>12, <3>1
    <3> QED
      BY <1>2, <2>1, <3>2 DEF EndsHeader
  <2>3. ~(Len(header) > 2)
    <3> SUFFICES ASSUME Len(header) > 2 PROVE FALSE
      OBVIOUS
    <3>1. 2 \in 1 .. 2 /\ 2 \in 1 .. Len(header) /\ 2 < Len(header)
      BY <1>6
    <3>2. header[2] = Unit("end", k)
      BY <1>10, <1>11, <1>12, <3>1
    <3> QED
      BY <1>2, <2>1, <3>1, <3>2 DEF EndsHeader
  <2>4. \A x \in Nat : x > 0 /\ x # 1 /\ ~(x > 2) => x = 2
    OBVIOUS
  <2> QED
    BY <1>6, <2>2, <2>3, <2>4, Zenon
<1>14. BodyLen = IF k \in WithBody THEN 1 ELSE 0
  <2>1. 1 \in 1 .. 2 /\ 1 \in 1 .. Len(header)
    BY <1>13
  <2>2. header[1] = Unit("line", k)
    BY <1>10, <1>11, <1>12, <2>1
  <2>3. Head(header) = header[1]
    BY <1>1 DEF Units
  <2>4. Head(header).n = k
    BY <2>2, <2>3 DEF Unit
  <2> QED
    BY <2>4 DEF BodyLen
<1>15. Len(header \o body) = Len(request)
  <2>1. Len(header \o body) = Len(header) + Len(body)
    BY <1>1, ConcatProperties DEF Units
  <2> QED
    BY <1>2, <1>10, <1>13, <1>14, <2>1
<1>16. PICK q \in Nat : /\ q = from + Len(header \o body) /\ q <= asked
                        /\ header \o body = Between(AllRequests, from, q)
                        /\ rest = Between(AllRequests, q, asked)
  <2>1. Joined(AllRequests, from, asked, header \o body, rest)
    BY <1>3 DEF Joined
  <2> DEFINE all == header \o body
  <2>2. all \in Units /\ Joined(AllRequests, from, asked, all, rest)
    BY <1>4, <2>1
  <2> HIDE DEF all
  <2>3. \E q \in Nat : /\ q = from + Len(all) /\ q <= asked
                       /\ all = Between(AllRequests, from, q) /\ rest = Between(AllRequests, q, asked)
    BY <1>1, <1>4, <2>2, CutUnitsAt
  <2> QED
    BY <2>3 DEF all
<1>17. q = Asks(k)
  BY <1>9, <1>15, <1>16
<1> QED
  BY <1>7, <1>9, <1>16, <1>17 DEF k, request, rest

\* _HTTPConnectionRunStateMachine hands the request on and sends its response.
LEMMA HandleRequestKeeps ==
  ASSUME MessagesInv, HandleRequest
  PROVE  MessagesInv'
<1> DEFINE k == handled + 1
           units == ResponseUnits(k)
<1>1. /\ state = "ReadingRequest" /\ Complete
      /\ handled' = k /\ state' = "WritingResponse"
      /\ response' = (IF encrypted THEN units ELSE <<>>)
      /\ written' = (IF encrypted THEN <<>> ELSE units)
      /\ completion' = (k = Verify)
      /\ UNCHANGED <<asked, sending, got, left, inbox, outbox, encrypted, partial, buffered, header,
                     headerRead, extra, body>>
  BY DEF HandleRequest, Reads, client, reading
<1>2. /\ handled < Requests /\ Asks(k) <= asked
      /\ extra \o Coming = Between(AllRequests, Asks(k), asked)
  BY <1>1, RequestComplete
<1>3. /\ k \in 1 .. Requests /\ k \in Nat /\ k - 1 = handled /\ k \in 0 .. Requests
      /\ handled \in Nat /\ Verify \in Nat /\ handled \in 0 .. Requests
  BY <1>2, RequestsAssumption DEF MessagesInv, StreamTypes
<1>4. units \in Units /\ Len(units) = 2 /\ units # <<>>
  <2>1. ResponseUnits(k) \in Units /\ Len(ResponseUnits(k)) = 2
    BY <1>3, ResponseIs
  <2>2. Len(<<>>) = 0
    BY EmptySeq
  <2> QED
    BY <2>1, <2>2
<1> HIDE DEF units
<1>5. StreamTypes'
  BY <1>1, <1>3, <1>4, JoinsNothing DEF MessagesInv, StreamTypes
<1>6. FlowInv'
  <2>1. Coming' = Coming
    BY <1>1, ComingStays
  <2>2. InMessage' = <<>>
    BY <1>1 DEF InMessage
  <2>3. <<>> \o extra = extra
    BY JoinsNothing DEF MessagesInv, StreamTypes
  <2>4. Asks(handled)' = Asks(k)
    BY <1>1 DEF Asks
  <2> QED
    BY <1>1, <1>2, <2>1, <2>2, <2>3, <2>4 DEF FlowInv
<1>7. ~completion /\ (encrypted => Verify # 0 /\ k > Verify)
  BY <1>1, <1>3 DEF MessagesInv, TurnInv
<1>8. OnWire(k) = IF encrypted THEN Frames(units) ELSE units
  <2>1. ~encrypted => Verify = 0 \/ ~(k > Verify)
    BY <1>3, <1>7 DEF MessagesInv, TurnInv
  <2> QED
    BY <1>7, <2>1 DEF OnWire, units
<1>9. TurnInv'
  <2>1. completion' => k = Verify /\ Verify # 0 /\ ~encrypted
    <3>1. completion' => k = Verify
      BY <1>1, Zenon
    <3>2. k = Verify => Verify # 0 /\ ~(k > Verify)
      BY <1>3
    <3> QED
      BY <1>7, <3>1, <3>2, Zenon
  <2>2. ~encrypted /\ ~completion' => Verify = 0 \/ k < Verify
    <3>1. ~completion' => k # Verify
      BY <1>1, Zenon
    <3>2. ~encrypted => Verify = 0 \/ handled < Verify
      BY <1>7 DEF MessagesInv, TurnInv
    <3>3. handled < Verify /\ k # Verify => k < Verify
      BY <1>3
    <3> QED
      BY <3>1, <3>2, <3>3, Zenon
  <2>3. encrypted => Verify # 0 /\ k >= Verify
    BY <1>3, <1>7
  <2>4. ~encrypted => partial = <<>> /\ buffered = <<>> /\ IsClear(inbox) /\ sending = <<>>
    BY <1>7 DEF MessagesInv, TurnInv
  <2>5. IsClear(inbox)' <=> IsClear(inbox)
    BY <1>1 DEF IsClear
  <2> QED
    BY <1>1, <2>1, <2>2, <2>3, <2>4, <2>5, Zenon DEF TurnInv
<1>10. BackInv'
  <2>1. CASE left
    <3>1. outbox' = <<>> /\ left' /\ state' # "ReadingRequest"
      BY <1>1, <2>1 DEF MessagesInv, BackInv
    <3>2. Len(<<>>) = 0 /\ Len(response') <= 2
      <4>1. Len(<<>>) = 0
        BY EmptySeq
      <4> QED
        BY <1>1, <1>4, <4>1, SMTT(60)
    <3> QED
      BY <3>1, <3>2, Zenon DEF BackInv
  <2>2. CASE ~left
    <3>1. /\ outbox \in Units /\ got \in Nat /\ AllResponses \in Units
          /\ written = <<>> /\ response = <<>>
      BY <1>1, ResponsesAre DEF MessagesInv, StreamTypes, BackInv
    <3>2. outbox = Between(AllResponses, got, Answers(handled)) /\ got <= Answers(handled)
      <4>1. (outbox \o <<>>) \o <<>> = outbox
        BY <3>1, JoinsNothing
      <4>2. (outbox \o written) \o Unsent(response) = (outbox \o <<>>) \o <<>>
        BY <3>1 DEF Unsent
      <4> QED
        BY <2>2, <4>1, <4>2 DEF MessagesInv, BackInv
    <3>3. /\ Answers(handled) \in Nat /\ Answers(k) \in Nat /\ Answers(k) <= Len(AllResponses)
          /\ Answers(handled) <= Answers(k) /\ Between(AllResponses, Answers(handled), Answers(k)) = OnWire(k)
      <4>1. /\ Answers(handled) \in Nat /\ Answers(k) \in Nat /\ Answers(k) <= Len(AllResponses)
        BY <1>3, ResponsesAre
      <4>2. Answers(handled) < Answers(k)
        BY <1>3, AnswersGrow
      <4>3. Between(AllResponses, Answers(k - 1), Answers(k)) = OnWire(k)
        BY <1>3, ResponsesAre
      <4> QED
        BY <1>3, <4>1, <4>2, <4>3
    <3>4. outbox \o OnWire(k) = Between(AllResponses, got, Answers(k))
      <4> DEFINE p == Answers(handled)
                 m == Answers(k)
      <4>1. /\ p \in Nat /\ m \in Nat /\ m <= Len(AllResponses) /\ got <= p /\ p <= m
            /\ AllResponses \in Seq(UnitType) /\ got \in Nat
        BY <3>1, <3>2, <3>3 DEF Units
      <4>2. outbox = Between(AllResponses, got, p) /\ Between(AllResponses, p, m) = OnWire(k)
        BY <3>2, <3>3
      <4> HIDE DEF p, m
      <4>3. Between(AllResponses, got, p) \o Between(AllResponses, p, m) = Between(AllResponses, got, m)
        BY <4>1, BetweenGrows
      <4> QED
        BY <4>2, <4>3 DEF m
    <3>5. (outbox \o written') \o Unsent(response') = outbox \o OnWire(k)
      <4>1. CASE encrypted
        <5>1. outbox \o <<>> = outbox /\ Unsent(units) = Frames(units)
          BY <1>4, <3>1, JoinsNothing DEF Unsent
        <5> QED
          BY <1>1, <1>8, <4>1, <5>1
      <4>2. CASE ~encrypted
        <5>1. Unsent(<<>>) = <<>> /\ (outbox \o units) \o <<>> = outbox \o units
          BY <1>4, <3>1, Joins, JoinsNothing DEF Unsent
        <5> QED
          BY <1>1, <1>8, <4>2, <5>1
      <4> QED
        BY <4>1, <4>2
    <3>6. got <= Answers(k) /\ Len(response') <= 2
      <4>1. Len(<<>>) = 0
        BY EmptySeq
      <4>2. Len(response') <= 2
        BY <1>1, <1>4, <4>1, SMTT(60)
      <4> QED
        BY <3>1, <3>2, <3>3, <4>2
    <3>7. /\ Answers(handled)' = Answers(k)
          /\ ((outbox \o written) \o Unsent(response))' = (outbox \o written') \o Unsent(response')
      BY <1>1 DEF Answers, Unsent
    <3> QED
      BY <1>1, <2>2, <3>4, <3>5, <3>6, <3>7 DEF BackInv
  <2> QED
    BY <2>1, <2>2
<1> QED
  BY <1>1, <1>5, <1>6, <1>9, <1>10, HeaderStays DEF MessagesInv

\* What the transport encrypts of a response and the rest of it are framed as the whole.
LEMMA FramesCut ==
  ASSUME NEW s \in Units, s # <<>>, Len(s) <= 2
  PROVE  /\ Frame(First(s, WriteMax)) \in Units
         /\ After(s, WriteMax) \in Units /\ Len(After(s, WriteMax)) <= 2
         /\ Frames(s) = Frame(First(s, WriteMax)) \o Unsent(After(s, WriteMax))
<1> DEFINE a == First(s, WriteMax)
           b == After(s, WriteMax)
<1>1. Len(s) \in Nat /\ WriteMax \in Nat /\ WriteMax > 0 /\ Len(s) # 0
  <2>1. Len(s) \in Nat \ {0}
    BY EmptySeq DEF Units
  <2> QED
    BY <2>1, SizesAssumption
<1>2. a \in Units /\ b \in Units /\ a \o b = s
  BY <1>1, CutsUnits
<1>3. Len(b) = IF WriteMax <= Len(s) THEN Len(s) - WriteMax ELSE 0
  BY <1>1, CutParts DEF Units
<1>4. Len(b) <= 2
  <2> HIDE DEF b
  <2> QED
    BY <1>1, <1>3
<1>5. Frame(a) \in Units
  BY <1>2, FrameIs
<1>6. CASE Len(s) <= WriteMax
  <2>1. Len(b) = 0
    <3> HIDE DEF b
    <3> QED
      BY <1>1, <1>3, <1>6
  <2>2. b = <<>>
    BY <1>2, <2>1, EmptySeq DEF Units
  <2>3. a = s
    <3> HIDE DEF a, b
    <3> QED
      BY <1>2, <2>2, JoinsNothing
  <2>4. Unsent(b) = <<>> /\ Frames(s) = Frame(a)
    BY <1>6, <2>2, <2>3 DEF Unsent, Frames
  <2> HIDE DEF a, b
  <2>5. Frame(a) \o <<>> = Frame(a)
    BY <1>5, JoinsNothing
  <2> QED
    BY <1>2, <1>4, <1>5, <2>4, <2>5 DEF a, b
<1>7. CASE ~(Len(s) <= WriteMax)
  <2>1. WriteMax <= Len(s) /\ Len(b) = 1
    <3>1. \A x, y \in Nat : y > 0 /\ x <= 2 /\ ~(x <= y) => y = 1 /\ x = 2
      OBVIOUS
    <3>2. WriteMax = 1 /\ Len(s) = 2
      BY <1>1, <1>7, <3>1, Zenon
    <3> HIDE DEF b
    <3> QED
      BY <1>3, <3>2
  <2>2. a = SubSeq(s, 1, WriteMax)
    BY <1>1, <2>1, FirstIs
  <2>3. b = SubSeq(s, WriteMax + 1, Len(s))
    BY DEF After
  <2>4. Frames(s) = Frame(a) \o Frame(b)
    BY <1>7, <2>2, <2>3 DEF Frames
  <2>5. b # <<>>
    <3>1. Len(<<>>) = 0
      BY EmptySeq
    <3> HIDE DEF b
    <3> QED
      BY <2>1, <3>1
  <2> HIDE DEF a, b
  <2>6. Unsent(b) = Frame(b)
    BY <1>1, <2>1, <2>5 DEF Unsent, Frames
  <2> QED
    BY <1>2, <1>4, <1>5, <2>4, <2>6 DEF a, b
<1> QED
  BY <1>6, <1>7

\* _NetTransportWriteV, SocketWriteData and the end of a response.
LEMMA EncryptKeeps ==
  ASSUME MessagesInv, Encrypt
  PROVE  MessagesInv'
<1> DEFINE f == Frame(First(response, WriteMax))
           rest == After(response, WriteMax)
<1>1. /\ state = "WritingResponse" /\ written = <<>> /\ response # <<>>
      /\ written' = f /\ response' = rest
      /\ UNCHANGED <<asked, sending, got, left, inbox, outbox, encrypted, partial, buffered, header,
                     headerRead, extra, body, state, completion, handled>>
  BY DEF Encrypt, Writes, client, reading
<1>2. response \in Units /\ outbox \in Units /\ Len(response) <= 2
  BY DEF MessagesInv, StreamTypes, BackInv
<1>3. /\ f \in Units /\ rest \in Units /\ Len(rest) <= 2
      /\ Frames(response) = f \o Unsent(rest)
  BY <1>1, <1>2, FramesCut
<1> HIDE DEF f, rest
<1>4. StreamTypes'
  BY <1>1, <1>3 DEF MessagesInv, StreamTypes
<1>5. (outbox \o written) \o Unsent(response) = (outbox \o f) \o Unsent(rest)
  <2>1. outbox \o <<>> = outbox
    BY <1>2, JoinsNothing
  <2>2. Unsent(response) = f \o Unsent(rest)
    BY <1>1, <1>3 DEF Unsent
  <2>3. Unsent(rest) \in Units
    BY <1>3, UnsentIs
  <2>4. outbox \o (f \o Unsent(rest)) = (outbox \o f) \o Unsent(rest)
    BY <1>2, <1>3, <2>3, Associates, ZenonT(60)
  <2> QED
    BY <1>1, <2>1, <2>2, <2>4
<1>6. BackInv'
  <2>1. /\ ((outbox \o written) \o Unsent(response))' = (outbox \o f) \o Unsent(rest)
        /\ Answers(handled)' = Answers(handled)
    BY <1>1 DEF Unsent, Answers
  <2>2. left => outbox' = <<>>
    BY <1>1 DEF MessagesInv, BackInv
  <2>3. ~left => /\ got' <= Answers(handled)'
                 /\ ((outbox \o written) \o Unsent(response))'
                      = Between(AllResponses, got', Answers(handled)')
    BY <1>1, <1>5, <2>1 DEF MessagesInv, BackInv
  <2> QED
    BY <1>1, <1>3, <2>2, <2>3 DEF BackInv
<1>7. FlowInv'
  BY <1>1, InMessageStays, ComingStays, FlowStays DEF MessagesInv
<1> QED
  BY <1>1, <1>4, <1>6, <1>7, HeaderStays, TurnStays DEF MessagesInv

LEMMA FlushKeeps ==
  ASSUME MessagesInv, Flush
  PROVE  MessagesInv'
<1> DEFINE room == SendBuffer - Len(outbox)
           a == First(written, room)
           b == After(written, room)
<1>1. /\ state = "WritingResponse" /\ ~left /\ written # <<>>
      /\ outbox' = outbox \o a /\ written' = b
      /\ UNCHANGED <<asked, sending, got, left, inbox, encrypted, partial, buffered, header,
                     headerRead, extra, body, state, response, completion, handled>>
  BY DEF Flush, Writes, Unwritten, client, reading
<1>2. response \in Units /\ outbox \in Units /\ written \in Units
  BY DEF MessagesInv, StreamTypes
<1>3. Len(outbox) \in Nat /\ SendBuffer \in Nat /\ Len(written) \in Nat /\ room \in Nat
  <2>1. Len(outbox) \in Nat /\ Len(written) \in Nat /\ SendBuffer \in Nat
    BY <1>2, LenProperties, SizesAssumption DEF Units
  <2>2. Len(outbox) <= SendBuffer
    BY DEF MessagesInv, StreamTypes
  <2> QED
    BY <2>1, <2>2
<1>4. /\ a \in Units /\ b \in Units /\ a \o b = written
      /\ Len(a) = IF room <= Len(written) THEN room ELSE Len(written)
  <2> HIDE DEF room
  <2>1. a \in Units /\ b \in Units /\ a \o b = written
    BY <1>2, <1>3, CutsUnits
  <2>2. Len(a) = IF room <= Len(written) THEN room ELSE Len(written)
    BY <1>2, <1>3, CutParts DEF Units
  <2> QED
    BY <2>1, <2>2
<1> HIDE DEF a, b
<1>5. outbox \o a \in Units /\ Len(outbox \o a) <= SendBuffer
  <2>1. outbox \o a \in Units /\ Len(outbox \o a) = Len(outbox) + Len(a) /\ Len(a) \in Nat
    BY <1>2, <1>4, ConcatProperties, LenProperties DEF Units
  <2>2. Len(a) <= room
    <3> HIDE DEF room
    <3> QED
      BY <1>3, <1>4
  <2> QED
    BY <1>3, <2>1, <2>2
<1>6. StreamTypes'
  BY <1>1, <1>4, <1>5 DEF MessagesInv, StreamTypes
<1>7. (outbox \o a) \o b = outbox \o written
  <2>1. (outbox \o a) \o b = outbox \o (a \o b)
    BY <1>2, <1>4, Associates, ZenonT(60)
  <2> QED
    BY <1>4, <2>1
<1>8. BackInv'
  <2>1. /\ ((outbox \o written) \o Unsent(response))' = (outbox \o written) \o Unsent(response)
        /\ Answers(handled)' = Answers(handled)
    BY <1>1, <1>7 DEF Unsent, Answers
  <2> QED
    BY <1>1, <2>1 DEF MessagesInv, BackInv
<1>9. FlowInv'
  BY <1>1, InMessageStays, ComingStays, FlowStays DEF MessagesInv
<1> QED
  BY <1>1, <1>6, <1>8, <1>9, HeaderStays, TurnStays DEF MessagesInv

LEMMA ResponseWrittenKeeps ==
  ASSUME MessagesInv, ResponseWritten
  PROVE  MessagesInv'
<1>1. /\ state = "WritingResponse" /\ written = <<>> /\ response = <<>>
      /\ encrypted' = (encrypted \/ completion) /\ completion' = FALSE
      /\ UNCHANGED <<asked, sending, got, left, inbox, outbox, partial, buffered, response, written,
                     handled>>
  BY DEF ResponseWritten, Writes, client
<1>2. \/ /\ state' = "ReadingRequest" /\ header' = <<>> /\ headerRead' = FALSE /\ body' = <<>>
         /\ extra' = extra
      \/ UNCHANGED <<state, header, headerRead, body, extra>>
  BY DEF ResponseWritten, Kept
<1>3. StreamTypes'
  BY <1>1, <1>2, JoinsNothing DEF MessagesInv, StreamTypes
<1>4. FlowInv'
  <2>1. InMessage = <<>>
    BY <1>1 DEF InMessage
  <2>2. InMessage' = <<>>
    <3>1. <<>> \o <<>> = <<>>
      BY JoinsNothing
    <3> QED
      BY <1>1, <1>2, <3>1 DEF InMessage
  <2>3. extra' = extra
    BY <1>2
  <2> QED
    BY <1>1, <2>1, <2>2, <2>3, ComingStays, FlowStays DEF MessagesInv
<1>5. HeaderInv'
  <2>1. CASE UNCHANGED <<state, header, headerRead, body, extra>>
    BY <2>1, HeaderStays DEF MessagesInv
  <2>2. CASE headerRead' = FALSE /\ body' = <<>>
    BY <2>2 DEF HeaderInv
  <2> QED
    BY <1>2, <2>1, <2>2
<1>6. BackInv'
  <2>1. Unsent(response)' = Unsent(response) /\ Answers(handled)' = Answers(handled)
    BY <1>1 DEF Unsent, Answers
  <2> QED
    BY <1>1, <2>1 DEF MessagesInv, BackInv
<1>7. TurnInv'
  <2>1. encrypted \in BOOLEAN /\ completion \in BOOLEAN /\ handled \in Nat /\ Verify \in Nat
    BY RequestsAssumption DEF MessagesInv, StreamTypes
  <2>2. encrypted \/ completion => Verify # 0 /\ handled >= Verify
    BY <2>1 DEF MessagesInv, TurnInv
  <2>3. ~encrypted /\ ~completion => /\ Verify = 0 \/ handled < Verify
                                     /\ IsClear(inbox) /\ sending = <<>>
    BY DEF MessagesInv, TurnInv
  <2>4. ~encrypted => partial = <<>> /\ buffered = <<>>
    BY DEF MessagesInv, TurnInv
  <2>5. IsClear(inbox)' <=> IsClear(inbox)
    BY <1>1 DEF IsClear
  <2> QED
    BY <1>1, <2>2, <2>3, <2>4, <2>5, Zenon DEF TurnInv
<1> QED
  BY <1>3, <1>4, <1>5, <1>6, <1>7 DEF MessagesInv

\* The invariant holds, of the initial states and after every step.
LEMMA MessagesInit == CnxInit => MessagesInv
<1> SUFFICES ASSUME CnxInit PROVE MessagesInv
  OBVIOUS
<1>1. <<>> \in Units /\ Len(<<>>) = 0 /\ \A a \in Units : <<>> \o a = a /\ a \o <<>> = a
  BY JoinsNothing, EmptySeq
<1>2. /\ asked = 0 /\ got = 0 /\ handled = 0 /\ ~left /\ state = "ReadingRequest"
      /\ sending = <<>> /\ inbox = <<>> /\ outbox = <<>> /\ partial = <<>> /\ buffered = <<>>
      /\ header = <<>> /\ extra = <<>> /\ body = <<>> /\ response = <<>> /\ written = <<>>
      /\ ~headerRead /\ ~encrypted /\ ~completion
  BY DEF CnxInit
<1>3. /\ Asks(0) = 0 /\ Answers(0) = 0 /\ Len(AllRequests) \in Nat /\ Len(AllResponses) \in Nat
      /\ Requests \in Nat /\ Verify \in Nat /\ SendBuffer \in Nat
  BY RequestsAre, ResponsesAre, RequestsTypes, LenProperties, RequestsAssumption, SizesAssumption
  DEF Units
<1>4. StreamTypes
  <2>1. /\ left \in BOOLEAN /\ encrypted \in BOOLEAN /\ headerRead \in BOOLEAN
        /\ completion \in BOOLEAN
    BY DEF CnxInit
  <2>2. 0 \in 0 .. Len(AllRequests) /\ 0 \in 0 .. Len(AllResponses) /\ 0 \in 0 .. Requests
    BY <1>3
  <2> QED
    BY <1>1, <1>2, <1>3, <2>1, <2>2 DEF StreamTypes
<1>5. FlowInv
  <2>1. Decrypted[<<>>] = <<>>
    BY <1>1, ClearDecrypted DEF IsClear
  <2>2. <<>> \o <<>> = <<>>
    BY <1>1
  <2>3. (InMessage \o extra) \o Coming = <<>>
    BY <1>2, <2>1, <2>2 DEF InMessage, Coming
  <2>4. Between(AllRequests, 0, 0) = <<>>
    BY BetweenNothing
  <2>5. Asks(handled) = 0 /\ 0 <= 0
    BY <1>2, <1>3
  <2>6. Between(AllRequests, Asks(handled), asked) = <<>>
    BY <1>2, <2>4, <2>5
  <2> QED
    BY <1>2, <2>3, <2>5, <2>6 DEF FlowInv
<1>6. HeaderInv
  BY <1>2 DEF HeaderInv
<1>7. BackInv
  <2>1. (outbox \o written) \o Unsent(response) = <<>>
    BY <1>1, <1>2 DEF Unsent
  <2>2. Between(AllResponses, 0, 0) = <<>>
    BY BetweenNothing
  <2> QED
    BY <1>1, <1>2, <1>3, <2>1, <2>2 DEF BackInv
<1>8. TurnInv
  <2>1. IsClear(<<>>)
    BY <1>1 DEF IsClear
  <2>2. Verify = 0 \/ 0 < Verify
    BY <1>3
  <2> QED
    BY <1>2, <2>1, <2>2 DEF TurnInv
<1> QED
  BY <1>4, <1>5, <1>6, <1>7, <1>8 DEF MessagesInv

LEMMA MessagesNext == MessagesInv /\ [CnxNext]_cnxVars => MessagesInv'
<1> SUFFICES ASSUME MessagesInv, [CnxNext]_cnxVars PROVE MessagesInv'
  OBVIOUS
<1>1. CASE ClientStep
  BY <1>1, SendPlainKeeps, BeginFrameKeeps, SendFrameKeeps, ReceiveKeeps, LeaveKeeps DEF ClientStep
<1>2. CASE ReadHandler
  BY <1>2, MessagesStay DEF ReadHandler
<1>3. CASE WriteHandler
  BY <1>3, MessagesStay DEF WriteHandler
<1>4. CASE ReadHeader \/ ReadBody \/ HandleRequest
  BY <1>4, ReadHeaderKeeps, ReadBodyKeeps, HandleRequestKeeps
<1>5. CASE HandleFails
  BY <1>5, MessagesStay DEF HandleFails
<1>6. CASE Encrypt \/ Flush \/ ResponseWritten
  BY <1>6, EncryptKeeps, FlushKeeps, ResponseWrittenKeeps
<1>7. CASE WriteFails
  BY <1>7, MessagesStay DEF WriteFails
<1>8. CASE ServerCloses
  BY <1>8, MessagesStay DEF ServerCloses
<1>9. CASE CancelHandler
  BY <1>9, MessagesStay DEF CancelHandler
<1>10. CASE UNCHANGED cnxVars
  BY <1>10, MessagesStay DEF cnxVars
<1> QED
  BY <1>1, <1>2, <1>3, <1>4, <1>5, <1>6, <1>7, <1>8, <1>9, <1>10 DEF CnxNext, StateMachine

\* What is given to handleMessage_f is the next request, whole, and each request once.
THEOREM ConnectionHandledWhole == CnxSpec => []HandledWhole
<1>1. MessagesInv => HandledWhole
  BY RequestComplete DEF HandledWhole, Reads
<1> QED
  BY <1>1, MessagesInit, MessagesNext, PTL DEF CnxSpec

\* What the client gets is the next of the responses, framed from the last pair-verify
\* on, for any sizes of the frames and of the socket.
THEOREM ConnectionAnsweredInOrder == CnxSpec => []AnsweredInOrder
<1>1. ASSUME MessagesInv PROVE AnsweredInOrder
  <2> DEFINE upto == Answers(handled)
             unsent == Unsent(response)
  <2>1. /\ got \in Nat /\ upto \in Nat /\ upto <= Len(AllResponses) /\ AllResponses \in Units
        /\ outbox \in Units /\ written \in Units /\ unsent \in Units /\ Len(outbox) \in Nat
    BY <1>1, ResponsesAre, UnsentIs, LenProperties DEF MessagesInv, StreamTypes, Units
  <2>2. CASE left
    <3>1. outbox = <<>> /\ Len(<<>>) = 0
      BY <1>1, <2>2, EmptySeq DEF MessagesInv, BackInv
    <3>2. got + 0 = got /\ Between(AllResponses, got, got) = <<>>
      BY <2>1, BetweenNothing
    <3> QED
      BY <3>1, <3>2 DEF AnsweredInOrder, Between
  <2>3. CASE ~left
    <3>1. got <= upto /\ (outbox \o written) \o unsent = Between(AllResponses, got, upto)
      BY <1>1, <2>3 DEF MessagesInv, BackInv
    <3> HIDE DEF upto, unsent
    <3>2. outbox \o (written \o unsent) = (outbox \o written) \o unsent
      BY <2>1, Associates, ZenonT(60)
    <3>3. Joined(AllResponses, got, upto, outbox, written \o unsent) /\ written \o unsent \in Units
      BY <2>1, <3>1, <3>2, Joins DEF Joined
    <3>4. \E r \in Nat : r = got + Len(outbox) /\ outbox = Between(AllResponses, got, r)
      BY <2>1, <3>1, <3>3, CutUnitsAt
    <3> QED
      BY <3>4 DEF AnsweredInOrder, Between
  <2> QED
    BY <2>2, <2>3
<1> QED
  BY <1>1, MessagesInit, MessagesNext, PTL DEF CnxSpec

-------------------------------------------------------------------------------
(* The types. *)

RunTypes == running \in BOOLEAN /\ readSuspended \in BOOLEAN /\ writeSuspended \in BOOLEAN

\* The flags stay flags.
LEMMA RunNext == RunTypes /\ [CnxNext]_cnxVars => RunTypes'
<1> SUFFICES ASSUME RunTypes, [CnxNext]_cnxVars PROVE RunTypes'
  OBVIOUS
<1>1. CASE UNCHANGED <<running, readSuspended, writeSuspended>>
  BY <1>1 DEF RunTypes
<1>2. CASE Closed \/ WaitsToRead \/ WaitsToWrite \/ GoesOn
  BY <1>2 DEF Closed, WaitsToRead, WaitsToWrite, GoesOn, life, RunTypes
<1>3. CASE ReadHandler
  BY <1>3 DEF ReadHandler, RunTypes
<1>4. CASE WriteHandler
  BY <1>4 DEF WriteHandler, RunTypes
<1>5. CASE ResponseWritten
  BY <1>5 DEF ResponseWritten, RunTypes
<1>6. CASE ClientStep
  BY <1>1, <1>6 DEF ClientStep, SendPlain, BeginFrame, SendFrame, Receive, Leave, server, life
<1>7. CASE ReadHeader \/ ReadBody
  BY <1>2, <1>7 DEF ReadHeader, ReadBody
<1>8. CASE HandleRequest \/ Encrypt \/ CancelHandler
  BY <1>1, <1>8 DEF HandleRequest, Encrypt, CancelHandler, life
<1>9. CASE HandleFails \/ Flush \/ WriteFails \/ ServerCloses
  BY <1>2, <1>9 DEF HandleFails, Flush, WriteFails, ServerCloses
<1>10. CASE UNCHANGED cnxVars
  BY <1>1, <1>10 DEF cnxVars, life
<1> QED
  BY <1>3, <1>4, <1>5, <1>6, <1>7, <1>8, <1>9, <1>10 DEF CnxNext, StateMachine

\* Every variable of a connection stays in its type, and the references in their bounds.
THEOREM ConnectionTypesHold == CnxSpec => []CnxTypeOK
<1>1. CnxInit => RunTypes
  BY DEF CnxInit, RunTypes
<1>2. ASSUME MessagesInv, RefsInv, RunTypes PROVE CnxTypeOK
  <2>1. cancels \in 0 .. 2 /\ refs \in 0 .. 4 /\ stopped \in BOOLEAN
    BY <1>2 DEF RefsInv, HoldsOfSources, HoldsOfCompletion
  <2> QED
    BY <1>2, <2>1 DEF MessagesInv, StreamTypes, RunTypes, CnxTypeOK
<1> QED
  BY <1>1, <1>2, MessagesInit, MessagesNext, RefsInit, RefsNext, RunNext, PTL DEF CnxSpec
===============================================================================
