------------------------- MODULE GeneralAudioProofs -------------------------
(***************************************************************************)
(* Theorems of GeneralAudio, for every value of its constants: the types   *)
(* of its variables, the conservation of the buffer nodes and the order of *)
(* the busy list; and, of streams whose sequence numbers or timestamps do  *)
(* not come round, the conservation of the retransmit nodes, the           *)
(* duplicate window, what a flush leaves behind, and that nothing queued   *)
(* is asked for.                                                           *)
(***************************************************************************)
EXTENDS MCGeneralAudio, ModArithProofs, SequenceTheorems, FiniteSetTheorems, TLAPS

\* The inductive invariant: types, and the node count, without which the free
\* and busy counters could not be shown to stay natural numbers.
IInv == TypeOK /\ NodesConserved

LEMMA ConstTypes ==
    /\ SeqMod \in Nat \ {0} /\ TSMod \in Nat \ {0} /\ DupWindow \in Nat \ {0}
    /\ NodeCount \in Nat \ {0} /\ RTCount \in Nat \ {0}
    /\ Units \in Nat /\ 2 * Units <= TSMod /\ Latency \in Nat
    /\ ReadUnits \in Nat \ {0} /\ FlushWindow \in Nat /\ FirstRead \in Times
  BY GAModuli, GAWindow, GALimits, PlayoutSizes DEF Times

\* Sets of sequence numbers are finite, so their cardinality is a number.
LEMMA SeqsFinite ==
    ASSUME NEW S \in SUBSET Seqs
    PROVE  IsFiniteSet(S) /\ Cardinality(S) \in Nat
  <1>1. IsFiniteSet(Seqs)
    BY ConstTypes, FS_Interval DEF Seqs
  <1>. QED BY <1>1, FS_Subset, FS_CardinalityType

LEMMA ResidueTypes ==
    ASSUME NEW a \in Int
    PROVE  a % SeqMod \in Seqs /\ a % TSMod \in Times
  BY ConstTypes, ModRange DEF Seqs, Times
----------------------------------------------------------------------------
(* The retransmit lists *)

LEMMA AbortAllType ==
    ASSUME NEW r, RTType(r)
    PROVE  RTType(AbortAll(r))
  BY SeqsFinite DEF RTType, AbortAll

LEMMA KeepRequestsType ==
    ASSUME NEW r, RTType(r), NEW keep
    PROVE  RTType(KeepRequests(r, keep))
  <1>1. Cardinality(DOMAIN r.busy \ keep) \in Nat
    BY SeqsFinite DEF RTType
  <1>. QED BY <1>1 DEF RTType, KeepRequests

LEMMA ScheduleType ==
    ASSUME NEW r, RTType(r), NEW first \in Seqs, NEW count \in Nat
    PROVE  RTType(Schedule(r, first, count))
  <1>. DEFINE n == MinOf(count, r.free)
             new == {(first + i) % SeqMod : i \in 0 .. n - 1}
  <1>1. n \in Nat /\ n <= r.free
    BY DEF MinOf, RTType
  <1>2. new \subseteq Seqs
    BY <1>1, ResidueTypes DEF Seqs
  <1>3. [tries |-> 0, due |-> TRUE] \in Request
    BY DEF Request
  <1>. HIDE DEF n, new
  <1>4. Schedule(r, first, count) =
          [busy |-> [s \in DOMAIN r.busy \cup new |->
                        IF s \in new THEN [tries |-> 0, due |-> TRUE] ELSE r.busy[s]],
           free |-> r.free - n]
    BY DEF Schedule, n, new
  <1>. QED BY <1>1, <1>2, <1>3, <1>4 DEF RTType

LEMMA MarkSentType ==
    ASSUME NEW r, RTType(r)
    PROVE  RTType(MarkSent(r))
  <1>1. ASSUME NEW s \in DOMAIN r.busy
        PROVE  [tries |-> MinOf(2, r.busy[s].tries + 1), due |-> FALSE] \in Request
    BY DEF MinOf, Request, RTType
  <1>. QED BY <1>1 DEF RTType, MarkSent
----------------------------------------------------------------------------
(* Taking a node and queueing or dropping the packet *)

LEMMA TakeNode ==
    ASSUME IInv, up, freeNodes > 0 \/ busy # <<>>
    PROVE  /\ Unstolen \in Seq(Node) /\ Len(Unstolen) \in Nat
           /\ FreeAfterTake \in Nat
           /\ FreeAfterTake + Len(Unstolen) = NodeCount - 1
           /\ CountAfterTake = Len(Unstolen)
  <1>1. busy \in Seq(Node) /\ Len(busy) \in Nat /\ freeNodes \in Nat
        /\ freeNodes + Len(busy) = NodeCount /\ busyNodeCount = Len(busy)
    BY LenProperties DEF IInv, TypeOK, NodesConserved
  <1>2. CASE freeNodes > 0
    BY <1>1, <1>2, ConstTypes DEF Unstolen, FreeAfterTake, CountAfterTake
  <1>3. CASE ~(freeNodes > 0)
    <2>1. busy # <<>>
      BY <1>3
    <2>2. Tail(busy) \in Seq(Node) /\ Len(Tail(busy)) = Len(busy) - 1
      BY <1>1, <2>1, HeadTailProperties
    <2>3. Len(busy) > 0
      BY <1>1, <2>1, EmptySeq
    <2>4. freeNodes = 0 /\ Unstolen = Tail(busy) /\ FreeAfterTake = 0
          /\ CountAfterTake = busyNodeCount - 1
      BY <1>1, <1>3 DEF Unstolen, FreeAfterTake, CountAfterTake
    <2>. HIDE DEF Unstolen, FreeAfterTake, CountAfterTake
    <2>. QED BY <1>1, <2>2, <2>3, <2>4, ConstTypes
  <1>. QED BY <1>2, <1>3

\* What the invariant says of the node lists after a step that keeps the stream up.
NodesOK == /\ freeNodes \in Nat /\ busyNodeCount \in Nat /\ busy \in Seq(Node)
           /\ busyNodeCount = Len(busy)
           /\ freeNodes + Len(busy) = NodeCount

LEMMA DropPacketOK ==
    ASSUME IInv, up, freeNodes > 0 \/ busy # <<>>, DropPacket
    PROVE  NodesOK'
  BY TakeNode, LenProperties, ConstTypes DEF DropPacket, NodesOK

LEMMA QueuePacketOK ==
    ASSUME IInv, up, freeNodes > 0 \/ busy # <<>>,
           NEW seq \in Seqs, NEW ts \in Times, NEW size \in 0 .. Units,
           QueuePacket(seq, ts, size)
    PROVE  NodesOK'
  <1>. DEFINE node == [seq |-> seq, hdr |-> ts, ts |-> ts, skip |-> 0, size |-> size]
              q == Unstolen
  <1>1. q \in Seq(Node) /\ Len(q) \in Nat /\ FreeAfterTake \in Nat
        /\ FreeAfterTake + Len(q) = NodeCount - 1 /\ CountAfterTake = Len(q)
    BY TakeNode
  <1>2. node \in Node
    BY DEF Node
  <1>. HIDE DEF node, q
  <1>3. PICK k \in 0 .. Len(q) :
            busy' = SubSeq(q, 1, k) \o <<node>> \o SubSeq(q, k + 1, Len(q))
    BY DEF QueuePacket, node, q
  <1>4. /\ SubSeq(q, 1, k) \in Seq(Node)
        /\ Len(SubSeq(q, 1, k)) = k
    <2>1. \A i \in 1 .. k : q[i] \in Node
      BY <1>1, ElementOfSeq
    <2>2. SubSeq(q, 1, k) \in Seq(Node)
          /\ Len(SubSeq(q, 1, k)) = IF 1 <= k THEN k - 1 + 1 ELSE 0
      BY <2>1, SubSeqProperties
    <2>. QED BY <2>2, <1>1
  <1>5. /\ SubSeq(q, k + 1, Len(q)) \in Seq(Node)
        /\ Len(SubSeq(q, k + 1, Len(q))) = Len(q) - k
    <2>1. \A i \in k + 1 .. Len(q) : q[i] \in Node
      BY <1>1, ElementOfSeq
    <2>2. SubSeq(q, k + 1, Len(q)) \in Seq(Node)
          /\ Len(SubSeq(q, k + 1, Len(q))) = IF k + 1 <= Len(q) THEN Len(q) - (k + 1) + 1 ELSE 0
      BY <2>1, <1>1, SubSeqProperties
    <2>. QED BY <2>2, <1>1
  <1>6. <<node>> \in Seq(Node) /\ Len(<<node>>) = 1
    BY <1>2
  <1>7. busy' \in Seq(Node) /\ Len(busy') = Len(q) + 1
    <2>. DEFINE front == SubSeq(q, 1, k) \o <<node>>
                back == SubSeq(q, k + 1, Len(q))
    <2>1. front \in Seq(Node) /\ Len(front) = k + 1
      BY <1>4, <1>6, ConcatProperties
    <2>2. back \in Seq(Node) /\ Len(back) = Len(q) - k
      BY <1>5
    <2>3. busy' = front \o back
      BY <1>3
    <2>. HIDE DEF front, back
    <2>4. busy' \in Seq(Node) /\ Len(busy') = Len(front) + Len(back)
      BY <2>1, <2>2, <2>3, ConcatProperties
    <2>. QED BY <1>1, <2>1, <2>2, <2>4
  <1>8. busyNodeCount' = Len(busy') /\ freeNodes' = FreeAfterTake
    BY <1>1, <1>7 DEF QueuePacket
  <1>. QED BY <1>1, <1>7, <1>8, ConstTypes DEF NodesOK

\* Freeing a prefix of the busy list moves exactly those nodes to the free list.
LEMMA FreePrefixOK ==
    ASSUME IInv, NEW k \in 0 .. Len(busy)
    PROVE  /\ SubSeq(busy, k + 1, Len(busy)) \in Seq(Node)
           /\ Len(SubSeq(busy, k + 1, Len(busy))) = Len(busy) - k
           /\ busyNodeCount - k = Len(busy) - k
           /\ busyNodeCount - k \in Nat /\ freeNodes + k \in Nat
           /\ up => (freeNodes + k) + (Len(busy) - k) = NodeCount
  <1>1. busy \in Seq(Node) /\ Len(busy) \in Nat /\ freeNodes \in Nat
        /\ busyNodeCount = Len(busy) /\ (up => freeNodes + Len(busy) = NodeCount)
    BY LenProperties DEF IInv, TypeOK, NodesConserved
  <1>2. \A i \in k + 1 .. Len(busy) : busy[i] \in Node
    BY <1>1, ElementOfSeq
  <1>3. SubSeq(busy, k + 1, Len(busy)) \in Seq(Node)
        /\ Len(SubSeq(busy, k + 1, Len(busy)))
             = IF k + 1 <= Len(busy) THEN Len(busy) - (k + 1) + 1 ELSE 0
    BY <1>1, <1>2, SubSeqProperties
  <1>. QED BY <1>1, <1>3, ConstTypes

\* What is left of a packet the window cuts is a shorter packet, not an empty one.
LEMMA CutAtType ==
    ASSUME NEW node \in Node, NEW lim \in Times,
           ModLT((node.ts + Latency) % TSMod, lim, TSMod),
           ModGT((((node.ts + Latency) % TSMod) + node.size) % TSMod, lim, TSMod)
    PROVE  CutAt(node, lim) \in Node
  <1>. DEFINE x == (node.ts + Latency) % TSMod
              cut == (lim - x) % TSMod
  <1>1. node.size \in 0 .. Units /\ node.ts \in Int /\ node.skip \in Nat /\ Latency \in Int
    BY ConstTypes DEF Node, Times
  <1>2. x \in Times
    <2>1. node.ts + Latency \in Int
      BY <1>1
    <2>. QED BY <2>1, ResidueTypes
  <1>3. cut \in Nat /\ cut < node.size
    <2>1. /\ TSMod \in Nat \ {0} /\ x \in 0 .. TSMod - 1 /\ lim \in 0 .. TSMod - 1
          /\ node.size \in Nat /\ 2 * node.size <= TSMod
      BY <1>1, <1>2, ConstTypes DEF Times
    <2>2. ModLT(x, lim, TSMod) /\ ModGT((x + node.size) % TSMod, lim, TSMod)
      OBVIOUS
    <2>. HIDE DEF x
    <2>. QED BY <2>1, <2>2, ModSpan
  <1>4. (node.ts + cut) % TSMod \in Times
    <2>1. node.ts + cut \in Int
      BY <1>1, <1>3
    <2>. QED BY <2>1, ResidueTypes
  <1>5. CutAt(node, lim) = [node EXCEPT !.ts = (node.ts + cut) % TSMod,
                                        !.skip = node.skip + cut,
                                        !.size = node.size - cut]
    BY DEF CutAt, Src, Node
  <1>. HIDE DEF x, cut
  <1>6. node.size - cut \in 0 .. Units /\ node.skip + cut \in Nat
    BY <1>1, <1>3, ConstTypes
  <1>. QED BY <1>4, <1>5, <1>6 DEF Node
----------------------------------------------------------------------------
(* Every step preserves the invariant *)

LEMMA InitOK == Init => IInv
  <1>. SUFFICES ASSUME Init PROVE IInv
    OBVIOUS
  <1>1. 0 \in Seqs /\ 0 \in Times
    BY ConstTypes DEF Seqs, Times
  <1>2. <<>> \in Seq(Node) /\ Len(<<>>) = 0
    BY EmptySeq
  <1>3. dups \in [init : BOOLEAN, last : Seqs, array : [0 .. DupWindow - 1 -> Seqs]]
    BY <1>1 DEF Init
  <1>4. RTType(rt)
    BY DEF Init, RTType
  <1>. QED BY <1>1, <1>2, <1>3, <1>4, ConstTypes DEF Init, IInv, TypeOK, NodesConserved

LEMMA SetupOK ==
    ASSUME IInv, NEW redundant \in BOOLEAN, Setup(redundant)
    PROVE  IInv'
  <1>1. <<>> \in Seq(Node) /\ Len(<<>>) = 0
    BY EmptySeq
  <1>2. dups' \in [init : BOOLEAN, last : Seqs, array : [0 .. DupWindow - 1 -> Seqs]]
    BY DEF IInv, TypeOK, Setup
  <1>3. RTType(rt')
    BY ConstTypes DEF IInv, TypeOK, Setup, RTType
  <1>4. 0 \in Times
    BY ConstTypes DEF Times
  <1>5. /\ up' = TRUE /\ freeNodes' = NodeCount /\ busyNodeCount' = 0 /\ busy' = <<>>
        /\ busyListSentinel' = TRUE /\ redundantAudio' = redundant
        /\ rtcpRTDisable' = redundant /\ sampleTimeOffset' = 0
        /\ sent' = 0 /\ asked' = {} /\ readTime' = FirstRead
        /\ UNCHANGED <<flushVars, receiveCount, lastRTPSeq, rtDangling, usedFreed,
                       lastPlayedValid>>
    BY DEF Setup
  <1>. QED BY <1>1, <1>2, <1>3, <1>4, <1>5, ConstTypes
           DEF IInv, TypeOK, NodesConserved, flushVars

LEMMA TearDownOK ==
    ASSUME IInv, TearDown
    PROVE  IInv'
  BY DEF IInv, TypeOK, NodesConserved, TearDown, nodeVars, playVars, envVars

LEMMA FlushOK ==
    ASSUME IInv, NEW ts \in Times, NEW seq \in Seqs, FlushAudio(ts, seq)
    PROVE  IInv'
  <1>1. PICK k \in 0 .. Len(busy) :
            /\ busy' = SubSeq(busy, k + 1, Len(busy))
            /\ freeNodes' = freeNodes + k
            /\ busyNodeCount' = busyNodeCount - k
    BY DEF FlushAudio
  <1>2. /\ flushing' = TRUE /\ flushUntilTS' = ts
        /\ flushTimeoutTS' = (ts + FlushWindow) % TSMod
        /\ lastPlayedValid' = FALSE /\ rtcpRTDisable' = redundantAudio /\ receiveCount' = 0
        /\ rt' = AbortAll(rt) /\ usedFreed' \in BOOLEAN
        /\ UNCHANGED <<streamVars, lastRTPSeq, dups, rtDangling, sampleTimeOffset,
                       envVars, asked>>
    BY DEF FlushAudio, IInv, TypeOK
  <1>3. /\ busy' \in Seq(Node) /\ freeNodes' \in Nat /\ busyNodeCount' \in Nat
        /\ busyNodeCount' = Len(busy')
        /\ up => freeNodes' + Len(busy') = NodeCount
    BY <1>1, FreePrefixOK
  <1>4. RTType(rt')
    BY <1>2, AbortAllType DEF IInv, TypeOK
  <1>5. flushTimeoutTS' \in Times
    <2>1. ts + FlushWindow \in Int
      BY ConstTypes DEF Times
    <2>. QED BY <1>2, <2>1, ResidueTypes
  <1>. QED BY <1>2, <1>3, <1>4, <1>5
           DEF IInv, TypeOK, NodesConserved, streamVars, envVars

LEMMA ReceiveNothingOK ==
    ASSUME IInv, ReceiveNothing
    PROVE  IInv'
  <1>1. NodesOK'
    BY DropPacketOK DEF ReceiveNothing
  <1>. QED BY <1>1 DEF ReceiveNothing, NodesOK, IInv, TypeOK, NodesConserved, streamVars,
                       flushVars, trackVars, rtVars, playVars, envVars

LEMMA ReceiveDupOK ==
    ASSUME IInv, NEW seq \in Seqs, ReceiveDup(seq), asked' \subseteq asked
    PROVE  IInv'
  <1>1. NodesOK'
    BY DropPacketOK DEF ReceiveDup
  <1>. QED BY <1>1 DEF ReceiveDup, NodesOK, IInv, TypeOK, NodesConserved, streamVars,
                       flushVars, trackVars, rtVars, playVars, envVars

LEMMA GapToType ==
    ASSUME IInv, NEW seq \in Seqs
    PROVE  GapTo(seq) \in Int /\ (lastRTPSeq + 1) % SeqMod \in Seqs
  <1>1. lastRTPSeq + 1 \in Int /\ seq \in Int
    BY DEF IInv, TypeOK, Seqs
  <1>2. (lastRTPSeq + 1) % SeqMod \in Seqs
    BY <1>1, ResidueTypes
  <1>3. (lastRTPSeq + 1) % SeqMod \in Int
    BY <1>2 DEF Seqs
  <1>. QED BY <1>1, <1>2, <1>3, ConstTypes, ModCmpRange DEF GapTo

LEMMA RequestsType ==
    ASSUME IInv, NEW seq \in Seqs
    PROVE  RTType(Requests(seq))
  <1>1. RTType(rt)
    BY DEF IInv, TypeOK
  <1>2. RTType(AbortAll(rt))
    BY <1>1, AbortAllType
  <1>3. ASSUME GapTo(seq) > 0
        PROVE  RTType(Schedule(rt, (lastRTPSeq + 1) % SeqMod, GapTo(seq)))
    <2>1. GapTo(seq) \in Nat /\ (lastRTPSeq + 1) % SeqMod \in Seqs
      BY <1>3, GapToType
    <2>. QED BY <1>1, <2>1, ScheduleType
  <1>4. GapTo(seq) \in Int
    BY GapToType
  <1>. QED BY <1>1, <1>2, <1>3, <1>4 DEF Requests

\* The conjuncts of the invariant that a received packet may disturb, besides
\* the node lists.
LEMMA ReceiveRTPOK ==
    ASSUME IInv, NEW seq \in Seqs, NEW ts \in Times, NEW size \in 0 .. Units,
           NEW isRetransmit \in BOOLEAN, ReceiveRTP(seq, ts, size, isRetransmit)
    PROVE  IInv'
  <1>. DEFINE lossy == IF isRetransmit THEN rt ELSE Requests(seq)
  <1>1. NodesOK'
    <2>1. up /\ (freeNodes > 0 \/ busy # <<>>)
          /\ (DropPacket \/ QueuePacket(seq, ts, size))
      BY DEF ReceiveRTP
    <2>. QED BY <2>1, DropPacketOK, QueuePacketOK
  <1>2. RTType(rt) /\ RTType(lossy)
    BY RequestsType DEF IInv, TypeOK
  <1>3. RTType(Complete(lossy, seq))
    BY <1>2, KeepRequestsType DEF Complete
  <1>4. RTType(MarkSent(Complete(lossy, seq)))
    BY <1>3, MarkSentType
  <1>5. ToSend(Complete(lossy, seq)) \subseteq Seqs
    BY <1>3 DEF ToSend, RTType
  <1>. HIDE DEF lossy
  <1>6. RTType(rt') /\ asked' \subseteq Seqs
    <2>1. rt' = IF rtcpRTDisable THEN lossy ELSE MarkSent(Complete(lossy, seq))
      BY DEF ReceiveRTP, lossy
    <2>2. asked' = IF rtcpRTDisable THEN asked \ (IF isRetransmit THEN {seq} ELSE {})
                   ELSE (asked \ (IF isRetransmit THEN {seq} ELSE {}))
                        \cup ToSend(Complete(lossy, seq))
      BY DEF ReceiveRTP, lossy
    <2>3. asked \subseteq Seqs
      BY DEF IInv, TypeOK
    <2>. QED BY <1>2, <1>4, <1>5, <2>1, <2>2, <2>3
  <1>7. dups' \in [init : BOOLEAN, last : Seqs, array : [0 .. DupWindow - 1 -> Seqs]]
    BY DEF ReceiveRTP, DupsAfter, IInv, TypeOK
  <1>8. /\ lastRTPSeq' \in Seqs /\ receiveCount' \in {0, 1}
        /\ usedFreed' \in BOOLEAN /\ flushing' \in BOOLEAN
    BY DEF ReceiveRTP, StillFlushing, IInv, TypeOK
  <1>9. UNCHANGED <<streamVars, flushUntilTS, flushTimeoutTS, rtDangling, playVars,
                    envVars, rtcpRTDisable>> /\ up
    BY DEF ReceiveRTP
  <1>. QED BY <1>1, <1>6, <1>7, <1>8, <1>9
           DEF NodesOK, IInv, TypeOK, NodesConserved, streamVars, playVars, envVars

LEMMA ReceiveFutileOK ==
    ASSUME IInv, NEW seq \in Seqs, ReceiveFutile(seq)
    PROVE  IInv'
  <1>1. RTType(rt')
    BY KeepRequestsType DEF ReceiveFutile, AbortUpTo, IInv, TypeOK
  <1>. QED BY <1>1 DEF ReceiveFutile, IInv, TypeOK, NodesConserved, streamVars,
                       flushVars, trackVars, nodeVars, playVars, envVars

\* A read frees a prefix of the busy list, and cuts the first node left at most.
LEMMA ReadAudioOK ==
    ASSUME IInv, ReadAudio
    PROVE  IInv'
  <1>. DEFINE offset == Offset(readTime)
              now == (readTime - offset) % TSMod
              lim == (now + ReadUnits) % TSMod
              k(stop) == FreedBy(busy, stop, lim)
              rest(stop) == SubSeq(busy, k(stop) + 1, Len(busy))
              capped(stop) == Capped(busy, stop, lim)
              aborted(stop) == AbortsFor(busy, stop, now, lim)
  <1>1. busy \in Seq(Node) /\ Len(busy) \in Nat /\ readTime \in Times
        /\ sampleTimeOffset \in Times /\ RTType(rt)
    BY LenProperties DEF IInv, TypeOK
  <1>2. offset \in Times /\ lim \in Times
    <2>1. offset \in Times /\ readTime - offset \in Int
      BY <1>1 DEF Times, Offset
    <2>2. now \in Times
      BY <2>1, ResidueTypes
    <2>3. now + ReadUnits \in Int
      BY <2>2, ConstTypes DEF Times
    <2>. QED BY <2>1, <2>3, ResidueTypes
  <1>3. PICK stop \in 1 .. Len(busy) + 1 :
            /\ sampleTimeOffset' = offset
            /\ busy' = LeftAfter(busy, stop, lim)
            /\ freeNodes' = freeNodes + k(stop)
            /\ busyNodeCount' = busyNodeCount - k(stop)
            /\ lastPlayedValid' = (lastPlayedValid \/ Played(busy, stop, lim) # {})
            /\ rt' = IF aborted(stop) = {} THEN rt ELSE AbortUpTo(rt, aborted(stop))
            /\ usedFreed' = (rtDangling /\ aborted(stop) # {})
    BY DEF ReadAudio, Render
  <1>4. /\ k(stop) \in 0 .. Len(busy)
        /\ capped(stop) => k(stop) + 1 = stop /\ stop <= Len(busy)
    BY <1>1 DEF FreedBy, Capped
  <1>5. /\ rest(stop) \in Seq(Node) /\ Len(rest(stop)) = Len(busy) - k(stop)
        /\ freeNodes + k(stop) \in Nat /\ busyNodeCount - k(stop) \in Nat
        /\ busyNodeCount - k(stop) = Len(busy) - k(stop)
        /\ up => (freeNodes + k(stop)) + (Len(busy) - k(stop)) = NodeCount
    BY <1>4, FreePrefixOK
  <1>6. busy' \in Seq(Node) /\ Len(busy') = Len(rest(stop))
    <2>1. CASE ~capped(stop)
      BY <1>3, <1>5, <2>1 DEF LeftAfter
    <2>2. CASE capped(stop)
      <3>1. rest(stop)[1] = busy[stop] /\ busy[stop] \in Node /\ Len(rest(stop)) >= 1
        <4>1. k(stop) + 1 = stop /\ stop \in 1 .. Len(busy)
          BY <1>1, <1>4, <2>2
        <4>2. busy[stop] \in Node
          BY <1>1, <4>1, ElementOfSeq
        <4>3. Len(rest(stop)) >= 1
          BY <1>1, <1>5, <4>1
        <4>4. rest(stop)[1] = busy[stop]
          BY <1>1, <4>1
        <4>. QED BY <4>2, <4>3, <4>4
      <3>2. CutAt(busy[stop], lim) \in Node
        <4>1. /\ ModLT((busy[stop].ts + Latency) % TSMod, lim, TSMod)
              /\ ModGT((((busy[stop].ts + Latency) % TSMod) + busy[stop].size) % TSMod, lim, TSMod)
          BY <2>2 DEF Capped, Ready, End, Src
        <4>. HIDE DEF lim
        <4>. QED BY <1>2, <3>1, <4>1, CutAtType
      <3>3. busy' = [rest(stop) EXCEPT ![1] = CutAt(busy[stop], lim)]
        BY <1>3, <2>2, <3>1 DEF LeftAfter
      <3>. HIDE DEF rest, lim, capped, k
      <3>. QED BY <1>5, <3>1, <3>2, <3>3, ExceptSeq
    <2>. QED BY <2>1, <2>2
  <1>7. RTType(rt')
    BY <1>1, <1>3, KeepRequestsType DEF AbortUpTo
  <1>8. sampleTimeOffset' \in Times /\ lastPlayedValid' \in BOOLEAN /\ usedFreed' \in BOOLEAN
    BY <1>2, <1>3 DEF IInv, TypeOK
  <1>9. readTime' \in Times
    <2>1. readTime + ReadUnits \in Int
      BY <1>1, ConstTypes DEF Times
    <2>2. readTime' = (readTime + ReadUnits) % TSMod
      BY DEF ReadAudio
    <2>. QED BY <2>1, <2>2, ResidueTypes
  <1>10. /\ freeNodes' \in Nat /\ busyNodeCount' \in Nat /\ busyNodeCount' = Len(busy')
         /\ up => freeNodes' + Len(busy') = NodeCount
    BY <1>3, <1>5, <1>6
  <1>11. UNCHANGED <<streamVars, flushVars, trackVars, rtDangling, rtcpRTDisable, sent, asked>>
    BY DEF ReadAudio
  <1>. QED BY <1>6, <1>7, <1>8, <1>9, <1>10, <1>11
           DEF IInv, TypeOK, NodesConserved, streamVars, flushVars, trackVars

LEMMA SenderSendsOK ==
    ASSUME IInv, SenderSends
    PROVE  IInv'
  BY DEF SenderSends, IInv, TypeOK, NodesConserved, streamVars, flushVars, trackVars,
         nodeVars, rtVars, playVars

LEMMA RequestTimesOutOK ==
    ASSUME IInv, NEW s \in DOMAIN rt.busy, RequestTimesOut(s)
    PROVE  IInv'
  <1>1. RTType(rt)
    BY DEF IInv, TypeOK
  <1>2. rt.busy[s] \in Request /\ [rt.busy[s] EXCEPT !.due = TRUE] \in Request
    BY <1>1 DEF RTType, Request
  <1>3. rt' = [busy |-> [rt.busy EXCEPT ![s] = [rt.busy[s] EXCEPT !.due = TRUE]],
               free |-> rt.free]
    BY <1>1 DEF RequestTimesOut, RTType
  <1>4. RTType(rt')
    BY <1>1, <1>2, <1>3 DEF RTType
  <1>. QED BY <1>4 DEF RequestTimesOut, IInv, TypeOK, NodesConserved, streamVars,
                       flushVars, trackVars, nodeVars, playVars, envVars

LEMMA PacketTypes ==
    ASSUME NEW a \in Nat
    PROVE  SeqOf(a) \in Seqs /\ TSOf(a) \in Times
  <1>1. a * Units \in Int
    BY ConstTypes
  <1>. QED BY <1>1, ResidueTypes DEF SeqOf, TSOf

LEMMA NextOK ==
    ASSUME IInv, [Next]_vars
    PROVE  IInv'
  <1>1. sent \in Nat /\ InFlight \subseteq Nat /\ asked \subseteq Seqs
    BY DEF IInv, TypeOK, InFlight
  <1>2. ASSUME NEW redundant \in BOOLEAN, Setup(redundant) PROVE IInv'
    BY <1>2, SetupOK
  <1>3. CASE TearDown
    BY <1>3, TearDownOK
  <1>4. ASSUME NEW a \in InFlight \cup {sent}, FlushAudio(TSOf(a), SeqOf(a)) PROVE IInv'
    <2>1. a \in Nat
      BY <1>1
    <2>2. SeqOf(a) \in Seqs /\ TSOf(a) \in Times
      BY <2>1, PacketTypes
    <2>. QED BY <1>4, <2>2, FlushOK
  <1>5. CASE ReceiveNothing
    BY <1>5, ReceiveNothingOK
  <1>6. ASSUME NEW a \in InFlight, NEW size \in {0, Units},
               Arrive(a, size) \/ ArriveRetransmit(a, size)
        PROVE  IInv'
    <2>1. a \in Nat /\ size \in 0 .. Units
      BY <1>1, ConstTypes
    <2>2. SeqOf(a) \in Seqs /\ TSOf(a) \in Times
      BY <2>1, PacketTypes
    <2>3. ASSUME ReceiveDup(SeqOf(a)), asked' \subseteq asked PROVE IInv'
      BY <2>2, <2>3, ReceiveDupOK
    <2>4. ASSUME NEW isRetransmit \in BOOLEAN,
                 ReceiveRTP(SeqOf(a), TSOf(a), size, isRetransmit)
          PROVE  IInv'
      BY <2>1, <2>2, <2>4, ReceiveRTPOK
    <2>. QED BY <1>6, <2>3, <2>4 DEF Arrive, ArriveRetransmit
  <1>7. ASSUME NEW seq \in asked, ReceiveFutile(seq) PROVE IInv'
    BY <1>1, <1>7, ReceiveFutileOK
  <1>8. CASE ReadAudio
    BY <1>8, ReadAudioOK
  <1>9. CASE SenderSends
    BY <1>9, SenderSendsOK
  <1>10. ASSUME NEW s \in DOMAIN rt.busy, RequestTimesOut(s) PROVE IInv'
    BY <1>10, RequestTimesOutOK
  <1>11. CASE UNCHANGED vars
    BY <1>11 DEF IInv, TypeOK, NodesConserved, vars, streamVars, flushVars, trackVars,
                 nodeVars, rtVars, playVars, envVars
  <1>. QED BY <1>2, <1>3, <1>4, <1>5, <1>6, <1>7, <1>8, <1>9, <1>10, <1>11 DEF Next
----------------------------------------------------------------------------
(* Theorems *)

\* Every variable of the stream keeps its type; in particular the counts of
\* free and busy nodes and of free retransmit nodes never go below zero.
THEOREM TypeCorrect == Spec => []TypeOK
  <1>1. Init => IInv
    BY InitOK
  <1>2. IInv /\ [Next]_vars => IInv'
    BY NextOK
  <1>3. IInv => TypeOK
    BY DEF IInv
  <1>. QED BY <1>1, <1>2, <1>3, PTL DEF Spec

\* No path of receiving, flushing, rendering or tearing down leaks a buffer
\* node or links it twice, for any sizes of the lists and windows.
THEOREM NodeConservation == Spec => []NodesConserved
  <1>1. Init => IInv
    BY InitOK
  <1>2. IInv /\ [Next]_vars => IInv'
    BY NextOK
  <1>3. IInv => NodesConserved
    BY DEF IInv
  <1>. QED BY <1>1, <1>2, <1>3, PTL DEF Spec
----------------------------------------------------------------------------
(* What becomes of the busy list *)

\* r is the list q without its first k nodes, but for how much of them was played.
Suffix(q, k, r) ==
    /\ r \in Seq(Node) /\ k \in 0 .. Len(q) /\ Len(r) = Len(q) - k
    /\ \A i \in 1 .. Len(r) : r[i].seq = q[k + i].seq /\ r[i].hdr = q[k + i].hdr

\* r is the list q with a node of the packet behind its k-th node.
Inserted(q, k, seq, ts, r) ==
    /\ r \in Seq(Node) /\ k \in 0 .. Len(q) /\ Len(r) = Len(q) + 1
    /\ \A i \in 1 .. k : r[i] = q[i]
    /\ r[k + 1].seq = seq /\ r[k + 1].hdr = ts
    /\ \A i \in k + 2 .. Len(r) : r[i] = q[i - 1]

LEMMA SubSeqSuffix ==
    ASSUME NEW q \in Seq(Node), NEW k \in 0 .. Len(q)
    PROVE  Suffix(q, k, SubSeq(q, k + 1, Len(q)))
  <1>. DEFINE r == SubSeq(q, k + 1, Len(q))
  <1>1. Len(q) \in Nat /\ \A i \in k + 1 .. Len(q) : q[i] \in Node
    BY ElementOfSeq
  <1>2. /\ r \in Seq(Node)
        /\ Len(r) = IF k + 1 <= Len(q) THEN Len(q) - (k + 1) + 1 ELSE 0
        /\ \A i \in 1 .. Len(q) - (k + 1) + 1 : r[i] = q[(k + 1) + i - 1]
    BY <1>1, SubSeqProperties
  <1>3. Len(r) = Len(q) - k /\ \A i \in 1 .. Len(r) : r[i] = q[k + i]
    <2>. HIDE DEF r
    <2>. QED BY <1>1, <1>2
  <1>. QED BY <1>2, <1>3 DEF Suffix

LEMMA SuffixOfSuffix ==
    ASSUME NEW q \in Seq(Node), NEW j, NEW r, Suffix(q, j, r), NEW k, NEW t, Suffix(r, k, t)
    PROVE  Suffix(q, j + k, t)
  <1>1. /\ Len(q) \in Nat /\ j \in 0 .. Len(q) /\ Len(r) = Len(q) - j
        /\ k \in 0 .. Len(r) /\ Len(t) = Len(r) - k /\ t \in Seq(Node)
        /\ \A i \in 1 .. Len(r) : r[i].seq = q[j + i].seq /\ r[i].hdr = q[j + i].hdr
        /\ \A i \in 1 .. Len(t) : t[i].seq = r[k + i].seq /\ t[i].hdr = r[k + i].hdr
    BY DEF Suffix
  <1>2. j + k \in 0 .. Len(q) /\ Len(t) = Len(q) - (j + k)
    BY <1>1
  <1>3. \A i \in 1 .. Len(t) : /\ k + i \in 1 .. Len(r) /\ (j + k) + i = j + (k + i)
                               /\ t[i].seq = q[(j + k) + i].seq /\ t[i].hdr = q[(j + k) + i].hdr
    BY <1>1
  <1>. QED BY <1>1, <1>2, <1>3 DEF Suffix

LEMMA UnstolenSuffix ==
    ASSUME IInv, freeNodes > 0 \/ busy # <<>>
    PROVE  /\ Unstolen \in Seq(Node) /\ \E k \in 0 .. Len(busy) : Suffix(busy, k, Unstolen)
  <1>1. busy \in Seq(Node) /\ Len(busy) \in Nat
    BY LenProperties DEF IInv, TypeOK
  <1>2. CASE freeNodes > 0
    <2>1. Suffix(busy, 0, busy)
      BY <1>1 DEF Suffix
    <2>. QED BY <1>1, <1>2, <2>1 DEF Unstolen
  <1>3. CASE ~(freeNodes > 0)
    <2>1. busy # <<>> /\ Len(busy) > 0
      BY <1>1, <1>3, EmptySeq
    <2>2. Tail(busy) = SubSeq(busy, 2, Len(busy))
      BY DEF Tail
    <2>3. 1 \in 0 .. Len(busy)
      BY <1>1, <2>1
    <2>4. \A k \in 0 .. Len(busy) : k = 1 => Suffix(busy, 1, SubSeq(busy, 2, Len(busy)))
      <3>. SUFFICES ASSUME NEW k \in 0 .. Len(busy), k = 1
                    PROVE  Suffix(busy, 1, SubSeq(busy, 2, Len(busy)))
        OBVIOUS
      <3>1. Suffix(busy, k, SubSeq(busy, k + 1, Len(busy)))
        BY <1>1, SubSeqSuffix
      <3>2. k + 1 = 2
        OBVIOUS
      <3>. QED BY <3>1, <3>2
    <2>5. Suffix(busy, 1, Tail(busy))
      BY <2>2, <2>3, <2>4
    <2>. QED BY <1>3, <2>3, <2>5 DEF Unstolen, Suffix
  <1>. QED BY <1>2, <1>3

LEMMA QueuePacketInserts ==
    ASSUME IInv, freeNodes > 0 \/ busy # <<>>,
           NEW seq \in Seqs, NEW ts \in Times, NEW size \in 0 .. Units,
           QueuePacket(seq, ts, size)
    PROVE  \E k \in 0 .. Len(Unstolen) :
              WalkStopsAt(Unstolen, k, ts) /\ Inserted(Unstolen, k, seq, ts, busy')
  <1>. DEFINE node == [seq |-> seq, hdr |-> ts, ts |-> ts, skip |-> 0, size |-> size]
              q == Unstolen
  <1>1. q \in Seq(Node) /\ Len(q) \in Nat /\ node \in Node
    BY UnstolenSuffix, LenProperties DEF Node
  <1>2. node.seq = seq /\ node.hdr = ts
    OBVIOUS
  <1>. HIDE DEF node, q
  <1>3. PICK k \in 0 .. Len(q) :
            /\ WalkStopsAt(q, k, ts)
            /\ busy' = SubSeq(q, 1, k) \o <<node>> \o SubSeq(q, k + 1, Len(q))
    BY DEF QueuePacket, node, q
  <1>. DEFINE front == SubSeq(q, 1, k)
              back == SubSeq(q, k + 1, Len(q))
  <1>4. front \in Seq(Node) /\ Len(front) = k /\ \A i \in 1 .. k : front[i] = q[i]
    <2>1. \A i \in 1 .. k : q[i] \in Node
      BY <1>1, ElementOfSeq
    <2>2. /\ front \in Seq(Node) /\ Len(front) = IF 1 <= k THEN k - 1 + 1 ELSE 0
          /\ \A i \in 1 .. k - 1 + 1 : front[i] = q[1 + i - 1]
      BY <2>1, SubSeqProperties
    <2>. HIDE DEF front
    <2>. QED BY <1>1, <2>2
  <1>5. back \in Seq(Node) /\ Len(back) = Len(q) - k /\ \A i \in 1 .. Len(q) - k : back[i] = q[k + i]
    <2>1. \A i \in k + 1 .. Len(q) : q[i] \in Node
      BY <1>1, ElementOfSeq
    <2>2. /\ back \in Seq(Node) /\ Len(back) = IF k + 1 <= Len(q) THEN Len(q) - (k + 1) + 1 ELSE 0
          /\ \A i \in 1 .. Len(q) - (k + 1) + 1 : back[i] = q[(k + 1) + i - 1]
      BY <1>1, <2>1, SubSeqProperties
    <2>. HIDE DEF back
    <2>. QED BY <1>1, <2>2
  <1>. HIDE DEF front, back
  <1>6. /\ busy' = front \o <<node>> \o back
        /\ <<node>> \in Seq(Node) /\ Len(<<node>>) = 1 /\ <<node>>[1] = node
    BY <1>1, <1>3 DEF front, back
  <1>. DEFINE mid == front \o <<node>>
  <1>7. /\ mid \in Seq(Node) /\ Len(mid) = k + 1
        /\ \A i \in 1 .. k : mid[i] = q[i]
        /\ mid[k + 1] = node
    BY <1>1, <1>4, <1>6, ConcatProperties
  <1>. HIDE DEF mid
  <1>8. /\ busy' = mid \o back
        /\ busy' \in Seq(Node) /\ Len(busy') = Len(q) + 1
        /\ \A i \in 1 .. k + 1 : busy'[i] = mid[i]
        /\ \A i \in k + 2 .. Len(q) + 1 : busy'[i] = q[i - 1]
    <2>1. busy' = mid \o back
      BY <1>6 DEF mid
    <2>2. /\ mid \o back \in Seq(Node) /\ Len(mid \o back) = Len(mid) + Len(back)
          /\ \A i \in 1 .. Len(mid) + Len(back) :
                (mid \o back)[i] = IF i <= Len(mid) THEN mid[i] ELSE back[i - Len(mid)]
      BY <1>5, <1>7, ConcatProperties
    <2>3. \A i \in k + 2 .. Len(q) + 1 : i - (k + 1) \in 1 .. Len(q) - k /\ k + (i - (k + 1)) = i - 1
      BY <1>1
    <2>4. Len(mid) + Len(back) = Len(q) + 1
      BY <1>1, <1>5, <1>7
    <2>5. busy' \in Seq(Node) /\ Len(busy') = Len(q) + 1
      BY <2>1, <2>2, <2>4
    <2>6. \A i \in 1 .. Len(q) + 1 : busy'[i] = IF i <= k + 1 THEN mid[i] ELSE back[i - (k + 1)]
      BY <1>7, <2>1, <2>2, <2>4
    <2>7. ASSUME NEW i \in 1 .. k + 1 PROVE busy'[i] = mid[i]
      <3>1. i \in 1 .. Len(q) + 1 /\ i <= k + 1
        BY <1>1
      <3>. QED BY <2>6, <3>1
    <2>8. ASSUME NEW i \in k + 2 .. Len(q) + 1 PROVE busy'[i] = q[i - 1]
      <3>1. i \in 1 .. Len(q) + 1 /\ ~(i <= k + 1)
        BY <1>1
      <3>2. busy'[i] = back[i - (k + 1)]
        BY <2>6, <3>1
      <3>3. back[i - (k + 1)] = q[k + (i - (k + 1))]
        BY <1>5, <2>3
      <3>. QED BY <2>3, <3>2, <3>3
    <2>. QED BY <2>1, <2>5, <2>7, <2>8
  <1>9. Inserted(q, k, seq, ts, busy')
    BY <1>1, <1>2, <1>7, <1>8 DEF Inserted
  <1>. QED BY <1>3, <1>9 DEF q

LEMMA FlushSuffix ==
    ASSUME IInv, NEW ts, NEW seq, FlushAudio(ts, seq)
    PROVE  \E k \in 0 .. Len(busy) : FlushesPrefix(k, ts, seq) /\ Suffix(busy, k, busy')
  <1>1. PICK k \in 0 .. Len(busy) :
            FlushesPrefix(k, ts, seq) /\ busy' = SubSeq(busy, k + 1, Len(busy))
    BY DEF FlushAudio
  <1>2. busy \in Seq(Node)
    BY DEF IInv, TypeOK
  <1>. QED BY <1>1, <1>2, SubSeqSuffix

LEMMA ReadSuffix ==
    ASSUME IInv, ReadAudio
    PROVE  \E k \in 0 .. Len(busy) : Suffix(busy, k, busy')
  <1>. DEFINE now == (readTime - Offset(readTime)) % TSMod
              lim == (now + ReadUnits) % TSMod
  <1>1. busy \in Seq(Node) /\ Len(busy) \in Nat
    BY LenProperties DEF IInv, TypeOK
  <1>2. busy' \in Seq(Node)
    BY ReadAudioOK DEF IInv, TypeOK
  <1>3. PICK stop \in 1 .. Len(busy) + 1 : busy' = LeftAfter(busy, stop, lim)
    BY DEF ReadAudio, Render
  <1>. HIDE DEF lim
  <1>. DEFINE k == FreedBy(busy, stop, lim)
              rest == SubSeq(busy, k + 1, Len(busy))
  <1>4. k \in 0 .. Len(busy) /\ (Capped(busy, stop, lim) => k < Len(busy))
    BY <1>1 DEF FreedBy, Capped
  <1>. HIDE DEF k
  <1>5. Suffix(busy, k, rest)
    BY <1>1, <1>4, SubSeqSuffix
  <1>. HIDE DEF rest
  <1>6. busy' = IF Capped(busy, stop, lim) THEN [rest EXCEPT ![1] = CutAt(rest[1], lim)] ELSE rest
    BY <1>3 DEF LeftAfter, k, rest
  <1>7. CASE ~Capped(busy, stop, lim)
    BY <1>4, <1>5, <1>6, <1>7
  <1>8. CASE Capped(busy, stop, lim)
    <2>1. rest \in Seq(Node) /\ Len(rest) = Len(busy) - k /\ Len(rest) \in Nat /\ Len(rest) >= 1
      BY <1>1, <1>4, <1>5, <1>8 DEF Suffix
    <2>2. rest[1] \in Node
      BY <2>1, ElementOfSeq
    <2>3. CutAt(rest[1], lim).seq = rest[1].seq /\ CutAt(rest[1], lim).hdr = rest[1].hdr
      BY <2>2 DEF CutAt, Node
    <2>4. /\ Len(busy') = Len(rest)
          /\ \A i \in 1 .. Len(rest) : busy'[i] = IF i = 1 THEN CutAt(rest[1], lim) ELSE rest[i]
      <3>. DEFINE x == CutAt(rest[1], lim)
      <3>. HIDE DEF x
      <3>1. busy' = [rest EXCEPT ![1] = x]
        BY <1>6, <1>8 DEF x
      <3>. QED BY <2>1, <3>1 DEF x
    <2>5. \A i \in 1 .. Len(busy') : busy'[i].seq = rest[i].seq /\ busy'[i].hdr = rest[i].hdr
      BY <2>3, <2>4
    <2>6. \A i \in 1 .. Len(rest) : rest[i].seq = busy[k + i].seq /\ rest[i].hdr = busy[k + i].hdr
      BY <1>5 DEF Suffix
    <2>7. \A i \in 1 .. Len(busy') : busy'[i].seq = busy[k + i].seq /\ busy'[i].hdr = busy[k + i].hdr
      BY <2>4, <2>5, <2>6
    <2>8. Suffix(busy, k, busy')
      BY <1>2, <1>4, <2>1, <2>4, <2>7 DEF Suffix
    <2>. QED BY <1>4, <2>8
  <1>. QED BY <1>7, <1>8

\* Every step leaves of the busy list what is behind some node, or queues a packet in it.
LEMMA BusySteps ==
    ASSUME IInv, [Next]_vars
    PROVE  \/ \E k \in 0 .. Len(busy) : Suffix(busy, k, busy')
           \/ \E a \in InFlight, size \in {0, Units}, isRetransmit \in BOOLEAN :
                /\ ReceiveRTP(SeqOf(a), TSOf(a), size, isRetransmit)
                /\ QueuePacket(SeqOf(a), TSOf(a), size) /\ ~TimeSlotTaken(TSOf(a))
  <1>. DEFINE Kept == \E k \in 0 .. Len(busy) : Suffix(busy, k, busy')
  <1>1. busy \in Seq(Node) /\ Len(busy) \in Nat
    BY LenProperties DEF IInv, TypeOK
  <1>2. Suffix(busy, 0, busy)
    BY <1>1 DEF Suffix
  <1>3. ASSUME UNCHANGED busy PROVE Kept
    BY <1>1, <1>2, <1>3
  <1>4. ASSUME busy' = <<>> PROVE Kept
    <2>1. Suffix(busy, Len(busy), <<>>)
      BY <1>1 DEF Suffix
    <2>. QED BY <1>1, <1>4, <2>1
  <1>5. ASSUME freeNodes > 0 \/ busy # <<>>, DropPacket PROVE Kept
    BY <1>5, UnstolenSuffix DEF DropPacket
  <1>6. ASSUME NEW redundant, Setup(redundant) PROVE Kept
    BY <1>4, <1>6 DEF Setup
  <1>7. ASSUME NEW ts, NEW seq, FlushAudio(ts, seq) PROVE Kept
    BY <1>7, FlushSuffix
  <1>8. CASE TearDown \/ SenderSends \/ UNCHANGED vars
    BY <1>3, <1>8 DEF TearDown, SenderSends, vars, nodeVars
  <1>9. CASE ReceiveNothing
    BY <1>5, <1>9 DEF ReceiveNothing
  <1>10. ASSUME NEW seq, ReceiveFutile(seq) \/ RequestTimesOut(seq) PROVE Kept
    BY <1>3, <1>10 DEF ReceiveFutile, RequestTimesOut, nodeVars
  <1>11. CASE ReadAudio
    BY <1>11, ReadSuffix
  <1>12. ASSUME NEW a \in InFlight, NEW size \in {0, Units}, NEW isRetransmit \in BOOLEAN,
                ReceiveRTP(SeqOf(a), TSOf(a), size, isRetransmit)
         PROVE  \/ Kept
                \/ QueuePacket(SeqOf(a), TSOf(a), size) /\ ~TimeSlotTaken(TSOf(a))
    BY <1>5, <1>12 DEF ReceiveRTP
  <1>13. ASSUME NEW seq, ReceiveDup(seq) PROVE Kept
    BY <1>5, <1>13 DEF ReceiveDup
  <1>14. CASE \E a \in InFlight, size \in {0, Units} : Arrive(a, size) \/ ArriveRetransmit(a, size)
    <2>1. PICK a \in InFlight, size \in {0, Units} :
              \/ ReceiveDup(SeqOf(a))
              \/ \E isRetransmit \in BOOLEAN : ReceiveRTP(SeqOf(a), TSOf(a), size, isRetransmit)
      BY <1>14 DEF Arrive, ArriveRetransmit
    <2>. QED BY <1>12, <1>13, <2>1
  <1>. QED BY <1>6, <1>7, <1>8, <1>9, <1>10, <1>11, <1>14 DEF Next
----------------------------------------------------------------------------
(* The order of the busy list *)

LEMMA SuffixOrdered ==
    ASSUME IInv, BusyOrdered, NEW k \in 0 .. Len(busy), NEW r, Suffix(busy, k, r)
    PROVE  \A i \in 1 .. Len(r) - 1 : ModLT(r[i].hdr, r[i + 1].hdr, TSMod)
  <1>1. busy \in Seq(Node) /\ Len(busy) \in Nat
    BY LenProperties DEF IInv, TypeOK
  <1>. SUFFICES ASSUME NEW i \in 1 .. Len(r) - 1
                PROVE  ModLT(r[i].hdr, r[i + 1].hdr, TSMod)
    OBVIOUS
  <1>2. /\ Len(r) = Len(busy) - k /\ i \in 1 .. Len(r) /\ i + 1 \in 1 .. Len(r)
        /\ k + i \in 1 .. Len(busy) - 1 /\ k + (i + 1) = (k + i) + 1
    BY <1>1 DEF Suffix
  <1>3. r[i].hdr = busy[k + i].hdr /\ r[i + 1].hdr = busy[(k + i) + 1].hdr
    BY <1>2 DEF Suffix
  <1>. QED BY <1>2, <1>3 DEF BusyOrdered

LEMMA BusyOrderedOK ==
    ASSUME IInv, BusyOrdered, [Next]_vars
    PROVE  BusyOrdered'
  <1>1. busy \in Seq(Node) /\ Len(busy) \in Nat
    BY LenProperties DEF IInv, TypeOK
  <1>2. ASSUME NEW k \in 0 .. Len(busy), Suffix(busy, k, busy') PROVE BusyOrdered'
    BY <1>2, SuffixOrdered DEF BusyOrdered
  <1>3. ASSUME NEW a \in InFlight, NEW size \in {0, Units}, NEW isRetransmit \in BOOLEAN,
               ReceiveRTP(SeqOf(a), TSOf(a), size, isRetransmit),
               QueuePacket(SeqOf(a), TSOf(a), size), ~TimeSlotTaken(TSOf(a))
        PROVE  BusyOrdered'
    <2>. DEFINE q == Unstolen
                ts == TSOf(a)
    <2>1. SeqOf(a) \in Seqs /\ ts \in Times /\ size \in 0 .. Units
      BY PacketTypes, ConstTypes DEF InFlight, IInv, TypeOK
    <2>2. freeNodes > 0 \/ busy # <<>>
      BY <1>3 DEF ReceiveRTP
    <2>3. /\ q \in Seq(Node) /\ Len(q) \in Nat
          /\ \A i \in 1 .. Len(q) - 1 : ModLT(q[i].hdr, q[i + 1].hdr, TSMod)
      BY <2>2, UnstolenSuffix, SuffixOrdered, LenProperties
    <2>4. PICK k \in 0 .. Len(q) : WalkStopsAt(q, k, ts) /\ Inserted(q, k, SeqOf(a), ts, busy')
      BY <1>3, <2>1, <2>2, QueuePacketInserts
    <2>5. \A i \in 1 .. Len(q) : q[i].hdr \in Times
      <3>1. \A i \in 1 .. Len(q) : q[i] \in Node
        BY <2>3, ElementOfSeq
      <3>. QED BY <3>1 DEF Node
    <2>6. k > 0 => ModLT(q[k].hdr, ts, TSMod)
      <3>. SUFFICES ASSUME k > 0 PROVE ModLT(q[k].hdr, ts, TSMod)
        OBVIOUS
      <3>1. k \in 1 .. Len(q) /\ ~ModGT(q[k].hdr, ts, TSMod)
        BY <2>3, <2>4 DEF WalkStopsAt
      <3>2. q[k].hdr # ts
        BY <1>3, <2>4, <3>1 DEF TimeSlotTaken
      <3>3. q[k].hdr \in 0 .. TSMod - 1 /\ ts \in 0 .. TSMod - 1 /\ TSMod \in Nat \ {0}
        BY <2>1, <2>5, <3>1, ConstTypes DEF Times
      <3>. HIDE DEF q, ts
      <3>. QED BY <3>1, <3>2, <3>3, ModOrder
    <2>7. k < Len(q) => ModLT(ts, q[k + 1].hdr, TSMod)
      <3>. SUFFICES ASSUME k < Len(q) PROVE ModLT(ts, q[k + 1].hdr, TSMod)
        OBVIOUS
      <3>1. k + 1 \in 1 .. Len(q) /\ ModGT(q[k + 1].hdr, ts, TSMod)
        BY <2>3, <2>4 DEF WalkStopsAt
      <3>2. q[k + 1].hdr \in 0 .. TSMod - 1 /\ ts \in 0 .. TSMod - 1 /\ TSMod \in Nat \ {0}
        BY <2>1, <2>5, <3>1, ConstTypes DEF Times
      <3>. HIDE DEF q, ts
      <3>. QED BY <3>1, <3>2, ModOrder
    <2>. HIDE DEF q, ts
    <2>. SUFFICES ASSUME NEW i \in 1 .. Len(busy') - 1
                  PROVE  ModLT(busy'[i].hdr, busy'[i + 1].hdr, TSMod)
      BY DEF BusyOrdered
    <2>8. /\ Len(busy') = Len(q) + 1 /\ busy'[k + 1].hdr = ts
          /\ \A j \in 1 .. k : busy'[j] = q[j]
          /\ \A j \in k + 2 .. Len(busy') : busy'[j] = q[j - 1]
      BY <2>4 DEF Inserted
    <2>9. CASE i < k
      <3>1. busy'[i] = q[i] /\ busy'[i + 1] = q[i + 1] /\ i \in 1 .. Len(q) - 1
        BY <2>3, <2>8, <2>9
      <3>. QED BY <2>3, <3>1
    <2>10. CASE i = k
      BY <2>6, <2>8, <2>10
    <2>11. CASE i = k + 1
      <3>1. busy'[i + 1] = q[k + 1] /\ k < Len(q)
        <4>1. i + 1 \in k + 2 .. Len(busy') /\ (i + 1) - 1 = k + 1 /\ k < Len(q)
          BY <2>3, <2>8, <2>11
        <4>. QED BY <2>8, <4>1
      <3>. QED BY <2>7, <2>8, <2>11, <3>1
    <2>12. CASE i > k + 1
      <3>1. /\ i \in k + 2 .. Len(busy') /\ i + 1 \in k + 2 .. Len(busy')
            /\ i - 1 \in 1 .. Len(q) - 1 /\ (i + 1) - 1 = (i - 1) + 1
        BY <2>3, <2>8, <2>12
      <3>2. busy'[i] = q[i - 1] /\ busy'[i + 1] = q[(i - 1) + 1]
        BY <2>8, <3>1
      <3>. QED BY <2>3, <3>1, <3>2
    <2>. QED BY <2>3, <2>9, <2>10, <2>11, <2>12
  <1>. QED BY <1>2, <1>3, BusySteps

LEMMA SpecIInv == Spec => []IInv
  <1>1. Init => IInv
    BY InitOK
  <1>2. IInv /\ [Next]_vars => IInv'
    BY NextOK
  <1>. QED BY <1>1, <1>2, PTL DEF Spec

\* However packets are reordered, lost and delivered again, and sequence numbers and
\* timestamps wrap, each node of the busy list is behind the one before it
\* (_GeneralAudioProcessPacket): the walks that stop early miss nothing next to them.
THEOREM BusyListOrdered == Spec => []BusyOrdered
  <1>1. Init => BusyOrdered
    BY DEF Init, BusyOrdered
  <1>2. IInv /\ BusyOrdered /\ [Next]_vars => BusyOrdered'
    BY BusyOrderedOK
  <1>. QED BY <1>1, <1>2, SpecIInv, PTL DEF Spec
----------------------------------------------------------------------------
(* Streams whose sequence numbers do not come round *)

\* A stream of at most one lap of the sequence numbers (65536 packets, 9 minutes),
\* which the network delays by less than the duplicate window.  What survives a lap,
\* a request or a node nobody came for, is taken for the packet of the next lap by the
\* code as well: such streams are left to the runs.
OneLap == MaxSent <= SeqMod /\ Delay < DupWindow

\* The nodes that track requests, free ones included.
Total(r) == r.free + Cardinality(DOMAIN r.busy)

LEMMA AbortAllTotal ==
    ASSUME NEW r, RTType(r)
    PROVE  Total(AbortAll(r)) = Total(r) /\ DOMAIN AbortAll(r).busy = {}
  <1>1. Cardinality(DOMAIN r.busy) \in Nat /\ r.free \in Nat
    BY SeqsFinite DEF RTType
  <1>2. /\ AbortAll(r).free = r.free + Cardinality(DOMAIN r.busy)
        /\ DOMAIN AbortAll(r).busy = {}
    BY DEF AbortAll
  <1>. QED BY <1>1, <1>2, FS_EmptySet DEF Total

LEMMA KeepTotal ==
    ASSUME NEW r, RTType(r), NEW keep
    PROVE  /\ Total(KeepRequests(r, keep)) = Total(r)
           /\ DOMAIN KeepRequests(r, keep).busy = DOMAIN r.busy \cap keep
  <1>. DEFINE D == DOMAIN r.busy
  <1>1. /\ IsFiniteSet(D) /\ Cardinality(D) \in Nat /\ r.free \in Nat
        /\ Cardinality(D \cap keep) \in Nat
    BY SeqsFinite DEF RTType
  <1>2. Cardinality(D \ keep) = Cardinality(D) - Cardinality(D \cap keep)
    BY <1>1, FS_Difference
  <1>3. /\ KeepRequests(r, keep).free = r.free + Cardinality(D \ keep)
        /\ DOMAIN KeepRequests(r, keep).busy = D \cap keep
    BY DEF KeepRequests
  <1>. HIDE DEF D
  <1>4. (r.free + Cardinality(D \ keep)) + Cardinality(D \cap keep) = r.free + Cardinality(D)
    BY <1>1, <1>2
  <1>. QED BY <1>3, <1>4 DEF Total, D

LEMMA MarkSentTotal ==
    ASSUME NEW r
    PROVE  Total(MarkSent(r)) = Total(r) /\ DOMAIN MarkSent(r).busy = DOMAIN r.busy
  BY DEF MarkSent, Total

\* As long as no request is for a packet from first on, each scheduled one takes a node.
LEMMA ScheduleTotal ==
    ASSUME NEW r, RTType(r), NEW first \in Nat, NEW count \in Nat, first + count <= SeqMod,
           \A s \in DOMAIN r.busy : s < first
    PROVE  /\ Total(Schedule(r, first, count)) = Total(r)
           /\ \A s \in DOMAIN Schedule(r, first, count).busy :
                 s \in DOMAIN r.busy \/ (first <= s /\ s < first + count)
  <1>. DEFINE n == MinOf(count, r.free)
              D == DOMAIN r.busy
              new == {(first + i) % SeqMod : i \in 0 .. n - 1}
              after == first .. (first + n) - 1
  <1>1. /\ r.free \in Nat /\ n \in Nat /\ n <= r.free /\ n <= count
        /\ IsFiniteSet(D) /\ Cardinality(D) \in Nat /\ D \subseteq Nat
    BY SeqsFinite DEF RTType, MinOf, Seqs
  <1>2. new = after
    <2>1. ASSUME NEW i \in 0 .. n - 1 PROVE (first + i) % SeqMod = first + i
      <3>1. first + i \in 0 .. SeqMod - 1
        BY <1>1, ConstTypes
      <3>. QED BY <3>1, ConstTypes, ModSmall
    <2>2. new = {first + i : i \in 0 .. n - 1}
      BY <2>1
    <2>3. ASSUME NEW s \in after PROVE \E i \in 0 .. n - 1 : s = first + i
      <3>1. s - first \in 0 .. n - 1 /\ s = first + (s - first)
        BY <1>1
      <3>. QED BY <3>1
    <2>4. ASSUME NEW i \in 0 .. n - 1 PROVE first + i \in after
      BY <1>1
    <2>. HIDE DEF after, n
    <2>. QED BY <2>2, <2>3, <2>4
  <1>3. /\ DOMAIN Schedule(r, first, count).busy = D \cup new
        /\ Schedule(r, first, count).free = r.free - n
    BY DEF Schedule
  <1>4. IsFiniteSet(after) /\ Cardinality(after) = n
    <2>. HIDE DEF n
    <2>1. first \in Int /\ (first + n) - 1 \in Int
      BY <1>1
    <2>2. /\ IsFiniteSet(after)
          /\ Cardinality(after)
               = IF first > (first + n) - 1 THEN 0 ELSE (first + n) - 1 - first + 1
      BY <2>1, FS_Interval
    <2>3. n = IF first > (first + n) - 1 THEN 0 ELSE (first + n) - 1 - first + 1
      BY <1>1
    <2>. QED BY <2>2, <2>3
  <1>5. D \cap after = {}
    BY <1>1
  <1>. HIDE DEF n, D, new
  <1>6. Cardinality(D \cup after) = Cardinality(D) + n
    <2>. HIDE DEF after
    <2>1. Cardinality(D \cup after) = Cardinality(D) + Cardinality(after) - Cardinality(D \cap after)
      BY <1>1, <1>4, FS_Union
    <2>. QED BY <1>1, <1>4, <1>5, <2>1, FS_EmptySet
  <1>7. (r.free - n) + Cardinality(D \cup after) = r.free + Cardinality(D)
    BY <1>1, <1>6
  <1>8. Total(Schedule(r, first, count)) = Total(r)
    BY <1>2, <1>3, <1>7 DEF Total, D
  <1>9. \A s \in D \cup after : s \in D \/ (first <= s /\ s < first + count)
    BY <1>1
  <1>. QED BY <1>2, <1>3, <1>8, <1>9 DEF D

\* A packet of the stream that is not behind the last one is ahead of it by as much
\* as the receiver computes.
LEMMA GapForward ==
    ASSUME OneLap, NEW last \in Seqs, NEW seq \in Seqs, seq >= last - Delay,
           NEW gap, gap = ModCmp(seq, (last + 1) % SeqMod, SeqMod), gap >= 0
    PROVE  /\ seq > last /\ gap = seq - last - 1 /\ (last + 1) % SeqMod = last + 1
           /\ last + 1 \in Nat
  <1>1. /\ SeqMod \in Nat \ {0} /\ DupWindow \in Nat /\ 2 * DupWindow <= SeqMod
        /\ Delay \in Nat /\ Delay < DupWindow
        /\ last \in 0 .. SeqMod - 1 /\ seq \in 0 .. SeqMod - 1
    BY GAModuli, GALimits, ConstTypes DEF OneLap, Seqs
  <1>2. CASE last = SeqMod - 1
    <2>1. (last + 1) % SeqMod = 0
      BY <1>1, <1>2, ModCarry
    <2>2. (seq - 0) % SeqMod = seq
      BY <1>1, ModSmall
    <2>3. 2 * seq >= SeqMod
      BY <1>1, <1>2
    <2>. QED BY <1>1, <2>1, <2>2, <2>3 DEF ModCmp
  <1>3. CASE last # SeqMod - 1
    <2>1. last + 1 \in 0 .. SeqMod - 1
      BY <1>1, <1>3
    <2>2. (last + 1) % SeqMod = last + 1
      BY <1>1, <2>1, ModSmall
    <2>3. (seq - (last + 1)) % SeqMod
             = IF seq >= last + 1 THEN seq - (last + 1) ELSE seq - (last + 1) + SeqMod
      BY <1>1, <2>1, ModDifference
    <2>. QED BY <1>1, <2>1, <2>2, <2>3 DEF ModCmp
  <1>. QED BY <1>2, <1>3

\* What RequestsConserved rests on: requests are for packets before the last one
\* received, and a stream on which none was received has none.
RequestsBehind ==
    /\ receiveCount = 0 => DOMAIN rt.busy = {}
    /\ \A s \in DOMAIN rt.busy : s <= lastRTPSeq

ReqInv ==
    /\ IInv
    /\ sent <= MaxSent
    /\ ~up => receiveCount = 0
    /\ receiveCount > 0 => lastRTPSeq < sent
    /\ ~rtDangling => RequestsBehind
    /\ RequestsConserved

\* A packet in flight is its own sequence number.
LEMMA InFlightSeq ==
    ASSUME OneLap, IInv, sent <= MaxSent, NEW a \in InFlight
    PROVE  /\ a \in Nat /\ a < sent /\ a >= (sent - 1) - Delay /\ a \in Seqs /\ SeqOf(a) = a
  <1>1. sent \in Nat /\ MaxSent \in Nat /\ SeqMod \in Nat \ {0} /\ MaxSent <= SeqMod
    BY GALimits, ConstTypes DEF OneLap, IInv, TypeOK
  <1>2. a \in 0 .. sent - 1 /\ a >= (sent - 1) - Delay
    BY DEF InFlight
  <1>3. a \in 0 .. SeqMod - 1
    BY <1>1, <1>2
  <1>. QED BY <1>1, <1>2, <1>3, ModSmall DEF SeqOf, Seqs

\* The losses a packet discovers are requested from behind the last packet.
LEMMA RequestsTotal ==
    ASSUME OneLap, ReqInv, ~rtDangling, NEW seq \in Seqs, seq >= (sent - 1) - Delay
    PROVE  /\ Total(Requests(seq)) = Total(rt)
           /\ \A s \in DOMAIN Requests(seq).busy :
                 s \in DOMAIN rt.busy \/ (lastRTPSeq < s /\ s < seq)
           /\ receiveCount = 0 => DOMAIN Requests(seq).busy = {}
           /\ receiveCount > 0 /\ GapTo(seq) >= 0 => seq > lastRTPSeq
  <1>1. /\ RTType(rt) /\ receiveCount \in {0, 1} /\ lastRTPSeq \in Seqs /\ sent \in Nat
        /\ RequestsBehind /\ GapTo(seq) \in Int /\ Delay \in Nat
        /\ DOMAIN rt.busy \subseteq Nat /\ seq \in Nat /\ lastRTPSeq \in Nat
    <2>1. /\ RTType(rt) /\ receiveCount \in {0, 1} /\ lastRTPSeq \in Seqs /\ sent \in Nat
          /\ RequestsBehind /\ IInv
      BY DEF ReqInv, IInv, TypeOK
    <2>2. GapTo(seq) \in Int
      BY <2>1, GapToType
    <2>3. DOMAIN rt.busy \subseteq Nat
      BY <2>1 DEF RTType, Seqs
    <2>. QED BY <2>1, <2>2, <2>3, GALimits DEF Seqs
  <1>2. CASE receiveCount = 0
    BY <1>1, <1>2 DEF Requests, RequestsBehind
  <1>3. CASE receiveCount > 0 /\ ~(GapTo(seq) >= 0)
    BY <1>1, <1>3 DEF Requests
  <1>4. CASE receiveCount > 0 /\ GapTo(seq) >= 0
    <2>1. seq >= lastRTPSeq - Delay
      BY <1>1, <1>4 DEF ReqInv
    <2>2. /\ seq > lastRTPSeq /\ GapTo(seq) = seq - lastRTPSeq - 1
          /\ (lastRTPSeq + 1) % SeqMod = lastRTPSeq + 1
      BY <1>1, <1>4, <2>1, GapForward DEF GapTo
    <2>3. CASE GapTo(seq) <= 0 \/ (rtcpRTDisable /\ ~(GapTo(seq) > MaxLoss))
      BY <1>4, <2>2, <2>3 DEF Requests
    <2>4. CASE GapTo(seq) > 0 /\ GapTo(seq) > MaxLoss
      <3>1. Requests(seq) = AbortAll(rt)
        BY <1>1, <1>4, <2>4 DEF Requests
      <3>. QED BY <1>1, <1>4, <2>2, <3>1, AbortAllTotal
    <2>5. CASE GapTo(seq) > 0 /\ ~(GapTo(seq) > MaxLoss) /\ ~rtcpRTDisable
      <3>1. Requests(seq) = Schedule(rt, lastRTPSeq + 1, GapTo(seq))
        BY <1>1, <1>4, <2>2, <2>5 DEF Requests
      <3>2. /\ lastRTPSeq + 1 \in Nat /\ GapTo(seq) \in Nat
            /\ (lastRTPSeq + 1) + GapTo(seq) = seq /\ seq <= SeqMod
            /\ \A s \in DOMAIN rt.busy : s < lastRTPSeq + 1
        BY <1>1, <2>2, <2>5, ConstTypes DEF RequestsBehind, Seqs
      <3>3. /\ Total(Schedule(rt, lastRTPSeq + 1, GapTo(seq))) = Total(rt)
            /\ \A s \in DOMAIN Schedule(rt, lastRTPSeq + 1, GapTo(seq)).busy :
                  s \in DOMAIN rt.busy
                  \/ (lastRTPSeq + 1 <= s /\ s < (lastRTPSeq + 1) + GapTo(seq))
        BY <1>1, <3>2, ScheduleTotal
      <3>4. \A s \in DOMAIN Requests(seq).busy :
               s \in DOMAIN rt.busy \/ (lastRTPSeq < s /\ s < seq)
        <4>1. \A s \in DOMAIN Requests(seq).busy : s \in Nat
          BY <1>1, RequestsType DEF RTType, Seqs, ReqInv
        <4>. QED BY <1>1, <3>1, <3>2, <3>3, <4>1
      <3>. QED BY <1>4, <2>2, <3>1, <3>3, <3>4
    <2>. QED BY <1>1, <2>3, <2>4, <2>5
  <1>. QED BY <1>1, <1>2, <1>3, <1>4

\* What a step does to the nodes that track requests.
Kept == Total(rt') = Total(rt) /\ DOMAIN rt'.busy \subseteq DOMAIN rt.busy

LEMMA KeptRequests ==
    ASSUME ReqInv, Kept, rtDangling' = rtDangling, lastRTPSeq' = lastRTPSeq,
           up' = up, redundantAudio' = redundantAudio,
           \/ receiveCount' = receiveCount
           \/ receiveCount' = 0 /\ DOMAIN rt'.busy = {}
    PROVE  /\ ~rtDangling' => RequestsBehind'
           /\ ~usedFreed => RequestsConserved'
  <1>1. ~rtDangling => RequestsBehind
    BY DEF ReqInv
  <1>2. ~rtDangling' => RequestsBehind'
    BY <1>1 DEF RequestsBehind, Kept
  <1>3. ~usedFreed => RequestsConserved'
    BY DEF ReqInv, RequestsConserved, Kept, Total
  <1>. QED BY <1>2, <1>3

LEMMA ReqReceiveRTP ==
    ASSUME OneLap, ReqInv, ~usedFreed, NEW a \in InFlight, NEW ts, NEW size,
           NEW isRetransmit \in BOOLEAN, ReceiveRTP(SeqOf(a), ts, size, isRetransmit), IInv'
    PROVE  ReqInv'
  <1>. DEFINE lossy == IF isRetransmit THEN rt ELSE Requests(a)
  <1>1. /\ a \in Nat /\ a < sent /\ a >= (sent - 1) - Delay /\ a \in Seqs /\ SeqOf(a) = a
        /\ IInv
    BY InFlightSeq DEF ReqInv
  <1>2. ReceiveRTP(a, ts, size, isRetransmit)
    BY <1>1
  <1>3. /\ rt' = IF rtcpRTDisable THEN lossy ELSE MarkSent(Complete(lossy, a))
        /\ lastRTPSeq' = IF isRetransmit \/ (receiveCount > 0 /\ GapTo(a) < 0)
                         THEN lastRTPSeq ELSE a
        /\ receiveCount' = IF isRetransmit THEN receiveCount ELSE 1
        /\ up /\ UNCHANGED <<streamVars, rtDangling, sent>>
    BY <1>2 DEF ReceiveRTP, envVars
  <1>4. /\ RTType(rt) /\ RTType(lossy) /\ receiveCount \in {0, 1} /\ lastRTPSeq \in Nat
        /\ sent \in Nat /\ GapTo(a) \in Int
    <2>1. RTType(rt) /\ receiveCount \in {0, 1} /\ lastRTPSeq \in Seqs /\ sent \in Nat
      BY <1>1 DEF IInv, TypeOK
    <2>2. RTType(Requests(a)) /\ GapTo(a) \in Int
      BY <1>1, RequestsType, GapToType
    <2>. QED BY <2>1, <2>2 DEF Seqs
  <1>5. ASSUME ~rtDangling PROVE RequestsBehind' /\ Total(rt') = Total(rt)
    <2>1. /\ Total(lossy) = Total(rt)
          /\ \A s \in DOMAIN lossy.busy : s \in DOMAIN rt.busy \/ (~isRetransmit /\ s < a)
          /\ receiveCount = 0 => DOMAIN lossy.busy = {}
          /\ ~isRetransmit /\ receiveCount > 0 /\ GapTo(a) >= 0 => a > lastRTPSeq
          /\ isRetransmit \/ (receiveCount > 0 /\ GapTo(a) < 0) =>
                DOMAIN lossy.busy \subseteq DOMAIN rt.busy
      <3>1. CASE isRetransmit
        BY <1>5, <3>1 DEF ReqInv, RequestsBehind
      <3>2. CASE ~isRetransmit
        <4>1. /\ Total(Requests(a)) = Total(rt)
              /\ \A s \in DOMAIN Requests(a).busy :
                    s \in DOMAIN rt.busy \/ (lastRTPSeq < s /\ s < a)
              /\ receiveCount = 0 => DOMAIN Requests(a).busy = {}
              /\ receiveCount > 0 /\ GapTo(a) >= 0 => a > lastRTPSeq
          BY <1>1, <1>5, RequestsTotal
        <4>2. receiveCount > 0 /\ GapTo(a) < 0 => Requests(a) = rt
          BY <1>4 DEF Requests
        <4>. QED BY <3>2, <4>1, <4>2
      <3>. QED BY <3>1, <3>2
    <2>. HIDE DEF lossy
    <2>2. Total(rt') = Total(lossy) /\ DOMAIN rt'.busy \subseteq DOMAIN lossy.busy
      <3>1. /\ RTType(Complete(lossy, a)) /\ Total(Complete(lossy, a)) = Total(lossy)
            /\ DOMAIN Complete(lossy, a).busy \subseteq DOMAIN lossy.busy
        BY <1>4, KeepTotal, KeepRequestsType DEF Complete
      <3>. QED BY <1>3, <3>1, MarkSentTotal
    <2>3. RequestsBehind
      BY <1>5 DEF ReqInv
    <2>4. \A s \in DOMAIN rt'.busy : s \in Nat /\ s <= lastRTPSeq'
      <3>1. \A s \in DOMAIN rt'.busy : s \in DOMAIN lossy.busy /\ s \in Nat
        BY <1>4, <2>2 DEF RTType, Seqs
      <3>2. CASE isRetransmit \/ (receiveCount > 0 /\ GapTo(a) < 0)
        BY <1>3, <2>1, <2>3, <3>1, <3>2 DEF RequestsBehind
      <3>3. CASE ~isRetransmit /\ receiveCount = 0
        BY <1>3, <2>1, <2>2, <3>3
      <3>4. CASE ~isRetransmit /\ receiveCount > 0 /\ GapTo(a) >= 0
        <4>1. lastRTPSeq' = a /\ a > lastRTPSeq
          BY <1>3, <1>4, <2>1, <3>4
        <4>2. \A s \in DOMAIN rt.busy : s <= lastRTPSeq
          BY <2>3 DEF RequestsBehind
        <4>. QED BY <1>1, <1>4, <2>1, <3>1, <4>1, <4>2
      <3>. QED BY <1>4, <3>2, <3>3, <3>4
    <2>5. receiveCount' = 0 => DOMAIN rt'.busy = {}
      BY <1>3, <2>1, <2>2
    <2>. QED BY <2>1, <2>2, <2>4, <2>5 DEF RequestsBehind
  <1>6. RequestsConserved'
    BY <1>3, <1>5 DEF ReqInv, RequestsConserved, Total, streamVars
  <1>7. receiveCount' > 0 => lastRTPSeq' < sent'
    BY <1>1, <1>3, <1>4 DEF ReqInv
  <1>. QED BY <1>3, <1>5, <1>6, <1>7 DEF ReqInv, streamVars

LEMMA ReqNext ==
    ASSUME OneLap, ReqInv, [Next]_vars
    PROVE  ReqInv'
  <1>1. IInv /\ IInv'
    BY NextOK DEF ReqInv
  <1>2. RTType(rt) /\ sent \in Nat /\ MaxSent \in Nat /\ receiveCount \in {0, 1}
        /\ lastRTPSeq \in Nat
    BY <1>1, GALimits DEF IInv, TypeOK, Seqs
  <1>3. ASSUME UNCHANGED <<up, redundantAudio, receiveCount, lastRTPSeq, rtDangling, sent>>,
               Kept, ~usedFreed
        PROVE  ReqInv'
    BY <1>1, <1>3, KeptRequests DEF ReqInv
  <1>4. ASSUME UNCHANGED rt PROVE Kept
    BY <1>4 DEF Kept
  <1>5. ASSUME NEW redundant \in BOOLEAN, Setup(redundant), ~usedFreed PROVE ReqInv'
    <2>1. /\ ~up /\ receiveCount = 0 /\ receiveCount' = 0 /\ up' = TRUE /\ sent' = 0
          /\ redundantAudio' = redundant
          /\ rtDangling' = rtDangling /\ lastRTPSeq' = lastRTPSeq
          /\ rt' = IF redundant THEN rt ELSE [rt EXCEPT !.free = RTCount]
      BY <1>5 DEF Setup, ReqInv
    <2>2. ASSUME ~rtDangling
          PROVE  DOMAIN rt'.busy = {} /\ (~redundant => rt'.free = RTCount)
      BY <1>2, <2>1, <2>2 DEF ReqInv, RequestsBehind, RTType
    <2>3. ~rtDangling' => RequestsBehind'
      BY <2>1, <2>2 DEF RequestsBehind
    <2>4. RequestsConserved'
      BY <2>1, <2>2, FS_EmptySet, ConstTypes, SMTT(60) DEF RequestsConserved
    <2>. QED BY <1>1, <1>2, <2>1, <2>3, <2>4 DEF ReqInv
  <1>6. CASE TearDown
    <2>1. /\ up' = FALSE /\ receiveCount' = 0 /\ rtDangling' = (DOMAIN rt.busy # {})
          /\ rt' = rt /\ sent' = sent
      BY <1>6 DEF TearDown, envVars
    <2>2. ~rtDangling' => RequestsBehind'
      BY <2>1 DEF RequestsBehind
    <2>3. RequestsConserved'
      BY <2>1 DEF RequestsConserved
    <2>. QED BY <1>1, <1>2, <2>1, <2>2, <2>3 DEF ReqInv
  <1>7. ASSUME NEW ts, NEW seq, FlushAudio(ts, seq), ~usedFreed PROVE ReqInv'
    <2>1. /\ rt' = AbortAll(rt) /\ receiveCount' = 0
          /\ UNCHANGED <<up, redundantAudio, lastRTPSeq, rtDangling, sent>>
      BY <1>7 DEF FlushAudio, streamVars, envVars
    <2>2. Total(rt') = Total(rt) /\ DOMAIN rt'.busy = {}
      BY <1>2, <2>1, AbortAllTotal
    <2>3. Kept
      BY <2>2 DEF Kept
    <2>. QED BY <1>1, <1>7, <2>1, <2>2, <2>3, KeptRequests DEF ReqInv
  <1>8. CASE ReceiveNothing /\ ~usedFreed
    BY <1>3, <1>4, <1>8 DEF ReceiveNothing, streamVars, trackVars, rtVars, envVars
  <1>9. ASSUME NEW a \in InFlight, NEW size, Arrive(a, size) \/ ArriveRetransmit(a, size),
               ~usedFreed
        PROVE  ReqInv'
    <2>1. ASSUME NEW seq, ReceiveDup(seq) PROVE ReqInv'
      BY <1>3, <1>4, <1>9, <2>1 DEF ReceiveDup, streamVars, trackVars, rtVars, envVars
    <2>2. ASSUME NEW isRetransmit \in BOOLEAN,
                 ReceiveRTP(SeqOf(a), TSOf(a), size, isRetransmit)
          PROVE  ReqInv'
      BY <1>1, <1>9, <2>2, ReqReceiveRTP
    <2>. QED BY <1>9, <2>1, <2>2 DEF Arrive, ArriveRetransmit
  <1>10. ASSUME NEW keep, rt' = KeepRequests(rt, keep) PROVE Kept
    BY <1>2, <1>10, KeepTotal DEF Kept
  <1>11. ASSUME NEW seq, ReceiveFutile(seq), ~usedFreed PROVE ReqInv'
    <2>1. Kept
      BY <1>10, <1>11 DEF ReceiveFutile, AbortUpTo
    <2>. QED BY <1>3, <1>11, <2>1 DEF ReceiveFutile, streamVars, trackVars, envVars
  <1>12. CASE ReadAudio /\ ~usedFreed
    <2>1. \/ UNCHANGED rt
          \/ \E aborted : rt' = AbortUpTo(rt, aborted)
      BY <1>12 DEF ReadAudio, Render
    <2>2. Kept
      BY <1>4, <1>10, <2>1 DEF AbortUpTo
    <2>. QED BY <1>3, <1>12, <2>2 DEF ReadAudio, streamVars, trackVars
  <1>13. CASE SenderSends /\ ~usedFreed
    <2>1. /\ UNCHANGED <<up, redundantAudio, receiveCount, lastRTPSeq, rtDangling, rt>>
          /\ sent < MaxSent /\ sent' = sent + 1
      BY <1>13 DEF SenderSends, streamVars, trackVars, rtVars
    <2>. QED BY <1>1, <1>2, <1>4, <1>13, <2>1, KeptRequests DEF ReqInv
  <1>14. ASSUME NEW s \in DOMAIN rt.busy, RequestTimesOut(s), ~usedFreed PROVE ReqInv'
    <2>1. DOMAIN rt'.busy = DOMAIN rt.busy /\ rt'.free = rt.free
      BY <1>2, <1>14 DEF RequestTimesOut, RTType
    <2>2. Kept
      BY <2>1 DEF Kept, Total
    <2>. QED BY <1>3, <1>14, <2>2 DEF RequestTimesOut, streamVars, trackVars, envVars
  <1>15. CASE UNCHANGED vars
    BY <1>1, <1>15 DEF vars, streamVars, trackVars, rtVars, envVars, ReqInv, RequestsBehind,
                       RequestsConserved
  <1>. QED BY <1>5, <1>6, <1>7, <1>8, <1>9, <1>11, <1>12, <1>13, <1>14, <1>15 DEF Next

LEMMA ReqInit ==
    ASSUME Init
    PROVE  ReqInv
  BY InitOK, GALimits DEF Init, ReqInv, RequestsBehind, RequestsConserved

\* Losses, losses too large to recover, arrivals, timeouts, flushes and reads move the
\* nodes that track retransmits between their two lists and lose none (_Retransmits* of
\* AirPlayReceiverSession.c): a stream never runs out of them.
THEOREM RetransmitNodesKept == OneLap => (Spec => []RequestsConserved)
  <1>. SUFFICES ASSUME OneLap PROVE Spec => []RequestsConserved
    OBVIOUS
  <1>1. Init => ReqInv
    BY ReqInit
  <1>2. ReqInv /\ [Next]_vars => ReqInv'
    BY ReqNext
  <1>3. ReqInv => RequestsConserved
    BY DEF ReqInv
  <1>. QED BY <1>1, <1>2, <1>3, PTL DEF Spec
----------------------------------------------------------------------------
(* What is in the busy list, and what the duplicate window remembers *)

\* Node i of the busy list after a step was in it before, or is that of packet a.
WasQueued(i) == \E j \in 1 .. Len(busy) : busy'[i].seq = busy[j].seq /\ busy'[i].hdr = busy[j].hdr
IsPacket(i, a) == busy'[i].seq = SeqOf(a) /\ busy'[i].hdr = TSOf(a)

LEMMA SuffixQueued ==
    ASSUME NEW q, NEW k, NEW r, Suffix(q, k, r), Len(q) \in Nat, NEW i \in 1 .. Len(r)
    PROVE  \E j \in 1 .. Len(q) : r[i].seq = q[j].seq /\ r[i].hdr = q[j].hdr
  <1>1. k + i \in 1 .. Len(q)
    BY DEF Suffix
  <1>. QED BY <1>1 DEF Suffix

\* A packet that is queued is the only new node.
LEMMA QueuedNodes ==
    ASSUME IInv, freeNodes > 0 \/ busy # <<>>, NEW a, NEW size \in 0 .. Units,
           SeqOf(a) \in Seqs, TSOf(a) \in Times, QueuePacket(SeqOf(a), TSOf(a), size),
           NEW i \in 1 .. Len(busy')
    PROVE  WasQueued(i) \/ IsPacket(i, a)
  <1>. DEFINE q == Unstolen
  <1>1. Len(busy) \in Nat
    BY LenProperties DEF IInv, TypeOK
  <1>2. q \in Seq(Node) /\ Len(q) \in Nat /\ \E k \in 0 .. Len(busy) : Suffix(busy, k, q)
    BY UnstolenSuffix, LenProperties
  <1>3. PICK k \in 0 .. Len(q) : Inserted(q, k, SeqOf(a), TSOf(a), busy')
    BY QueuePacketInserts
  <1>. HIDE DEF q
  <1>4. \A j \in 1 .. Len(q) :
           \E h \in 1 .. Len(busy) : q[j].seq = busy[h].seq /\ q[j].hdr = busy[h].hdr
    BY <1>1, <1>2, SuffixQueued
  <1>5. CASE i = k + 1
    BY <1>3, <1>5 DEF Inserted, IsPacket
  <1>6. CASE i <= k
    <2>1. i \in 1 .. k /\ i \in 1 .. Len(q)
      BY <1>2, <1>6
    <2>2. busy'[i] = q[i]
      BY <1>3, <2>1 DEF Inserted
    <2>. QED BY <1>4, <2>1, <2>2 DEF WasQueued
  <1>7. CASE i > k + 1
    <2>1. Len(busy') = Len(q) + 1 /\ i \in k + 2 .. Len(busy')
      BY <1>2, <1>3, <1>7 DEF Inserted
    <2>2. busy'[i] = q[i - 1] /\ i - 1 \in 1 .. Len(q)
      BY <1>2, <1>3, <2>1 DEF Inserted
    <2>. QED BY <1>4, <2>2 DEF WasQueued
  <1>. QED BY <1>2, <1>5, <1>6, <1>7

\* Nodes come into the busy list with the packets that pass the duplicate window.
LEMMA NodesOrigin ==
    ASSUME IInv, [Next]_vars
    PROVE  \/ \A i \in 1 .. Len(busy') : WasQueued(i)
           \/ \E a \in InFlight, size \in {0, Units}, isRetransmit \in BOOLEAN :
                /\ ReceiveRTP(SeqOf(a), TSOf(a), size, isRetransmit)
                /\ QueuePacket(SeqOf(a), TSOf(a), size)
                /\ \A i \in 1 .. Len(busy') : WasQueued(i) \/ IsPacket(i, a)
  <1>1. busy \in Seq(Node) /\ Len(busy) \in Nat
    BY LenProperties DEF IInv, TypeOK
  <1>2. ASSUME NEW k \in 0 .. Len(busy), Suffix(busy, k, busy'), NEW i \in 1 .. Len(busy')
        PROVE  WasQueued(i)
    BY <1>1, <1>2, SuffixQueued DEF WasQueued
  <1>3. ASSUME NEW a \in InFlight, NEW size \in {0, Units}, NEW isRetransmit \in BOOLEAN,
               ReceiveRTP(SeqOf(a), TSOf(a), size, isRetransmit),
               QueuePacket(SeqOf(a), TSOf(a), size), NEW i \in 1 .. Len(busy')
        PROVE  WasQueued(i) \/ IsPacket(i, a)
    <2>1. SeqOf(a) \in Seqs /\ TSOf(a) \in Times /\ size \in 0 .. Units
      BY PacketTypes, ConstTypes DEF InFlight, IInv, TypeOK
    <2>2. freeNodes > 0 \/ busy # <<>>
      BY <1>3 DEF ReceiveRTP
    <2>. QED BY <1>3, <2>1, <2>2, QueuedNodes
  <1>. QED BY <1>2, <1>3, BusySteps

\* The timestamps of such a stream, too, are all different.
Distinct == OneLap /\ Units > 0 /\ MaxSent * Units <= TSMod

\* A packet of the stream that was received and, if the network may still deliver it
\* again, is in the duplicate window.
Remembered(s) ==
    /\ s \in 0 .. sent - 1
    /\ s >= (sent - 1) - Delay => dups.init /\ dups.array[s % DupWindow] = s

DupInv ==
    /\ IInv
    /\ sent <= MaxSent
    /\ ~up => receiveCount = 0
    /\ up => /\ \A i \in 1 .. Len(busy) :
                   Remembered(busy[i].seq) /\ busy[i].hdr = busy[i].seq * Units
             /\ receiveCount > 0 => Remembered(lastRTPSeq)

LEMMA InFlightTime ==
    ASSUME Distinct, NEW a \in Nat, a < MaxSent
    PROVE  TSOf(a) = a * Units
  <1>1. MaxSent \in Nat /\ Units \in Nat /\ Units > 0 /\ MaxSent * Units <= TSMod
        /\ TSMod \in Nat \ {0}
    BY GALimits, ConstTypes DEF Distinct
  <1>2. a * Units \in 0 .. TSMod - 1
    <2>1. a * Units \in Nat /\ MaxSent - a \in Nat /\ MaxSent - a >= 1
      BY <1>1
    <2>2. (MaxSent - a) * Units >= Units
      BY <1>1, <2>1
    <2>3. (MaxSent - a) * Units = MaxSent * Units - a * Units
      BY <1>1
    <2>4. MaxSent * Units \in Nat
      BY <1>1
    <2>. QED BY <1>1, <2>1, <2>2, <2>3, <2>4
  <1>. QED BY <1>1, <1>2, ModSmall DEF TSOf

\* What the window remembers it does not forget while it matters.
LEMMA RememberedOK ==
    ASSUME Distinct, DupInv, NEW a \in InFlight, NEW ts, NEW size, NEW isRetransmit,
           ReceiveRTP(SeqOf(a), ts, size, isRetransmit),
           NEW s, Remembered(s) \/ s = a
    PROVE  Remembered(s)'
  <1>1. /\ a \in Nat /\ a < sent /\ a >= (sent - 1) - Delay /\ a \in Seqs /\ SeqOf(a) = a
        /\ sent \in Nat /\ DupWindow \in Nat \ {0} /\ Delay \in Nat /\ Delay < DupWindow
    BY InFlightSeq, ConstTypes, GALimits DEF DupInv, Distinct, OneLap, IInv, TypeOK
  <1>2. sent' = sent /\ dups' = DupsAfter(a)
    BY <1>1 DEF ReceiveRTP, envVars
  <1>3. s \in 0 .. sent - 1
    BY <1>1 DEF Remembered
  <1>4. dups \in [init : BOOLEAN, last : Seqs, array : [0 .. DupWindow - 1 -> Seqs]]
    BY DEF DupInv, IInv, TypeOK
  <1>5. s % DupWindow \in 0 .. DupWindow - 1 /\ a % DupWindow \in 0 .. DupWindow - 1
    BY <1>1, <1>3, ModRange
  <1>6. ASSUME s >= (sent - 1) - Delay PROVE dups'.init /\ dups'.array[s % DupWindow] = s
    <2>1. CASE s = a
      BY <1>2, <1>4, <1>5, <2>1 DEF DupsAfter
    <2>2. CASE s # a
      <3>1. dups.init /\ dups.array[s % DupWindow] = s
        BY <1>6, <2>2 DEF Remembered
      <3>2. s % DupWindow # a % DupWindow
        <4>1. s \in Nat /\ s - a < DupWindow /\ a - s < DupWindow
          BY <1>1, <1>3, <1>6
        <4>. QED BY <1>1, <2>2, <4>1, SlotsDiffer
      <3>. QED BY <1>2, <1>4, <1>5, <3>1, <3>2 DEF DupsAfter
    <2>. QED BY <2>1, <2>2
  <1>. QED BY <1>2, <1>3, <1>6 DEF Remembered

LEMMA DupNext ==
    ASSUME Distinct, DupInv, [Next]_vars
    PROVE  DupInv'
  <1>1. IInv /\ IInv' /\ sent \in Nat /\ MaxSent \in Nat /\ sent <= MaxSent
    BY NextOK, GALimits DEF DupInv, IInv, TypeOK
  <1>2. Len(busy) \in Nat
    BY <1>1, LenProperties DEF IInv, TypeOK
  <1>3. ASSUME up, up' = up, sent' \in {sent, sent + 1}, sent' <= MaxSent, UNCHANGED dups,
               receiveCount' \in {0, receiveCount}, lastRTPSeq' = lastRTPSeq,
               \A i \in 1 .. Len(busy') : WasQueued(i)
        PROVE  DupInv'
    <2>2. ASSUME NEW i \in 1 .. Len(busy')
          PROVE  Remembered(busy[i].seq)' /\ busy'[i].hdr = busy'[i].seq * Units
      <3>1. PICK j \in 1 .. Len(busy) : busy'[i].seq = busy[j].seq /\ busy'[i].hdr = busy[j].hdr
        BY <1>3 DEF WasQueued
      <3>2. Remembered(busy[j].seq) /\ busy[j].hdr = busy[j].seq * Units
        BY <1>3 DEF DupInv
      <3>. QED BY <1>1, <1>3, <3>1, <3>2, GALimits DEF Remembered
    <2>3. receiveCount' > 0 => Remembered(lastRTPSeq)'
      BY <1>1, <1>3, GALimits DEF DupInv, Remembered
    <2>. QED BY <1>1, <1>3, <2>2, <2>3 DEF DupInv
  <1>4. ASSUME NEW a \in InFlight, NEW ts, NEW size, NEW isRetransmit,
               ReceiveRTP(SeqOf(a), ts, size, isRetransmit),
               \A i \in 1 .. Len(busy') : WasQueued(i) \/ IsPacket(i, a)
        PROVE  DupInv'
    <2>1. /\ a \in Nat /\ a < sent /\ SeqOf(a) = a /\ TSOf(a) = a * Units
      <3>1. a \in Nat /\ a < sent /\ SeqOf(a) = a
        BY <1>1, InFlightSeq DEF Distinct
      <3>. QED BY <1>1, <3>1, InFlightTime
    <2>2. /\ up /\ up' = up /\ sent' = sent
          /\ lastRTPSeq' \in {lastRTPSeq, a}
          /\ receiveCount' > 0 => receiveCount > 0 \/ lastRTPSeq' = a
      BY <1>4, <2>1 DEF ReceiveRTP, streamVars, envVars
    <2>3. ASSUME NEW s, Remembered(s) \/ s = a PROVE Remembered(s)'
      BY <1>4, <2>3, RememberedOK
    <2>4. ASSUME NEW i \in 1 .. Len(busy')
          PROVE  /\ \E s : (Remembered(s) \/ s = a) /\ busy'[i].seq = s
                 /\ busy'[i].hdr = busy'[i].seq * Units
      <3>1. CASE IsPacket(i, a)
        BY <2>1, <3>1 DEF IsPacket
      <3>2. CASE WasQueued(i)
        BY <2>2, <3>2 DEF WasQueued, DupInv
      <3>. QED BY <1>4, <3>1, <3>2
    <2>5. ASSUME NEW i \in 1 .. Len(busy')
          PROVE  Remembered(busy[i].seq)' /\ busy'[i].hdr = busy'[i].seq * Units
      BY <2>3, <2>4 DEF Remembered
    <2>6. receiveCount' > 0 => Remembered(lastRTPSeq)'
      <3>. SUFFICES ASSUME receiveCount' > 0 PROVE Remembered(lastRTPSeq)'
        OBVIOUS
      <3>1. PICK s : (Remembered(s) \/ s = a) /\ lastRTPSeq' = s
        BY <2>2 DEF DupInv
      <3>. QED BY <2>3, <3>1 DEF Remembered
    <2>. QED BY <1>1, <2>2, <2>5, <2>6 DEF DupInv
  <1>5. ASSUME NEW redundant \in BOOLEAN, Setup(redundant) PROVE DupInv'
    <2>1. busy' = <<>> /\ receiveCount' = 0 /\ sent' = 0 /\ up' = TRUE
      BY <1>5 DEF Setup, DupInv
    <2>2. Len(busy') = 0
      BY <2>1, EmptySeq
    <2>. QED BY <1>1, <2>1, <2>2 DEF DupInv
  <1>6. ASSUME up' = FALSE, receiveCount' = 0, sent' = sent PROVE DupInv'
    BY <1>1, <1>6 DEF DupInv
  <1>7. CASE TearDown
    BY <1>6, <1>7 DEF TearDown, envVars
  <1>8. ASSUME NEW ts, NEW seq, FlushAudio(ts, seq) PROVE DupInv'
    <2>1. UNCHANGED <<up, sent, dups, lastRTPSeq>> /\ receiveCount' = 0
      BY <1>8 DEF FlushAudio, streamVars, envVars
    <2>2. \A i \in 1 .. Len(busy') : WasQueued(i)
      BY <1>1, <1>2, <1>8, FlushSuffix, SuffixQueued DEF WasQueued
    <2>3. up \in BOOLEAN
      BY <1>1 DEF IInv, TypeOK
    <2>. QED BY <1>1, <1>3, <1>6, <2>1, <2>2, <2>3
  <1>9. CASE UNCHANGED <<up, sent, dups, lastRTPSeq, receiveCount>> /\ up
             /\ \A i \in 1 .. Len(busy') : WasQueued(i)
    BY <1>1, <1>3, <1>9
  <1>10. ASSUME UNCHANGED <<up, sent, dups, lastRTPSeq, receiveCount, busy>> PROVE DupInv'
    BY <1>1, <1>10 DEF DupInv, Remembered
  <1>. DEFINE Origin ==
         \/ \A i \in 1 .. Len(busy') : WasQueued(i)
         \/ \E a \in InFlight, size \in {0, Units}, isRetransmit \in BOOLEAN :
              /\ ReceiveRTP(SeqOf(a), TSOf(a), size, isRetransmit)
              /\ \A i \in 1 .. Len(busy') : WasQueued(i) \/ IsPacket(i, a)
  <1>11. Origin
    BY <1>1, NodesOrigin
  <1>12. CASE SenderSends
    <2>1. /\ up /\ up' = up /\ sent' = sent + 1 /\ sent < MaxSent
          /\ UNCHANGED <<dups, lastRTPSeq, receiveCount, busy>>
      BY <1>12 DEF SenderSends, streamVars, trackVars, nodeVars
    <2>2. \A i \in 1 .. Len(busy') : WasQueued(i)
      BY <2>1 DEF WasQueued
    <2>. QED BY <1>1, <1>3, <2>1, <2>2
  <1>13. ASSUME NEW seq, ReceiveFutile(seq) \/ RequestTimesOut(seq) PROVE DupInv'
    BY <1>10, <1>13 DEF ReceiveFutile, RequestTimesOut, streamVars, trackVars, envVars, nodeVars
  <1>. HIDE DEF Origin
  <1>14. CASE ReceiveNothing \/ ReadAudio \/ \E seq : ReceiveDup(seq)
    <2>1. UNCHANGED <<up, sent, dups, lastRTPSeq, receiveCount>> /\ up
      BY <1>14 DEF ReceiveNothing, ReadAudio, ReceiveDup, streamVars, trackVars, envVars
    <2>2. CASE \E a \in InFlight, size \in {0, Units}, isRetransmit \in BOOLEAN :
                 /\ ReceiveRTP(SeqOf(a), TSOf(a), size, isRetransmit)
                 /\ \A i \in 1 .. Len(busy') : WasQueued(i) \/ IsPacket(i, a)
      BY <1>4, <2>2
    <2>. QED BY <1>9, <1>11, <2>1, <2>2 DEF Origin
  <1>15. ASSUME NEW a \in InFlight, NEW size \in {0, Units},
                Arrive(a, size) \/ ArriveRetransmit(a, size)
         PROVE  DupInv'
    <2>1. CASE \E seq : ReceiveDup(seq)
      BY <1>14, <2>1
    <2>2. ASSUME NEW isRetransmit \in BOOLEAN,
                 ReceiveRTP(SeqOf(a), TSOf(a), size, isRetransmit)
          PROVE  DupInv'
      <3>1. CASE \A i \in 1 .. Len(busy') : WasQueued(i)
        BY <1>4, <2>2, <3>1
      <3>. QED BY <1>4, <1>11, <3>1 DEF Origin
    <2>. QED BY <1>15, <2>1, <2>2 DEF Arrive, ArriveRetransmit
  <1>16. CASE UNCHANGED vars
    BY <1>10, <1>16 DEF vars, streamVars, trackVars, envVars, nodeVars
  <1>. QED BY <1>5, <1>7, <1>8, <1>12, <1>13, <1>14, <1>15, <1>16 DEF Next

LEMMA RememberedIsDup ==
    ASSUME Distinct, DupInv, NEW a \in InFlight, Remembered(a)
    PROVE  IsDup(SeqOf(a))
  <1>1. a >= (sent - 1) - Delay /\ SeqOf(a) = a
    BY InFlightSeq DEF DupInv, Distinct
  <1>. QED BY <1>1 DEF Remembered, IsDup

\* A packet that passes the duplicate window is new (_GeneralAudioTrackDups): neither the
\* assertion on duplicate timestamps of _GeneralAudioProcessPacket nor the one on
\* duplicate sequence numbers of _GeneralAudioTrackLosses fires, however the network
\* delays, reorders and repeats packets by less than the window.
THEOREM NewPacketsOnly == Distinct => (Spec => []DuplicateCaught)
  <1>. SUFFICES ASSUME Distinct PROVE Spec => []DuplicateCaught
    OBVIOUS
  <1>1. Init => DupInv
    <2>1. Init => IInv
      BY InitOK
    <2>. QED BY <2>1, GALimits DEF Init, DupInv
  <1>2. DupInv /\ [Next]_vars => DupInv'
    BY DupNext
  <1>3. DupInv => DuplicateCaught
    <2>. SUFFICES ASSUME DupInv, up, NEW a \in InFlight, ~IsDup(SeqOf(a))
                  PROVE  ~TimeSlotTaken(TSOf(a)) /\ (receiveCount > 0 => SeqOf(a) # lastRTPSeq)
      BY DEF DuplicateCaught
    <2>1. IInv /\ sent \in Nat /\ sent <= MaxSent /\ MaxSent \in Nat
      BY GALimits DEF DupInv, IInv, TypeOK
    <2>2. a \in Nat /\ a < sent /\ SeqOf(a) = a /\ ~Remembered(a)
      BY <2>1, InFlightSeq, RememberedIsDup DEF Distinct
    <2>3. TSOf(a) = a * Units
      BY <2>1, <2>2, InFlightTime
    <2>4. receiveCount > 0 => SeqOf(a) # lastRTPSeq
      BY <2>2 DEF DupInv
    <2>5. ASSUME TimeSlotTaken(TSOf(a)) PROVE FALSE
      <3>1. /\ busy \in Seq(Node) /\ Len(busy) \in Nat /\ freeNodes \in Nat
            /\ freeNodes + Len(busy) = NodeCount
        BY <2>1, LenProperties DEF IInv, TypeOK, NodesConserved
      <3>2. freeNodes > 0 \/ busy # <<>>
        BY <3>1, ConstTypes, EmptySeq
      <3>3. PICK h \in 0 .. Len(busy) : Suffix(busy, h, Unstolen)
        BY <2>1, <3>2, UnstolenSuffix
      <3>4. PICK k \in 1 .. Len(Unstolen) : Unstolen[k].hdr = TSOf(a)
        BY <2>5 DEF TimeSlotTaken
      <3>5. PICK j \in 1 .. Len(busy) : busy[j].hdr = a * Units
        BY <2>3, <3>1, <3>3, <3>4, SuffixQueued
      <3>6. Remembered(busy[j].seq) /\ busy[j].seq * Units = a * Units
        BY <3>5 DEF DupInv
      <3>7. busy[j].seq \in Nat
        BY <3>6, <2>1 DEF Remembered
      <3>8. busy[j].seq = a
        <4>1. \A x, y \in Nat : x * Units = y * Units => x = y
          BY ConstTypes DEF Distinct
        <4>. QED BY <2>2, <3>6, <3>7, <4>1
      <3>. QED BY <2>2, <3>6, <3>8
    <2>. QED BY <2>4, <2>5
  <1>. QED BY <1>1, <1>2, <1>3, PTL DEF Spec
----------------------------------------------------------------------------
(* Flushing *)

\* A stream whose timestamps, and the ends of its flushes, stay within half of the
\* timestamps (13 hours), on a network that does not delay by more than a flush outlives
\* its target (3 seconds).
FlushFits ==
    /\ Units > 0 /\ 2 * (MaxSent * Units + FlushWindow) < TSMod
    /\ Delay * Units <= FlushWindow

\* Times of such a stream compare like the integers they are.
LEMMA FlushTimes ==
    ASSUME FlushFits
    PROVE  /\ MaxSent * Units \in Nat
           /\ \A a \in 0 .. MaxSent : a * Units \in 0 .. MaxSent * Units
           /\ \A a \in 0 .. MaxSent : TSOf(a) = a * Units
           /\ \A a \in 0 .. MaxSent :
                 ((a * Units) + FlushWindow) % TSMod = (a * Units) + FlushWindow
           /\ \A x, y \in 0 .. MaxSent * Units + FlushWindow : ModCmp(x, y, TSMod) = x - y
  <1>. DEFINE top == MaxSent * Units
  <1>1. MaxSent \in Nat /\ Units \in Nat /\ TSMod \in Nat \ {0} /\ FlushWindow \in Nat
    BY GALimits, ConstTypes
  <1>2. top \in Nat
    BY <1>1
  <1>3. ASSUME NEW a \in 0 .. MaxSent PROVE a * Units \in 0 .. top
    <2>1. a * Units \in Nat /\ MaxSent - a \in Nat /\ (MaxSent - a) * Units >= 0
      BY <1>1
    <2>2. (MaxSent - a) * Units = (MaxSent * Units) - (a * Units)
      BY <1>1
    <2>. QED BY <1>1, <1>2, <2>1, <2>2
  <1>4. 2 * (top + FlushWindow) < TSMod
    BY DEF FlushFits
  <1>. HIDE DEF top
  <1>5. ASSUME NEW x \in 0 .. top + FlushWindow PROVE x \in 0 .. TSMod - 1 /\ x % TSMod = x
    <2>1. x \in 0 .. TSMod - 1
      BY <1>1, <1>2, <1>4
    <2>. QED BY <1>1, <2>1, ModSmall
  <1>6. ASSUME NEW a \in 0 .. MaxSent
        PROVE  TSOf(a) = a * Units /\ ((a * Units) + FlushWindow) % TSMod = (a * Units) + FlushWindow
    <2>1. a * Units \in 0 .. top
      BY <1>3
    <2>2. a * Units \in 0 .. top + FlushWindow /\ (a * Units) + FlushWindow \in 0 .. top + FlushWindow
      BY <1>1, <1>2, <2>1
    <2>. QED BY <1>5, <2>2 DEF TSOf
  <1>7. ASSUME NEW x \in 0 .. top + FlushWindow, NEW y \in 0 .. top + FlushWindow
        PROVE  ModCmp(x, y, TSMod) = x - y
    <2>1. x \in 0 .. TSMod - 1 /\ y \in 0 .. TSMod - 1 /\ 2 * (x - y) < TSMod /\ 2 * (y - x) < TSMod
      BY <1>1, <1>2, <1>4, <1>5
    <2>. QED BY <1>1, <2>1, ModCmpNear
  <1>. QED BY <1>2, <1>3, <1>6, <1>7 DEF top

\* The list is in the order of its packets, each of them sent on this stream.
Ascending(q) == \A i, j \in 1 .. Len(q) : i < j => q[i].hdr < q[j].hdr
OfStream(q) == \A i \in 1 .. Len(q) : \E a \in 0 .. sent - 1 : q[i].hdr = a * Units

LEMMA AscendingSuffix ==
    ASSUME NEW q, NEW k, NEW r, Suffix(q, k, r), Len(q) \in Nat, Ascending(q)
    PROVE  Ascending(r)
  <1>1. \A i \in 1 .. Len(r) : k + i \in 1 .. Len(q) /\ r[i].hdr = q[k + i].hdr
    BY DEF Suffix
  <1>2. k \in Nat /\ Len(r) \in Nat
    BY DEF Suffix
  <1>3. \A i, j \in 1 .. Len(r) : i < j => k + i < k + j
    BY <1>2
  <1>. QED BY <1>1, <1>3 DEF Ascending

LEMMA AscendingOK ==
    ASSUME FlushFits, IInv, sent <= MaxSent, [Next]_vars, Ascending(busy), OfStream(busy)
    PROVE  Ascending(busy')
  <1>1. busy \in Seq(Node) /\ Len(busy) \in Nat /\ sent \in Nat /\ MaxSent \in Nat
    BY LenProperties, GALimits DEF IInv, TypeOK
  <1>2. ASSUME NEW k \in 0 .. Len(busy), Suffix(busy, k, busy') PROVE Ascending(busy')
    BY <1>1, <1>2, AscendingSuffix
  <1>3. ASSUME NEW a \in InFlight, NEW size \in {0, Units}, NEW isRetransmit \in BOOLEAN,
               ReceiveRTP(SeqOf(a), TSOf(a), size, isRetransmit),
               QueuePacket(SeqOf(a), TSOf(a), size), ~TimeSlotTaken(TSOf(a))
        PROVE  Ascending(busy')
    <2>. DEFINE q == Unstolen
                ts == TSOf(a)
                top == MaxSent * Units + FlushWindow
    <2>1. SeqOf(a) \in Seqs /\ ts \in Times /\ size \in 0 .. Units
      BY PacketTypes, ConstTypes DEF InFlight, IInv, TypeOK
    <2>2. freeNodes > 0 \/ busy # <<>>
      BY <1>3 DEF ReceiveRTP
    <2>3. PICK h \in 0 .. Len(busy) : Suffix(busy, h, q)
      BY <2>2, UnstolenSuffix
    <2>4. q \in Seq(Node) /\ Len(q) \in Nat /\ Ascending(q)
      BY <1>1, <2>2, <2>3, UnstolenSuffix, AscendingSuffix, LenProperties
    <2>5. PICK k \in 0 .. Len(q) : WalkStopsAt(q, k, ts) /\ Inserted(q, k, SeqOf(a), ts, busy')
      BY <1>3, <2>1, <2>2, QueuePacketInserts
    <2>6. top \in Nat /\ ts \in 0 .. top /\ \A i \in 1 .. Len(q) : q[i].hdr \in 0 .. top
      <3>1. a \in 0 .. MaxSent
        BY <1>1 DEF InFlight
      <3>2. ts \in 0 .. MaxSent * Units /\ MaxSent * Units \in Nat
        BY <3>1, FlushTimes
      <3>3. ASSUME NEW i \in 1 .. Len(q) PROVE q[i].hdr \in 0 .. MaxSent * Units
        <4>1. PICK j \in 1 .. Len(busy) : q[i].hdr = busy[j].hdr
          BY <1>1, <2>3, SuffixQueued
        <4>2. PICK b \in 0 .. sent - 1 : busy[j].hdr = b * Units
          BY DEF OfStream
        <4>3. b \in 0 .. MaxSent
          BY <1>1
        <4>. QED BY <4>1, <4>2, <4>3, FlushTimes
      <3>. QED BY <3>2, <3>3, GALimits, SMTT(60)
    <2>7. \A i \in 1 .. Len(q) : ModCmp(q[i].hdr, ts, TSMod) = q[i].hdr - ts
      BY <2>6, FlushTimes
    <2>8. k > 0 => q[k].hdr # ts
      BY <1>3, <2>4, <2>5 DEF TimeSlotTaken
    <2>. HIDE DEF q, ts, top
    <2>9. \A i \in 1 .. k : q[i].hdr < ts
      <3>. SUFFICES ASSUME NEW i \in 1 .. k PROVE q[i].hdr < ts
        OBVIOUS
      <3>1. k \in 1 .. Len(q) /\ i \in 1 .. Len(q)
        BY <2>4
      <3>2. q[k].hdr < ts
        <4>1. ~(ModCmp(q[k].hdr, ts, TSMod) > 0)
          BY <2>5, <3>1 DEF WalkStopsAt, ModGT
        <4>. QED BY <2>6, <2>7, <2>8, <3>1, <4>1
      <3>3. i < k => q[i].hdr < q[k].hdr
        BY <2>4, <3>1 DEF Ascending
      <3>. QED BY <2>6, <3>1, <3>2, <3>3
    <2>10. \A i \in k + 1 .. Len(q) : ts < q[i].hdr
      <3>. SUFFICES ASSUME NEW i \in k + 1 .. Len(q) PROVE ts < q[i].hdr
        OBVIOUS
      <3>1. i \in 1 .. Len(q) /\ ModCmp(q[i].hdr, ts, TSMod) > 0
        BY <2>4, <2>5 DEF WalkStopsAt, ModGT
      <3>. QED BY <2>6, <2>7, <3>1
    <2>11. /\ Len(busy') = Len(q) + 1 /\ busy'[k + 1].hdr = ts
           /\ \A i \in 1 .. k : busy'[i] = q[i]
           /\ \A i \in k + 2 .. Len(busy') : busy'[i] = q[i - 1]
      BY <2>5 DEF Inserted
    <2>. SUFFICES ASSUME NEW i \in 1 .. Len(busy'), NEW j \in 1 .. Len(busy'), i < j
                  PROVE  busy'[i].hdr < busy'[j].hdr
      BY DEF Ascending
    <2>12. CASE i <= k /\ j <= k
      <3>1. i \in 1 .. k /\ j \in 1 .. k /\ i \in 1 .. Len(q) /\ j \in 1 .. Len(q)
        BY <2>4, <2>12
      <3>. QED BY <2>4, <2>11, <3>1 DEF Ascending
    <2>13. CASE i <= k /\ j = k + 1
      <3>1. i \in 1 .. k
        BY <2>13
      <3>. QED BY <2>9, <2>11, <2>13, <3>1
    <2>14. CASE i <= k /\ j > k + 1
      <3>1. i \in 1 .. k /\ j \in k + 2 .. Len(busy') /\ i \in 1 .. Len(q) /\ j - 1 \in 1 .. Len(q)
            /\ i < j - 1
        BY <2>4, <2>11, <2>14
      <3>. QED BY <2>4, <2>11, <3>1 DEF Ascending
    <2>15. CASE i = k + 1
      <3>1. j \in k + 2 .. Len(busy') /\ j - 1 \in k + 1 .. Len(q)
        BY <2>4, <2>11, <2>15
      <3>. QED BY <2>10, <2>11, <2>15, <3>1
    <2>16. CASE i > k + 1
      <3>1. /\ i \in k + 2 .. Len(busy') /\ j \in k + 2 .. Len(busy')
            /\ i - 1 \in 1 .. Len(q) /\ j - 1 \in 1 .. Len(q) /\ i - 1 < j - 1
        BY <2>4, <2>11, <2>16
      <3>. QED BY <2>4, <2>11, <3>1 DEF Ascending
    <2>. QED BY <2>4, <2>12, <2>13, <2>14, <2>15, <2>16
  <1>. QED BY <1>2, <1>3, BusySteps

\* No more packets are sent than the bound.
LEMMA SentBounded ==
    ASSUME IInv, sent <= MaxSent, [Next]_vars
    PROVE  sent' \in Nat /\ sent' <= MaxSent
  <1>1. sent \in Nat /\ MaxSent \in Nat
    BY GALimits DEF IInv, TypeOK
  <1>2. \/ sent' = sent \/ sent' = 0 \/ (sent < MaxSent /\ sent' = sent + 1)
    BY DEF Next, Setup, TearDown, FlushAudio, ReceiveNothing, ReceiveFutile, ReadAudio,
           SenderSends, RequestTimesOut, Arrive, ArriveRetransmit, ReceiveDup, ReceiveRTP,
           envVars, vars
  <1>. QED BY <1>1, <1>2

\* On a stream that stays up only a flush changes what is flushed, and only a packet ends it.
LEMMA OtherSteps ==
    ASSUME IInv, up, up', [Next]_vars, ~Flushes
    PROVE  \/ \E a \in InFlight, size \in {0, Units}, isRetransmit \in BOOLEAN :
                 ReceiveRTP(SeqOf(a), TSOf(a), size, isRetransmit)
           \/ /\ UNCHANGED flushVars
              /\ \A i \in 1 .. Len(busy') : WasQueued(i)
  <1>. DEFINE Receives == \E a \in InFlight, size \in {0, Units}, isRetransmit \in BOOLEAN :
                             ReceiveRTP(SeqOf(a), TSOf(a), size, isRetransmit)
  <1>1. Receives \/ \A i \in 1 .. Len(busy') : WasQueued(i)
    BY NodesOrigin
  <1>2. Receives \/ UNCHANGED flushVars
    <2>1. CASE \E redundant \in BOOLEAN : Setup(redundant)
      BY <2>1 DEF Setup
    <2>2. CASE TearDown
      BY <2>2 DEF TearDown
    <2>3. CASE \E a \in InFlight \cup {sent} : FlushAudio(TSOf(a), SeqOf(a))
      BY <2>3 DEF Flushes
    <2>4. CASE \E a \in InFlight, size \in {0, Units} : Arrive(a, size) \/ ArriveRetransmit(a, size)
      <3>1. ASSUME NEW seq, ReceiveDup(seq) PROVE UNCHANGED flushVars
        BY <3>1 DEF ReceiveDup
      <3>. QED BY <2>4, <3>1 DEF Arrive, ArriveRetransmit
    <2>5. CASE ReceiveNothing \/ ReadAudio \/ SenderSends
               \/ \E seq : ReceiveFutile(seq) \/ RequestTimesOut(seq)
      BY <2>5 DEF ReceiveNothing, ReadAudio, SenderSends, ReceiveFutile, RequestTimesOut
    <2>6. CASE UNCHANGED vars
      BY <2>6 DEF vars
    <2>. QED BY <2>1, <2>2, <2>3, <2>4, <2>5, <2>6 DEF Next
  <1>. QED BY <1>1, <1>2

\* The flush target, and what it leaves behind: while flushing is on packets before the
\* target are refused, and by the time it ends the network delivers none of them.
TargetIs(f) ==
    /\ flushUntilTS = f * Units /\ flushTimeoutTS = (f * Units) + FlushWindow
    /\ \A i \in 1 .. Len(busy) : busy[i].hdr >= f * Units
    /\ ~flushing => (sent - 1) - Delay >= f

FlushInv ==
    /\ IInv
    /\ sent <= MaxSent
    /\ flushed \in BOOLEAN /\ (flushed => up)
    /\ up => Ascending(busy) /\ OfStream(busy)
    /\ flushed => \E f \in 0 .. sent : TargetIs(f)

LEMMA FlushSets ==
    ASSUME FlushFits, FlushInv, up, Flushes
    PROVE  \E f \in 0 .. sent : TargetIs(f)'
  <1>1. PICK f \in InFlight \cup {sent} : FlushAudio(TSOf(f), SeqOf(f))
    BY DEF Flushes
  <1>2. /\ busy \in Seq(Node) /\ Len(busy) \in Nat /\ sent \in Nat /\ MaxSent \in Nat
        /\ sent <= MaxSent /\ IInv /\ Ascending(busy) /\ OfStream(busy)
    BY LenProperties, GALimits DEF FlushInv, IInv, TypeOK
  <1>3. f \in 0 .. sent /\ f \in 0 .. MaxSent
    BY <1>2 DEF InFlight
  <1>4. /\ TSOf(f) = f * Units /\ ((f * Units) + FlushWindow) % TSMod = (f * Units) + FlushWindow
        /\ f * Units \in 0 .. MaxSent * Units /\ MaxSent * Units \in Nat
    BY <1>3, FlushTimes
  <1>5. /\ flushUntilTS' = f * Units /\ flushTimeoutTS' = (f * Units) + FlushWindow
        /\ flushing' = TRUE
    BY <1>1, <1>4 DEF FlushAudio
  <1>6. PICK k \in 0 .. Len(busy) : FlushesPrefix(k, TSOf(f), SeqOf(f)) /\ Suffix(busy, k, busy')
    BY <1>1, <1>2, FlushSuffix
  <1>7. ASSUME NEW i \in 1 .. Len(busy') PROVE busy'[i].hdr >= f * Units
    <2>1. /\ k + 1 \in 1 .. Len(busy) /\ k + i \in 1 .. Len(busy) /\ k < Len(busy)
          /\ busy'[i].hdr = busy[k + i].hdr /\ i >= 1 /\ (i > 1 => k + 1 < k + i)
      BY <1>2, <1>6 DEF Suffix
    <2>2. PICK b \in 0 .. sent - 1 : busy[k + 1].hdr = b * Units
      BY <1>2, <2>1 DEF OfStream
    <2>3. PICK c \in 0 .. sent - 1 : busy[k + i].hdr = c * Units
      BY <1>2, <2>1 DEF OfStream
    <2>4. b * Units \in 0 .. MaxSent * Units /\ c * Units \in 0 .. MaxSent * Units
      <3>1. b \in 0 .. MaxSent /\ c \in 0 .. MaxSent
        BY <1>2
      <3>. QED BY <3>1, FlushTimes
    <2>5. ModCmp(busy[k + 1].hdr, TSOf(f), TSMod) >= 0
      BY <1>6, <2>1 DEF FlushesPrefix, ModGE
    <2>6. ModCmp(b * Units, f * Units, TSMod) = b * Units - f * Units
      <3>1. b * Units \in 0 .. MaxSent * Units + FlushWindow /\ f * Units \in 0 .. MaxSent * Units + FlushWindow
        BY <1>4, <2>4, GALimits, SMTT(60)
      <3>. QED BY <3>1, FlushTimes
    <2>7. busy[k + 1].hdr >= f * Units
      BY <1>4, <2>2, <2>4, <2>5, <2>6
    <2>8. CASE i = 1
      BY <2>1, <2>7, <2>8
    <2>9. CASE i > 1
      <3>1. busy[k + 1].hdr < busy[k + i].hdr
        BY <1>2, <2>1, <2>9 DEF Ascending
      <3>. QED BY <1>4, <2>1, <2>2, <2>3, <2>4, <2>7, <3>1
    <2>. QED BY <2>1, <2>8, <2>9
  <1>. QED BY <1>3, <1>5, <1>7 DEF TargetIs

\* A packet is queued if it is not before the target, and ends the flush if it is a
\* FlushWindow behind it.
LEMMA FlushReceive ==
    ASSUME FlushFits, FlushInv, NEW f \in 0 .. sent, TargetIs(f),
           NEW a \in InFlight, NEW size, NEW isRetransmit,
           ReceiveRTP(SeqOf(a), TSOf(a), size, isRetransmit),
           \/ \A i \in 1 .. Len(busy') : WasQueued(i)
           \/ /\ QueuePacket(SeqOf(a), TSOf(a), size)
              /\ \A i \in 1 .. Len(busy') : WasQueued(i) \/ IsPacket(i, a)
    PROVE  TargetIs(f)'
  <1>1. /\ sent \in Nat /\ MaxSent \in Nat /\ Delay \in Nat /\ FlushWindow \in Nat /\ Units \in Nat
        /\ sent <= MaxSent /\ Units > 0 /\ Delay * Units <= FlushWindow
    BY GALimits, ConstTypes DEF FlushInv, IInv, TypeOK, FlushFits
  <1>2. a \in 0 .. sent - 1 /\ a >= (sent - 1) - Delay /\ a \in 0 .. MaxSent /\ f \in 0 .. MaxSent
    BY <1>1 DEF InFlight
  <1>3. /\ TSOf(a) = a * Units /\ a * Units \in 0 .. MaxSent * Units
        /\ f * Units \in 0 .. MaxSent * Units /\ MaxSent * Units \in Nat
    BY <1>2, FlushTimes
  <1>4. /\ ModCmp(a * Units, f * Units, TSMod) = a * Units - f * Units
        /\ ModCmp(a * Units, (f * Units) + FlushWindow, TSMod)
              = a * Units - ((f * Units) + FlushWindow)
    <2>1. /\ a * Units \in 0 .. MaxSent * Units + FlushWindow
          /\ f * Units \in 0 .. MaxSent * Units + FlushWindow
          /\ (f * Units) + FlushWindow \in 0 .. MaxSent * Units + FlushWindow
      BY <1>1, <1>3
    <2>. QED BY <2>1, FlushTimes
  <1>5. /\ UNCHANGED <<flushUntilTS, flushTimeoutTS>> /\ sent' = sent
        /\ flushing' = StillFlushing(TSOf(a))
        /\ (flushing /\ ModLT(TSOf(a), flushUntilTS, TSMod)) => DropPacket
    BY DEF ReceiveRTP, envVars
  <1>6. flushing \in BOOLEAN /\ Len(busy) \in Nat
    BY LenProperties DEF FlushInv, IInv, TypeOK
  <1>7. ASSUME flushing, a * Units >= (f * Units) + FlushWindow PROVE (sent - 1) - Delay >= f
    <2>1. (a - f) * Units = (a * Units) - (f * Units)
      BY <1>1, <1>2
    <2>2. (a - f) * Units >= Delay * Units
      BY <1>1, <1>3, <1>7, <2>1
    <2>3. a - f >= Delay
      <3>1. \A d \in Int : d >= 1 => d * Units > 0
        BY <1>1
      <3>2. (Delay - (a - f)) * Units = (Delay * Units) - ((a - f) * Units)
        BY <1>1, <1>2
      <3>3. /\ Delay * Units \in Int /\ (a - f) * Units \in Int
            /\ Delay - (a - f) \in Int
        BY <1>1, <1>2
      <3>4. ~(Delay - (a - f) >= 1)
        BY <2>2, <3>1, <3>2, <3>3
      <3>. QED BY <1>1, <1>2, <3>4
    <2>. QED BY <1>1, <1>2, <2>3
  <1>8. ~flushing' => (sent' - 1) - Delay >= f
    <2>1. CASE ~flushing
      BY <1>5, <2>1 DEF TargetIs
    <2>2. CASE flushing
      <3>1. ~flushing' => ~(ModCmp(a * Units, (f * Units) + FlushWindow, TSMod) < 0)
        BY <1>3, <1>5, <2>2 DEF StillFlushing, TargetIs, ModLT
      <3>2. ~flushing' => a * Units >= (f * Units) + FlushWindow
        BY <1>1, <1>3, <1>4, <3>1
      <3>. QED BY <1>5, <1>7, <2>2, <3>2
    <2>. QED BY <1>6, <2>1, <2>2
  <1>9. ASSUME ~(flushing /\ ModLT(TSOf(a), flushUntilTS, TSMod)) PROVE a * Units >= f * Units
    <2>1. CASE flushing
      BY <1>3, <1>4, <1>9, <2>1 DEF TargetIs, ModLT
    <2>2. CASE ~flushing
      <3>1. a >= f
        BY <1>1, <1>2, <2>2 DEF TargetIs
      <3>2. (a - f) * Units = (a * Units) - (f * Units) /\ (a - f) * Units >= 0
        BY <1>1, <1>2, <3>1
      <3>. QED BY <1>3, <3>2
    <2>. QED BY <1>6, <2>1, <2>2
  <1>10. ASSUME NEW i \in 1 .. Len(busy'), WasQueued(i) PROVE busy'[i].hdr >= f * Units
    BY <1>10 DEF WasQueued, TargetIs
  <1>11. ASSUME NEW i \in 1 .. Len(busy') PROVE busy'[i].hdr >= f * Units
    <2>1. CASE \A j \in 1 .. Len(busy') : WasQueued(j)
      BY <1>10, <2>1
    <2>2. CASE ~(flushing /\ ModLT(TSOf(a), flushUntilTS, TSMod))
      BY <1>3, <1>9, <1>10, <2>2 DEF IsPacket
    <2>3. CASE /\ QueuePacket(SeqOf(a), TSOf(a), size) /\ DropPacket
               /\ ~\A j \in 1 .. Len(busy') : WasQueued(j)
      \* A packet is not both queued and dropped: what is dropped adds no node.
      <3>1. freeNodes' = FreeAfterTake /\ freeNodes' = FreeAfterTake + 1
        BY <2>3 DEF QueuePacket, DropPacket
      <3>2. FreeAfterTake \in Nat
        BY DEF FreeAfterTake, FlushInv, IInv, TypeOK
      <3>. QED BY <3>1, <3>2
    <2>. QED BY <1>5, <2>1, <2>2, <2>3
  <1>. QED BY <1>5, <1>8, <1>11 DEF TargetIs

\* What was sent stays sent.
LEMMA MoreSent ==
    ASSUME NEW n \in Nat, NEW m \in Nat, m >= n
    PROVE  /\ \A a \in 0 .. n - 1 : a \in 0 .. m - 1
           /\ \A f \in 0 .. n : (n - 1) - Delay >= f => (m - 1) - Delay >= f
  BY GALimits

LEMMA FlushNext ==
    ASSUME FlushFits, FlushInv, [NextStreams]_<<vars, flushed>>
    PROVE  FlushInv'
  <1>1. [Next]_vars
    BY DEF NextStreams
  <1>2. IInv /\ IInv' /\ sent' <= MaxSent /\ sent \in Nat /\ sent' \in Nat
    <2>1. IInv /\ sent <= MaxSent
      BY DEF FlushInv
    <2>2. IInv' /\ sent' <= MaxSent /\ sent' \in Nat
      BY <1>1, <2>1, NextOK, SentBounded
    <2>. QED BY <2>1, <2>2 DEF IInv, TypeOK
  <1>3. \/ flushed' = (up /\ up' /\ (flushed \/ Flushes))
        \/ flushed' = flushed /\ up' = up /\ UNCHANGED vars
    BY DEF NextStreams, vars, streamVars
  <1>4. flushed' \in BOOLEAN /\ (flushed' => up')
    <2>1. flushed \in BOOLEAN /\ (flushed => up)
      BY DEF FlushInv
    <2>2. CASE flushed' = (up /\ up' /\ (flushed \/ Flushes))
      <3>1. (up /\ up' /\ (flushed \/ Flushes)) \in BOOLEAN
        OBVIOUS
      <3>. QED BY <2>2, <3>1
    <2>3. CASE flushed' = flushed /\ up' = up
      BY <2>1, <2>3
    <2>. QED BY <1>3, <2>2, <2>3
  <1>5. CASE ~up'
    BY <1>2, <1>4, <1>5 DEF FlushInv
  <1>6. CASE ~up /\ up'
    <2>1. \E redundant \in BOOLEAN : Setup(redundant)
      BY <1>1, <1>6 DEF Next, TearDown, FlushAudio, ReceiveNothing, ReceiveFutile, ReadAudio,
         SenderSends, RequestTimesOut, Arrive, ArriveRetransmit, ReceiveDup, ReceiveRTP,
         streamVars, vars
    <2>2. busy' = <<>>
      BY <2>1 DEF Setup
    <2>3. Len(busy') = 0
      BY <2>2, EmptySeq
    <2>4. Ascending(busy') /\ OfStream(busy)'
      BY <2>3 DEF Ascending, OfStream
    <2>5. ~flushed'
      BY <1>3, <1>6 DEF FlushInv
    <2>. QED BY <1>2, <1>4, <2>4, <2>5 DEF FlushInv
  <1>7. CASE up /\ up'
    <2>1. Ascending(busy) /\ OfStream(busy) /\ sent <= MaxSent
      BY <1>7 DEF FlushInv
    <2>2. Ascending(busy')
      BY <1>1, <1>2, <2>1, AscendingOK
    <2>3. sent \in Nat /\ sent' \in Nat /\ sent' >= sent
      <3>1. sent' = sent \/ sent' = sent + 1
        BY <1>1, <1>7 DEF Next, Setup, TearDown, FlushAudio, ReceiveNothing, ReceiveFutile,
           ReadAudio, SenderSends, RequestTimesOut, Arrive, ArriveRetransmit, ReceiveDup,
           ReceiveRTP, envVars, vars
      <3>. QED BY <1>2, <3>1
    <2>4. ASSUME NEW i \in 1 .. Len(busy'), WasQueued(i)
          PROVE  \E a \in 0 .. sent' - 1 : busy'[i].hdr = a * Units
      <3>1. PICK a \in 0 .. sent - 1 : busy'[i].hdr = a * Units
        BY <2>1, <2>4 DEF WasQueued, OfStream
      <3>2. a \in 0 .. sent' - 1
        BY <2>3, <3>1, MoreSent
      <3>. QED BY <3>1, <3>2
    <2>5. ASSUME NEW a \in InFlight, NEW i \in 1 .. Len(busy'), IsPacket(i, a)
          PROVE  \E b \in 0 .. sent' - 1 : busy'[i].hdr = b * Units
      <3>1. a \in 0 .. sent - 1 /\ a \in 0 .. MaxSent /\ a \in 0 .. sent' - 1
        <4>1. a \in 0 .. sent - 1 /\ a \in 0 .. MaxSent
          BY <2>1, <2>3, <2>5, GALimits DEF InFlight
        <4>. QED BY <2>3, <4>1, MoreSent
      <3>2. TSOf(a) = a * Units
        BY <3>1, FlushTimes
      <3>. QED BY <2>5, <3>1, <3>2 DEF IsPacket
    <2>6. OfStream(busy)'
      BY <1>1, <1>2, <2>4, <2>5, NodesOrigin DEF OfStream
    <2>7. flushed' => \E f \in 0 .. sent' : TargetIs(f)'
      <3>. SUFFICES ASSUME flushed' PROVE \E f \in 0 .. sent' : TargetIs(f)'
        OBVIOUS
      <3>1. CASE Flushes
        <4>1. PICK f \in 0 .. sent : TargetIs(f)'
          BY <1>7, <3>1, FlushSets
        <4>2. f \in 0 .. sent'
          BY <1>2, <2>3
        <4>. QED BY <4>1, <4>2
      <3>2. CASE ~Flushes
        <4>1. flushed
          BY <1>3, <3>2
        <4>2. PICK f \in 0 .. sent : TargetIs(f)
          BY <4>1 DEF FlushInv
        <4>3. f \in 0 .. sent'
          BY <1>2, <2>3
        <4>4. ASSUME NEW a \in InFlight, NEW size \in {0, Units}, NEW isRetransmit \in BOOLEAN,
                     ReceiveRTP(SeqOf(a), TSOf(a), size, isRetransmit)
              PROVE  TargetIs(f)'
          <5>1. CASE \A i \in 1 .. Len(busy') : WasQueued(i)
            BY <4>2, <4>4, <5>1, FlushReceive
          <5>2. ASSUME NEW b \in InFlight, NEW size2 \in {0, Units}, NEW again \in BOOLEAN,
                       ReceiveRTP(SeqOf(b), TSOf(b), size2, again),
                       QueuePacket(SeqOf(b), TSOf(b), size2),
                       \A i \in 1 .. Len(busy') : WasQueued(i) \/ IsPacket(i, b)
                PROVE  TargetIs(f)'
            BY <4>2, <5>2, FlushReceive
          <5>. QED BY <1>1, <1>2, <5>1, <5>2, NodesOrigin
        <4>5. ASSUME UNCHANGED flushVars, \A i \in 1 .. Len(busy') : WasQueued(i)
              PROVE  TargetIs(f)'
          <5>1. \A i \in 1 .. Len(busy') : busy'[i].hdr >= f * Units
            BY <4>2, <4>5 DEF WasQueued, TargetIs
          <5>2. ~flushing' => (sent' - 1) - Delay >= f
            <6>1. (~flushing => (sent - 1) - Delay >= f) /\ flushing' = flushing
              BY <4>2, <4>5 DEF TargetIs, flushVars
            <6>2. (sent - 1) - Delay >= f => (sent' - 1) - Delay >= f
              BY <2>3, <4>2, MoreSent
            <6>. QED BY <6>1, <6>2
          <5>. QED BY <4>2, <4>5, <5>1, <5>2 DEF TargetIs, flushVars
        <4>6. TargetIs(f)'
          BY <1>1, <1>2, <1>7, <3>2, <4>4, <4>5, OtherSteps
        <4>. QED BY <4>3, <4>6
      <3>. QED BY <3>1, <3>2
    <2>. QED BY <1>2, <1>4, <2>2, <2>6, <2>7 DEF FlushInv
  <1>. QED BY <1>2, <1>5, <1>6, <1>7

\* From a flush on (AirPlayReceiverSessionFlushAudio), and after the receiver has taken
\* it for completed, no packet of before its target is queued for playing, in whatever
\* order the network delivers packets of before and after it.
THEOREM FlushedAudioIsGone == FlushFits => (SpecStreams => []FlushedNotQueued)
  <1>. SUFFICES ASSUME FlushFits PROVE SpecStreams => []FlushedNotQueued
    OBVIOUS
  <1>1. InitStreams => FlushInv
    <2>1. Init => IInv
      BY InitOK
    <2>2. Init => sent = 0 /\ up = FALSE
      BY DEF Init
    <2>. SUFFICES ASSUME InitStreams PROVE FlushInv
      OBVIOUS
    <2>3. IInv /\ sent = 0 /\ ~up /\ flushed = FALSE
      BY <2>1, <2>2 DEF InitStreams
    <2>4. sent <= MaxSent
      BY <2>3, GALimits
    <2>. QED BY <2>3, <2>4 DEF FlushInv
  <1>2. FlushInv /\ [NextStreams]_<<vars, flushed>> => FlushInv'
    BY FlushNext
  <1>3. FlushInv => FlushedNotQueued
    <2>. SUFFICES ASSUME FlushInv, flushed, NEW i \in 1 .. Len(busy)
                  PROVE  ModGE(busy[i].hdr, flushUntilTS, TSMod)
      BY DEF FlushedNotQueued
    <2>1. PICK f \in 0 .. sent : TargetIs(f)
      BY DEF FlushInv
    <2>2. PICK a \in 0 .. sent - 1 : busy[i].hdr = a * Units
      BY DEF FlushInv, OfStream
    <2>3. sent \in Nat /\ sent <= MaxSent /\ MaxSent \in Nat
      BY GALimits DEF FlushInv, IInv, TypeOK
    <2>4. a \in 0 .. MaxSent /\ f \in 0 .. MaxSent
      BY <2>3
    <2>5. a * Units \in 0 .. MaxSent * Units /\ f * Units \in 0 .. MaxSent * Units
          /\ MaxSent * Units \in Nat
      BY <2>4, FlushTimes
    <2>6. ModCmp(a * Units, f * Units, TSMod) = a * Units - f * Units
      <3>1. /\ a * Units \in 0 .. MaxSent * Units + FlushWindow
            /\ f * Units \in 0 .. MaxSent * Units + FlushWindow
        BY <2>5, GALimits
      <3>. QED BY <3>1, FlushTimes
    <2>. QED BY <2>1, <2>2, <2>5, <2>6 DEF TargetIs, ModGE
  <1>. QED BY <1>1, <1>2, <1>3, PTL DEF SpecStreams
----------------------------------------------------------------------------
(* What is asked for, and what is there *)

\* Between two flushes: packets are queued, and asked for, up to the last one received;
\* what is queued is not asked for.  The receiver is never half a lap behind the sender.
QueuedInv ==
    /\ ReqInv
    /\ ~rtDangling
    /\ receiveCount > 0 => 2 * ((sent - 1) - lastRTPSeq) < SeqMod
    /\ \A s \in asked : receiveCount > 0 /\ s <= lastRTPSeq
    /\ up => \A i \in 1 .. Len(busy) :
                /\ receiveCount > 0 /\ busy[i].seq <= lastRTPSeq
                /\ ~rtcpRTDisable => busy[i].seq \notin DOMAIN rt.busy

LEMMA UnflushedSteps ==
    ASSUME [NextUnflushed]_<<vars, flushed>>
    PROVE  [Next]_vars
  <1>. SUFFICES ASSUME NextUnflushed PROVE Next
    BY DEF vars
  <1>1. ASSUME NEW a \in InFlight, Arrive(a, Units) \/ ArriveRetransmit(a, Units) PROVE Next
    <2>1. \E size \in {0, Units} : Arrive(a, size) \/ ArriveRetransmit(a, size)
      BY <1>1
    <2>. QED BY <2>1 DEF Next, NextUnflushed
  <1>. QED BY <1>1 DEF Next, NextUnflushed

\* Steps that receive no new packet take nodes and requests away.
LEMMA QueuedKept ==
    ASSUME QueuedInv, ReqInv',
           UNCHANGED <<up, receiveCount, lastRTPSeq, rtDangling, rtcpRTDisable>>,
           DOMAIN rt'.busy \subseteq DOMAIN rt.busy, asked' \subseteq asked,
           sent' = sent \/ (receiveCount > 0 => 2 * ((sent' - 1) - lastRTPSeq) < SeqMod),
           up => \A i \in 1 .. Len(busy') : WasQueued(i)
    PROVE  QueuedInv'
  <1>1. ASSUME NEW i \in 1 .. Len(busy'), up
        PROVE  /\ receiveCount > 0 /\ busy'[i].seq <= lastRTPSeq
               /\ ~rtcpRTDisable => busy'[i].seq \notin DOMAIN rt'.busy
    <2>1. PICK j \in 1 .. Len(busy) : busy'[i].seq = busy[j].seq
      BY <1>1 DEF WasQueued
    <2>. QED BY <1>1, <2>1 DEF QueuedInv
  <1>2. receiveCount > 0 => 2 * ((sent' - 1) - lastRTPSeq) < SeqMod
    BY DEF QueuedInv
  <1>. QED BY <1>1, <1>2 DEF QueuedInv

\* A packet from behind the last one received is never taken for one from before it.
LEMMA AheadIsAhead ==
    ASSUME OneLap, QueuedInv, receiveCount > 0, NEW a \in Seqs, a < sent, a > lastRTPSeq
    PROVE  GapTo(a) >= 0
  <1>1. /\ lastRTPSeq \in 0 .. SeqMod - 1 /\ sent \in Nat /\ SeqMod \in Nat \ {0}
        /\ a \in 0 .. SeqMod - 1 /\ 2 * ((sent - 1) - lastRTPSeq) < SeqMod
    BY ConstTypes DEF QueuedInv, ReqInv, IInv, TypeOK, Seqs
  <1>2. lastRTPSeq + 1 \in 0 .. SeqMod - 1
    BY <1>1
  <1>3. (lastRTPSeq + 1) % SeqMod = lastRTPSeq + 1
    BY <1>1, <1>2, ModSmall
  <1>4. 2 * (a - (lastRTPSeq + 1)) < SeqMod /\ 2 * ((lastRTPSeq + 1) - a) < SeqMod
    BY <1>1
  <1>5. ModCmp(a, lastRTPSeq + 1, SeqMod) = a - (lastRTPSeq + 1)
    BY <1>1, <1>2, <1>4, ModCmpNear
  <1>. QED BY <1>1, <1>3, <1>5 DEF GapTo

LEMMA QueuedReceive ==
    ASSUME OneLap, QueuedInv, ReqInv', NEW a \in InFlight, NEW ts, NEW size,
           NEW isRetransmit \in BOOLEAN, isRetransmit => SeqOf(a) \in asked,
           ReceiveRTP(SeqOf(a), ts, size, isRetransmit),
           \A i \in 1 .. Len(busy') : WasQueued(i) \/ busy'[i].seq = SeqOf(a)
    PROVE  QueuedInv'
  <1>. DEFINE lossy == IF isRetransmit THEN rt ELSE Requests(a)
  <1>1. /\ a \in Nat /\ a < sent /\ a >= (sent - 1) - Delay /\ a \in Seqs /\ SeqOf(a) = a
        /\ IInv /\ RTType(rt) /\ receiveCount \in {0, 1} /\ lastRTPSeq \in Nat /\ sent \in Nat
        /\ Delay \in Nat /\ SeqMod \in Nat /\ 2 * Delay < SeqMod
    <2>1. IInv /\ sent <= MaxSent
      BY DEF QueuedInv, ReqInv
    <2>2. a \in Nat /\ a < sent /\ a >= (sent - 1) - Delay /\ a \in Seqs /\ SeqOf(a) = a
      BY <2>1, InFlightSeq
    <2>3. RTType(rt) /\ receiveCount \in {0, 1} /\ lastRTPSeq \in Nat /\ sent \in Nat
      BY <2>1 DEF IInv, TypeOK, Seqs
    <2>4. Delay \in Nat /\ SeqMod \in Nat /\ 2 * Delay < SeqMod
      BY GALimits, GAModuli DEF OneLap
    <2>. QED BY <2>1, <2>2, <2>3, <2>4
  <1>2. ReceiveRTP(a, ts, size, isRetransmit)
    BY <1>1
  <1>3. /\ rt' = IF rtcpRTDisable THEN lossy ELSE MarkSent(Complete(lossy, a))
        /\ asked' \subseteq asked \cup (IF rtcpRTDisable THEN {} ELSE ToSend(Complete(lossy, a)))
        /\ lastRTPSeq' = IF isRetransmit \/ (receiveCount > 0 /\ GapTo(a) < 0)
                         THEN lastRTPSeq ELSE a
        /\ receiveCount' = IF isRetransmit THEN receiveCount ELSE 1
        /\ up /\ UNCHANGED <<up, rtDangling, sent, rtcpRTDisable>>
    BY <1>2 DEF ReceiveRTP, envVars, streamVars
  <1>4. RTType(lossy) /\ GapTo(a) \in Int
    BY <1>1, RequestsType, GapToType
  <1>5. \A s \in DOMAIN lossy.busy : s \in DOMAIN rt.busy \/ lastRTPSeq < s
    <2>1. /\ \A s \in DOMAIN Requests(a).busy : s \in DOMAIN rt.busy \/ lastRTPSeq < s
      BY <1>1, RequestsTotal DEF QueuedInv
    <2>. QED BY <2>1
  <1>6. DOMAIN Complete(lossy, a).busy = DOMAIN lossy.busy \cap (Seqs \ {a})
    BY <1>4, KeepTotal DEF Complete
  <1>7. lastRTPSeq' \in Nat /\ (receiveCount > 0 => lastRTPSeq <= lastRTPSeq')
    <2>1. ~isRetransmit /\ receiveCount > 0 /\ GapTo(a) >= 0 => a > lastRTPSeq
      BY <1>1, RequestsTotal DEF QueuedInv
    <2>2. CASE isRetransmit \/ (receiveCount > 0 /\ GapTo(a) < 0)
      BY <1>1, <1>3, <2>2
    <2>3. CASE ~(isRetransmit \/ (receiveCount > 0 /\ GapTo(a) < 0))
      BY <1>1, <1>3, <1>4, <2>1, <2>3
    <2>. QED BY <2>2, <2>3
  <1>8. receiveCount' > 0 /\ a <= lastRTPSeq'
    <2>1. CASE isRetransmit
      BY <1>1, <1>3, <2>1 DEF QueuedInv
    <2>2. CASE ~isRetransmit /\ receiveCount > 0 /\ GapTo(a) < 0
      <3>1. ~(a > lastRTPSeq)
        BY <1>1, <1>4, <2>2, AheadIsAhead
      <3>. QED BY <1>1, <1>3, <2>2, <3>1
    <2>3. CASE ~isRetransmit /\ ~(receiveCount > 0 /\ GapTo(a) < 0)
      BY <1>1, <1>3, <2>3
    <2>. QED BY <2>1, <2>2, <2>3
  <1>. HIDE DEF lossy
  <1>9. 2 * ((sent' - 1) - lastRTPSeq') < SeqMod
    <2>1. CASE receiveCount > 0
      <3>1. 2 * ((sent - 1) - lastRTPSeq) < SeqMod /\ lastRTPSeq <= lastRTPSeq'
        BY <1>7, <2>1 DEF QueuedInv
      <3>. QED BY <1>1, <1>3, <1>7, <3>1
    <2>2. CASE ~(receiveCount > 0)
      <3>1. lastRTPSeq' = a
        BY <1>3, <1>8, <2>2
      <3>. QED BY <1>1, <1>3, <3>1
    <2>. QED BY <2>1, <2>2
  <1>10. receiveCount' > 0 => \A s \in DOMAIN rt'.busy : s <= lastRTPSeq'
    <2>1. ~rtDangling'
      BY <1>3 DEF QueuedInv
    <2>. QED BY <2>1 DEF ReqInv, RequestsBehind
  <1>11. ASSUME NEW s \in asked' PROVE s <= lastRTPSeq'
    <2>1. CASE s \in asked
      <3>1. receiveCount > 0 /\ s <= lastRTPSeq /\ s \in Nat
        BY <1>1, <2>1 DEF QueuedInv, IInv, TypeOK, Seqs
      <3>. QED BY <1>1, <1>7, <3>1
    <2>2. CASE ~rtcpRTDisable /\ s \in ToSend(Complete(lossy, a))
      <3>1. s \in DOMAIN Complete(lossy, a).busy
        BY <2>2 DEF ToSend
      <3>2. DOMAIN rt'.busy = DOMAIN Complete(lossy, a).busy
        BY <1>3, <2>2, MarkSentTotal
      <3>. QED BY <1>8, <1>10, <3>1, <3>2
    <2>. QED BY <1>3, <1>11, <2>1, <2>2
  <1>12. ASSUME NEW i \in 1 .. Len(busy')
         PROVE  /\ busy'[i].seq <= lastRTPSeq'
                /\ ~rtcpRTDisable' => busy'[i].seq \notin DOMAIN rt'.busy
    <2>1. ~rtcpRTDisable' => DOMAIN rt'.busy = DOMAIN lossy.busy \cap (Seqs \ {a})
      BY <1>3, <1>6, MarkSentTotal
    <2>2. CASE busy'[i].seq = a
      BY <1>8, <2>1, <2>2
    <2>3. CASE WasQueued(i)
      <3>1. PICK j \in 1 .. Len(busy) : busy'[i].seq = busy[j].seq
        BY <2>3 DEF WasQueued
      <3>2. /\ receiveCount > 0 /\ busy[j].seq <= lastRTPSeq
            /\ ~rtcpRTDisable => busy[j].seq \notin DOMAIN rt.busy
        BY <1>3, <3>1 DEF QueuedInv
      <3>3. busy[j].seq \in Nat
        <4>1. busy[j] \in Node
          BY <1>1, <3>1, ElementOfSeq DEF IInv, TypeOK
        <4>. QED BY <4>1 DEF Node, Seqs
      <3>4. busy[j].seq <= lastRTPSeq'
        BY <1>1, <1>7, <3>2, <3>3
      <3>5. ~rtcpRTDisable => busy[j].seq \notin DOMAIN lossy.busy
        BY <1>1, <1>5, <3>2, <3>3
      <3>. QED BY <1>3, <2>1, <3>1, <3>4, <3>5
    <2>. QED BY <1>1, <2>2, <2>3
  <1>. QED BY <1>3, <1>8, <1>9, <1>11, <1>12 DEF QueuedInv

LEMMA QueuedNext ==
    ASSUME OneLap, QueuedInv, [NextUnflushed]_<<vars, flushed>>
    PROVE  QueuedInv'
  <1>1. [Next]_vars /\ IInv /\ ReqInv
    BY UnflushedSteps DEF QueuedInv, ReqInv
  <1>2. ReqInv'
    BY <1>1, ReqNext
  <1>3. /\ RTType(rt) /\ sent \in Nat /\ sent <= MaxSent /\ MaxSent \in Nat
        /\ lastRTPSeq \in 0 .. SeqMod - 1 /\ SeqMod \in Nat \ {0} /\ MaxSent <= SeqMod
    BY <1>1, GALimits, ConstTypes DEF OneLap, ReqInv, IInv, TypeOK, Seqs
  <1>4. ASSUME NEW a \in InFlight, NEW size \in {0, Units}, NEW isRetransmit \in BOOLEAN,
               ReceiveRTP(SeqOf(a), TSOf(a), size, isRetransmit),
               isRetransmit => SeqOf(a) \in asked,
               \A i \in 1 .. Len(busy') : WasQueued(i)
        PROVE  QueuedInv'
    BY <1>2, <1>4, QueuedReceive
  <1>5. ASSUME NEW redundant, Setup(redundant) PROVE QueuedInv'
    <2>1. /\ ~up /\ busy' = <<>> /\ asked' = {} /\ receiveCount' = receiveCount
          /\ rtDangling' = rtDangling
      BY <1>5 DEF Setup
    <2>2. receiveCount = 0
      BY <1>1, <2>1 DEF ReqInv
    <2>3. Len(busy') = 0
      BY <2>1, EmptySeq
    <2>. QED BY <1>2, <2>1, <2>2, <2>3 DEF QueuedInv
  <1>6. CASE SenderSends /\ (receiveCount > 0 => ModGT(SeqOf(sent), lastRTPSeq, SeqMod))
    <2>1. /\ UNCHANGED <<up, receiveCount, lastRTPSeq, rtDangling, rtcpRTDisable, rt, busy>>
          /\ asked' \subseteq asked /\ sent' = sent + 1 /\ sent < MaxSent
      BY <1>6 DEF SenderSends, streamVars, trackVars, nodeVars, rtVars
    <2>2. receiveCount > 0 => 2 * ((sent' - 1) - lastRTPSeq) < SeqMod
      <3>. SUFFICES ASSUME receiveCount > 0 PROVE 2 * ((sent' - 1) - lastRTPSeq) < SeqMod
        OBVIOUS
      <3>1. sent \in 0 .. SeqMod - 1 /\ lastRTPSeq < sent
        BY <1>1, <1>3, <2>1 DEF ReqInv
      <3>2. SeqOf(sent) = sent
        BY <1>3, <3>1, ModSmall DEF SeqOf
      <3>3. (sent - lastRTPSeq) % SeqMod = sent - lastRTPSeq
        <4>1. sent - lastRTPSeq \in 0 .. SeqMod - 1
          BY <1>3, <3>1
        <4>. QED BY <1>3, <4>1, ModSmall
      <3>4. ModCmp(sent, lastRTPSeq, SeqMod) > 0
        BY <1>6, <3>2 DEF ModGT
      <3>5. 2 * (sent - lastRTPSeq) < SeqMod
        BY <1>3, <3>1, <3>3, <3>4 DEF ModCmp
      <3>6. (sent' - 1) = sent
        BY <1>3, <2>1
      <3>. QED BY <3>5, <3>6
    <2>3. \A i \in 1 .. Len(busy') : WasQueued(i)
      BY <2>1 DEF WasQueued
    <2>. QED BY <1>2, <2>1, <2>2, <2>3, QueuedKept
  <1>7. ASSUME UNCHANGED <<up, receiveCount, lastRTPSeq, rtDangling, rtcpRTDisable, sent>>,
               DOMAIN rt'.busy \subseteq DOMAIN rt.busy, asked' \subseteq asked,
               \A i \in 1 .. Len(busy') : WasQueued(i)
        PROVE  QueuedInv'
    BY <1>2, <1>7, QueuedKept
  <1>8. ASSUME NEW keep, rt' = KeepRequests(rt, keep)
        PROVE  DOMAIN rt'.busy \subseteq DOMAIN rt.busy
    BY <1>3, <1>8, KeepTotal
  <1>9. ASSUME UNCHANGED busy, NEW i \in 1 .. Len(busy') PROVE WasQueued(i)
    BY <1>9 DEF WasQueued
  <1>10. ASSUME NEW seq, ReceiveFutile(seq) PROVE QueuedInv'
    <2>1. /\ UNCHANGED <<up, receiveCount, lastRTPSeq, rtDangling, rtcpRTDisable, sent, busy>>
          /\ rt' = AbortUpTo(rt, {seq}) /\ asked' \subseteq asked
      BY <1>10 DEF ReceiveFutile, streamVars, trackVars, nodeVars, envVars
    <2>. QED BY <1>7, <1>8, <1>9, <2>1 DEF AbortUpTo
  <1>11. ASSUME NEW s \in DOMAIN rt.busy, RequestTimesOut(s) PROVE QueuedInv'
    <2>1. /\ UNCHANGED <<up, receiveCount, lastRTPSeq, rtDangling, rtcpRTDisable, sent, busy,
                         asked>>
      BY <1>11 DEF RequestTimesOut, streamVars, trackVars, nodeVars, envVars
    <2>2. DOMAIN rt'.busy = DOMAIN rt.busy
      BY <1>3, <1>11 DEF RequestTimesOut, RTType
    <2>. QED BY <1>7, <1>9, <2>1, <2>2
  <1>12. CASE UNCHANGED vars
    BY <1>7, <1>9, <1>12 DEF vars, streamVars, trackVars, rtVars, envVars, nodeVars
  <1>. DEFINE Origin ==
         \/ \A i \in 1 .. Len(busy') : WasQueued(i)
         \/ \E a \in InFlight, size \in {0, Units}, isRetransmit \in BOOLEAN :
              /\ ReceiveRTP(SeqOf(a), TSOf(a), size, isRetransmit)
              /\ QueuePacket(SeqOf(a), TSOf(a), size)
              /\ \A i \in 1 .. Len(busy') : WasQueued(i) \/ IsPacket(i, a)
  <1>13. Origin
    BY <1>1, NodesOrigin
  <1>. HIDE DEF Origin
  <1>14. ASSUME DropPacket, freeNodes > 0 \/ busy # <<>>, NEW i \in 1 .. Len(busy')
         PROVE  WasQueued(i)
    <2>1. Len(busy) \in Nat
      BY <1>1, LenProperties DEF IInv, TypeOK
    <2>. QED BY <1>1, <1>14, <2>1, UnstolenSuffix, SuffixQueued DEF DropPacket, WasQueued
  <1>15. CASE ReceiveNothing
    <2>1. /\ UNCHANGED <<up, receiveCount, lastRTPSeq, rtDangling, rtcpRTDisable, sent, rt, asked>>
          /\ DropPacket /\ (freeNodes > 0 \/ busy # <<>>)
      BY <1>15 DEF ReceiveNothing, streamVars, trackVars, rtVars, envVars
    <2>. QED BY <1>7, <1>14, <2>1
  <1>16. ASSUME NEW seq, ReceiveDup(seq), asked' \subseteq asked PROVE QueuedInv'
    <2>1. /\ UNCHANGED <<up, receiveCount, lastRTPSeq, rtDangling, rtcpRTDisable, sent, rt>>
          /\ DropPacket /\ (freeNodes > 0 \/ busy # <<>>)
      BY <1>16 DEF ReceiveDup, streamVars, trackVars, rtVars, envVars
    <2>. QED BY <1>7, <1>14, <1>16, <2>1
  <1>17. CASE ReadAudio
    <2>1. /\ UNCHANGED <<up, receiveCount, lastRTPSeq, rtDangling, rtcpRTDisable, sent, asked>>
          /\ (UNCHANGED rt \/ \E aborted : rt' = AbortUpTo(rt, aborted))
      BY <1>17 DEF ReadAudio, Render, streamVars, trackVars
    <2>2. DOMAIN rt'.busy \subseteq DOMAIN rt.busy
      BY <1>8, <2>1 DEF AbortUpTo
    <2>3. \A i \in 1 .. Len(busy') : WasQueued(i)
      <3>1. Len(busy) \in Nat
        BY <1>1, LenProperties DEF IInv, TypeOK
      <3>. QED BY <1>1, <1>17, <3>1, ReadSuffix, SuffixQueued DEF WasQueued
    <2>. QED BY <1>7, <2>1, <2>2, <2>3
  <1>18. ASSUME NEW a \in InFlight, NEW size \in {0, Units}, NEW isRetransmit \in BOOLEAN,
                ReceiveRTP(SeqOf(a), TSOf(a), size, isRetransmit),
                isRetransmit => SeqOf(a) \in asked
         PROVE  QueuedInv'
    <2>1. CASE DropPacket
      <3>1. freeNodes > 0 \/ busy # <<>>
        BY <1>18 DEF ReceiveRTP
      <3>. QED BY <1>4, <1>14, <1>18, <2>1, <3>1
    <2>2. CASE QueuePacket(SeqOf(a), TSOf(a), size)
      <3>1. /\ SeqOf(a) \in Seqs /\ TSOf(a) \in Times /\ size \in 0 .. Units
            /\ (freeNodes > 0 \/ busy # <<>>)
        BY <1>3, <1>18, PacketTypes, ConstTypes DEF InFlight, ReceiveRTP
      <3>2. \A i \in 1 .. Len(busy') : WasQueued(i) \/ IsPacket(i, a)
        BY <1>1, <2>2, <3>1, QueuedNodes
      <3>. QED BY <1>2, <1>18, <3>2, QueuedReceive DEF IsPacket
    <2>. QED BY <1>18, <2>1, <2>2 DEF ReceiveRTP
  <1>19. ASSUME NEW a \in InFlight, Arrive(a, Units) \/ ArriveRetransmit(a, Units)
         PROVE  QueuedInv'
    BY <1>16, <1>18, <1>19 DEF Arrive, ArriveRetransmit
  <1>. QED BY <1>5, <1>6, <1>10, <1>11, <1>12, <1>15, <1>17, <1>19 DEF NextUnflushed, vars

\* Between two flushes no request is outstanding for a packet that is waiting to be
\* played: it was received, or it was asked for and the answer has taken the request
\* with it (_RetransmitsSchedule, _RetransmitsUpdate).
THEOREM QueuedIsNotAskedFor == OneLap => (SpecUnflushed => []NoRequestForQueued)
  <1>. SUFFICES ASSUME OneLap PROVE SpecUnflushed => []NoRequestForQueued
    OBVIOUS
  <1>1. InitStreams => QueuedInv
    <2>. SUFFICES ASSUME InitStreams PROVE QueuedInv
      OBVIOUS
    <2>1. ReqInv
      BY ReqInit DEF InitStreams
    <2>2. /\ ~up /\ receiveCount = 0 /\ asked = {} /\ rtDangling = FALSE
      BY DEF InitStreams, Init
    <2>. QED BY <2>1, <2>2 DEF QueuedInv
  <1>2. QueuedInv /\ [NextUnflushed]_<<vars, flushed>> => QueuedInv'
    BY QueuedNext
  <1>3. QueuedInv => NoRequestForQueued
    BY DEF QueuedInv, NoRequestForQueued
  <1>. QED BY <1>1, <1>2, <1>3, PTL DEF SpecUnflushed
=============================================================================
