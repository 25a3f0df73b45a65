---------------------------- MODULE GeneralAudio ----------------------------
(***************************************************************************)
(* The MainHigh ("general") audio stream of an AirPlay receiver session:   *)
(* the RTP receive path, its duplicate window and loss tracker, the        *)
(* retransmit requests, the free/busy buffer nodes, flushing, and the      *)
(* renderer the platform's audio callback runs.  Every handler holds the   *)
(* session lock from its first access to its last, so each is one action.  *)
(*                                                                         *)
(* A packet is <<seq, ts, size>>: its RTP sequence number, its RTP         *)
(* timestamp and the number of audio units it decodes to (0 stands for a   *)
(* payload the decoder rejects).  Nodes are counted, not named: a free     *)
(* node has no content.  Wall-clock time is abstracted to the flag "due"   *)
(* of a retransmit request (nowNanos >= nextNanos).                        *)
(***************************************************************************)
EXTENDS Playout, FiniteSets

CONSTANTS
    SeqMod,      \* modulus of RTP sequence numbers (2^16)
    DupWindow,   \* kAirTunesDupWindowSize (512)
    NodeCount,   \* kAirTunesBufferNodeCountUDP (512)
    RTCount,     \* kAirTunesRetransmitCount (512)
    MaxLoss,     \* source.retransmitMaxLoss of the stream
    Credits,     \* requests sent per received packet (3)
    FlushWindow, \* units flushing outlives its target (3 seconds)
    Delay,       \* how far behind the newest packet the network delivers
    FirstRead,   \* first sample time the platform asks for
    MaxSent,     \* bound: packets the sender sends on a stream
    MaxReads     \* bound: reads of the platform on a stream

ASSUME GAModuli ==
    /\ SeqMod \in Nat /\ DupWindow \in Nat \ {0} /\ 2 * DupWindow <= SeqMod
    /\ SeqMod % DupWindow = 0
\* check_compile_time( nodes <= window ) and ( retransmits <= window )
ASSUME GAWindow ==
    /\ NodeCount \in Nat \ {0} /\ NodeCount <= DupWindow
    /\ RTCount \in Nat \ {0} /\ RTCount <= DupWindow
ASSUME GALimits ==
    /\ MaxLoss \in Nat /\ Credits \in Nat \ {0} /\ FlushWindow \in Nat
    /\ Delay \in Nat /\ MaxSent \in Nat /\ MaxReads \in Nat
    /\ FirstRead \in 0 .. TSMod - 1

Seqs == 0 .. SeqMod - 1

VARIABLES
    up,               \* the stream is set up and its thread is running
    busyListSentinel, \* non-NULL: the busy list was initialised once
    redundantAudio,
    rtcpRTDisable,
    flushing, flushUntilTS, flushTimeoutTS,
    receiveCount,     \* only ever compared with 0, so counted to 1
    lastRTPSeq,
    dups,             \* rtpAudioDupsInitialized, rtpAudioDupsLastSeq, rtpAudioDupsArray
    freeNodes,        \* length of freeList
    busyNodeCount,
    busy,             \* the busy list, oldest first
    rt,               \* busy: outstanding request per seq; free: length of rtcpRTFreeList
    rtDangling,       \* rtcpRTBusyList points into freed storage
    usedFreed,        \* freed memory was read: behaviour is undefined from here on
    sampleTimeOffset, lastPlayedValid,
    sent,             \* external: packets the sender has sent
    asked,            \* external: retransmit requests the sender has not answered
    readTime          \* external: sample time of the platform's next read

streamVars == <<up, busyListSentinel, redundantAudio>>
flushVars  == <<flushing, flushUntilTS, flushTimeoutTS>>
trackVars  == <<receiveCount, lastRTPSeq, dups>>
nodeVars   == <<freeNodes, busyNodeCount, busy>>
rtVars     == <<rt, rtDangling>>
playVars   == <<sampleTimeOffset, lastPlayedValid>>
envVars    == <<sent, readTime>>
vars == <<streamVars, flushVars, trackVars, nodeVars, rtVars, playVars, envVars,
          rtcpRTDisable, usedFreed, asked>>

Node == [seq : Seqs, hdr : Times, ts : Times, skip : Nat, size : 0 .. Units]
Request == [tries : 0 .. 2, due : BOOLEAN]

MinOf(a, b) == IF a <= b THEN a ELSE b

----------------------------------------------------------------------------
(* Duplicates and losses *)

\* _GeneralAudioTrackDups: is seq a duplicate, and the window after it is not.
IsDup(seq) ==
    /\ dups.init
    /\ \/ ModCmp(seq, dups.last, SeqMod) = 0
       \/ ModCmp(seq, dups.last, SeqMod) <= -DupWindow
       \/ dups.array[seq % DupWindow] = seq

\* Mutant: the window is never written after its first packet.
DupsForgotten(seq) == [dups EXCEPT !.init = TRUE, !.last = seq]

DupsAfter(seq) ==
    [init |-> TRUE, last |-> seq,
     array |-> IF dups.init THEN [dups.array EXCEPT ![seq % DupWindow] = seq]
               ELSE [i \in 0 .. DupWindow - 1 |-> seq]]

\* _RetransmitsAbortAll
AbortAll(r) == [busy |-> [s \in {} |-> 0],
                free |-> r.free + Cardinality(DOMAIN r.busy)]

\* The requests of r that satisfy Keep stay outstanding, the others are freed.
KeepRequests(r, keep) ==
    [busy |-> [s \in DOMAIN r.busy \cap keep |-> r.busy[s]],
     free |-> r.free + Cardinality(DOMAIN r.busy \ keep)]

\* _RetransmitsAbortOne, for each seq in S.
AbortUpTo(r, S) ==
    KeepRequests(r, {s \in Seqs : \A x \in S : ModGT(s, x, SeqMod)})

\* Mutant: a lost packet for which there is no node is counted off all the same.
ScheduleCountsAll(r, first, count) ==
    LET new == {(first + i) % SeqMod : i \in 0 .. MinOf(count, r.free) - 1}
    IN [busy |-> [s \in DOMAIN r.busy \cup new |->
                     IF s \in new THEN [tries |-> 0, due |-> TRUE] ELSE r.busy[s]],
        free |-> r.free - count]

\* _RetransmitsSchedule: as many of the count lost packets as there are nodes.
Schedule(r, first, count) ==
    LET n == MinOf(count, r.free)
        new == {(first + i) % SeqMod : i \in 0 .. n - 1}
    IN [busy |-> [s \in DOMAIN r.busy \cup new |->
                     IF s \in new THEN [tries |-> 0, due |-> TRUE] ELSE r.busy[s]],
        free |-> r.free - n]

\* Distance from the packet after the last one received to seq.
GapTo(seq) == ModCmp(seq, (lastRTPSeq + 1) % SeqMod, SeqMod)

\* _GeneralAudioTrackLosses
Requests(seq) ==
    IF receiveCount = 0 \/ GapTo(seq) <= 0 THEN rt
    ELSE IF GapTo(seq) > MaxLoss THEN AbortAll(rt)
    ELSE IF rtcpRTDisable THEN rt
    ELSE Schedule(rt, (lastRTPSeq + 1) % SeqMod, GapTo(seq))

\* The requests that _RetransmitsUpdate sends: the oldest due ones.
ToSend(r) ==
    LET due == {s \in DOMAIN r.busy : r.busy[s].due}
    IN {s \in due : Cardinality({t \in due : ModLT(t, s, SeqMod)}) < Credits}

\* Mutant: a request outlives the packet it asked for.
CompleteNothing(r, seq) == r

\* _RetransmitsUpdate: the request for seq is complete, others are (re)sent.
Complete(r, seq) == KeepRequests(r, Seqs \ {seq})
MarkSent(r) ==
    [busy |-> [s \in DOMAIN r.busy |->
        IF s \in ToSend(r) THEN [tries |-> MinOf(2, r.busy[s].tries + 1), due |-> FALSE]
        ELSE r.busy[s]],
     free |-> r.free]
----------------------------------------------------------------------------
Init ==
    /\ up = FALSE /\ busyListSentinel = FALSE /\ redundantAudio = FALSE
    /\ rtcpRTDisable = FALSE
    /\ flushing = FALSE /\ flushUntilTS = 0 /\ flushTimeoutTS = 0
    /\ receiveCount = 0 /\ lastRTPSeq = 0
    /\ dups = [init |-> FALSE, last |-> 0, array |-> [i \in 0 .. DupWindow - 1 |-> 0]]
    /\ freeNodes = 0 /\ busyNodeCount = 0 /\ busy = <<>>
    /\ rt = [busy |-> [s \in {} |-> 0], free |-> 0]
    /\ rtDangling = FALSE /\ usedFreed = FALSE
    /\ sampleTimeOffset = 0 /\ lastPlayedValid = FALSE
    /\ sent = 0 /\ asked = {} /\ readTime = FirstRead

\* _GeneralAudioSetup.  rtcpRTBusyList is not among what it initialises.  The
\* new sockets see nothing of what was sent to the previous stream's.
Setup(redundant) ==
    /\ ~up
    /\ up' = TRUE /\ busyListSentinel' = TRUE
    /\ redundantAudio' = redundant /\ rtcpRTDisable' = redundant
    /\ dups' = [dups EXCEPT !.init = FALSE]
    /\ freeNodes' = NodeCount /\ busyNodeCount' = 0 /\ busy' = <<>>
    /\ rt' = IF redundant THEN rt ELSE [rt EXCEPT !.free = RTCount]
    /\ sampleTimeOffset' = 0
    /\ sent' = 0 /\ asked' = {} /\ readTime' = FirstRead
    /\ UNCHANGED <<flushVars, receiveCount, lastRTPSeq, rtDangling, usedFreed,
                   lastPlayedValid>>

\* _TearDownStream for mainAudioCtx, after the audio thread has been joined.
TearDown ==
    /\ up
    /\ up' = FALSE /\ flushing' = FALSE /\ receiveCount' = 0
    /\ rtDangling' = (DOMAIN rt.busy # {})
    /\ UNCHANGED <<busyListSentinel, redundantAudio, rtcpRTDisable, flushUntilTS,
                   flushTimeoutTS, lastRTPSeq, dups, nodeVars, rt, usedFreed,
                   playVars, envVars, asked>>

\* The flush loop stops behind the k-th busy node.
FlushesPrefix(k, untilTS, untilSeq) ==
    LET stays(i) == /\ ModGE(busy[i].hdr, untilTS, TSMod)
                    /\ ModGE(busy[i].seq, untilSeq, SeqMod)
    IN /\ \A i \in 1 .. k : ~stays(i)
       /\ k < Len(busy) => stays(k + 1)

\* AirPlayReceiverSessionFlushAudio
FlushAudio(untilTS, untilSeq) == \E k \in 0 .. Len(busy) :
    /\ busyListSentinel
    /\ FlushesPrefix(k, untilTS, untilSeq)
    /\ flushing' = TRUE
    /\ flushUntilTS' = untilTS
    /\ flushTimeoutTS' = (untilTS + FlushWindow) % TSMod
    /\ lastPlayedValid' = FALSE
    /\ rtcpRTDisable' = redundantAudio
    /\ receiveCount' = 0
    /\ busy' = SubSeq(busy, k + 1, Len(busy))
    /\ freeNodes' = freeNodes + k
    /\ busyNodeCount' = busyNodeCount - k
    /\ rt' = AbortAll(rt)
    /\ usedFreed' = (rtDangling \/ (~up /\ busy # <<>>))
    /\ UNCHANGED <<streamVars, lastRTPSeq, dups, rtDangling, sampleTimeOffset,
                   envVars, asked>>
----------------------------------------------------------------------------
(* Receiving *)

\* Mutant: the comparison ignores that timestamps wrap.
WalkStopsAtRaw(q, k, ts) ==
    /\ k > 0 => q[k].hdr <= ts
    /\ \A i \in k + 1 .. Len(q) : q[i].hdr > ts

\* The list walk from the tail stops at the k-th node: the last one not after ts.
WalkStopsAt(q, k, ts) ==
    /\ k > 0 => ~ModGT(q[k].hdr, ts, TSMod)
    /\ \A i \in k + 1 .. Len(q) : ModGT(q[i].hdr, ts, TSMod)

\* The busy list once a node is taken for the packet: the free list's head,
\* or else the oldest busy node.
Unstolen == IF freeNodes > 0 THEN busy ELSE Tail(busy)
\* Mutant: a node is taken from the free list whether or not it has one.
FreeAfterTakeBlind == freeNodes - 1
FreeAfterTake == IF freeNodes > 0 THEN freeNodes - 1 ELSE 0
\* Mutant: a node that is stolen is not counted off.
CountAfterStealForgotten == busyNodeCount
CountAfterTake == IF freeNodes > 0 THEN busyNodeCount ELSE busyNodeCount - 1

\* The packet is not queued and its node goes (back) to the free list.
DropPacket ==
    /\ busy' = Unstolen
    /\ busyNodeCount' = CountAfterTake
    /\ freeNodes' = FreeAfterTake + 1

\* The tail of _GeneralAudioProcessPacket: the node is linked at its place.
QueuePacket(seq, ts, size) ==
    LET node == [seq |-> seq, hdr |-> ts, ts |-> ts, skip |-> 0, size |-> size]
    IN \E k \in 0 .. Len(Unstolen) :
       /\ WalkStopsAt(Unstolen, k, ts)
       /\ busy' = SubSeq(Unstolen, 1, k) \o <<node>>
                  \o SubSeq(Unstolen, k + 1, Len(Unstolen))
       /\ busyNodeCount' = CountAfterTake + 1
       /\ freeNodes' = FreeAfterTake

\* The insertion walk stops at a node with the packet's own timestamp.
TimeSlotTaken(ts) ==
    \E k \in 1 .. Len(Unstolen) : WalkStopsAt(Unstolen, k, ts) /\ Unstolen[k].hdr = ts

\* Mutant: flushing ends with the first packet from behind the flush target.
FlushingToTarget(ts) == flushing /\ ModLT(ts, flushUntilTS, TSMod)

\* Flushing outlives its target, for packets that the network delivers late.
StillFlushing(ts) ==
    flushing /\ (ModLT(ts, flushUntilTS, TSMod) \/ ModLT(ts, flushTimeoutTS, TSMod))

\* The socket had nothing after all, or the packet is too small or too large.
ReceiveNothing ==
    /\ up /\ (freeNodes > 0 \/ busy # <<>>)
    /\ DropPacket
    /\ UNCHANGED <<streamVars, flushVars, trackVars, rtVars, playVars, envVars,
                   rtcpRTDisable, usedFreed, asked>>

\* _GeneralAudioReceiveRTP with a packet that _GeneralAudioTrackDups refuses.
ReceiveDup(seq) ==
    /\ up /\ (freeNodes > 0 \/ busy # <<>>)
    /\ IsDup(seq)
    /\ DropPacket
    /\ UNCHANGED <<streamVars, flushVars, trackVars, rtVars, playVars, envVars,
                   rtcpRTDisable, usedFreed>>

\* _GeneralAudioReceiveRTP with a packet not seen before.
ReceiveRTP(seq, ts, size, isRetransmit) ==
    LET lossy == IF isRetransmit THEN rt ELSE Requests(seq)
        touches == \/ ~rtcpRTDisable
                   \/ ~isRetransmit /\ receiveCount > 0 /\ GapTo(seq) > MaxLoss
    IN
    /\ up /\ (freeNodes > 0 \/ busy # <<>>)
    /\ ~IsDup(seq)
    /\ dups' = DupsAfter(seq)
    /\ lastRTPSeq' = IF isRetransmit \/ (receiveCount > 0 /\ GapTo(seq) < 0)
                     THEN lastRTPSeq ELSE seq
    /\ receiveCount' = IF isRetransmit THEN receiveCount ELSE 1
    /\ rt' = IF rtcpRTDisable THEN lossy ELSE MarkSent(Complete(lossy, seq))
    /\ asked' = IF rtcpRTDisable THEN asked \ (IF isRetransmit THEN {seq} ELSE {})
                ELSE (asked \ (IF isRetransmit THEN {seq} ELSE {}))
                     \cup ToSend(Complete(lossy, seq))
    /\ usedFreed' = (rtDangling /\ touches)
    /\ flushing' = StillFlushing(ts)
    /\ IF (flushing /\ ModLT(ts, flushUntilTS, TSMod)) \/ TimeSlotTaken(ts)
       THEN DropPacket ELSE QueuePacket(seq, ts, size)
    /\ UNCHANGED <<streamVars, flushUntilTS, flushTimeoutTS, rtDangling, playVars,
                   envVars, rtcpRTDisable>>

\* _RetransmitsProcessResponse: the sender no longer has the packet.
ReceiveFutile(seq) ==
    /\ up /\ seq \in asked
    /\ rt' = AbortUpTo(rt, {seq})
    /\ asked' = asked \ {seq}
    /\ usedFreed' = rtDangling
    /\ UNCHANGED <<streamVars, flushVars, trackVars, nodeVars, rtDangling, playVars,
                   envVars, rtcpRTDisable>>
----------------------------------------------------------------------------
(* Rendering *)

\* The first sample time read while there is audio becomes the zero offset.
Offset(t) == IF sampleTimeOffset = 0 /\ busyNodeCount > 0 THEN t ELSE sampleTimeOffset

\* _GeneralAudioRender for the read of ReadUnits units at sample time t.
Render(t) ==
    LET now == (t - Offset(t)) % TSMod
        lim == (now + ReadUnits) % TSMod
    IN \E stop \in 1 .. Len(busy) + 1 :
       LET aborted == AbortsFor(busy, stop, now, lim)
           freed == FreedBy(busy, stop, lim)
       IN
       /\ StopsAt(busy, stop, lim)
       /\ sampleTimeOffset' = Offset(t)
       /\ busy' = LeftAfter(busy, stop, lim)
       /\ freeNodes' = freeNodes + freed
       /\ busyNodeCount' = busyNodeCount - freed
       /\ lastPlayedValid' = (lastPlayedValid \/ Played(busy, stop, lim) # {})
       /\ rt' = IF aborted = {} THEN rt ELSE AbortUpTo(rt, aborted)
       /\ usedFreed' = (rtDangling /\ aborted # {})

\* AirPlayReceiverSessionReadAudio for kAirPlayStreamType_MainHighAudio.
ReadAudio ==
    /\ up
    /\ (readTime - FirstRead) % TSMod < MaxReads * ReadUnits
    /\ Render(readTime)
    /\ readTime' = (readTime + ReadUnits) % TSMod
    /\ UNCHANGED <<streamVars, flushVars, trackVars, rtDangling, rtcpRTDisable, sent, asked>>
----------------------------------------------------------------------------
(* The sender, the network and the clock (external) *)

\* Packet a of the sender, for a in 0 .. sent - 1; the network may deliver the
\* last Delay + 1 of them in any order, any number of times, or never.
SeqOf(a) == a % SeqMod
TSOf(a) == (a * Units) % TSMod
InFlight == {a \in 0 .. sent - 1 : a >= sent - 1 - Delay}

SenderSends ==
    /\ up /\ sent < MaxSent
    /\ sent' = sent + 1
    /\ asked' = asked \cap {SeqOf(a) : a \in {b \in 0 .. sent : b >= sent - Delay}}
    /\ UNCHANGED <<streamVars, flushVars, trackVars, nodeVars, rtVars, playVars,
                   rtcpRTDisable, usedFreed, readTime>>

\* nowNanos reaches the nextNanos of an outstanding request.
RequestTimesOut(s) ==
    /\ s \in DOMAIN rt.busy /\ ~rt.busy[s].due
    /\ rt' = [rt EXCEPT !.busy[s].due = TRUE]
    /\ UNCHANGED <<streamVars, flushVars, trackVars, nodeVars, rtDangling, playVars,
                   envVars, rtcpRTDisable, usedFreed, asked>>

\* A packet arrives on the RTP socket, or a retransmit on the RTCP socket.
Arrive(a, size) ==
    \/ ReceiveDup(SeqOf(a)) /\ UNCHANGED asked
    \/ ReceiveRTP(SeqOf(a), TSOf(a), size, FALSE)
ArriveRetransmit(a, size) ==
    /\ SeqOf(a) \in asked
    /\ \/ ReceiveDup(SeqOf(a)) /\ asked' = asked \ {SeqOf(a)}
       \/ ReceiveRTP(SeqOf(a), TSOf(a), size, TRUE)

Next ==
    /\ ~usedFreed
    /\ \/ \E redundant \in BOOLEAN : Setup(redundant)
       \/ TearDown
       \/ \E a \in InFlight \cup {sent} : FlushAudio(TSOf(a), SeqOf(a))
       \/ ReceiveNothing
       \/ \E a \in InFlight, size \in {0, Units} :
             Arrive(a, size) \/ ArriveRetransmit(a, size)
       \/ \E seq \in asked : ReceiveFutile(seq)
       \/ ReadAudio
       \/ SenderSends
       \/ \E s \in DOMAIN rt.busy : RequestTimesOut(s)

Spec == Init /\ [][Next]_vars
----------------------------------------------------------------------------
(* Properties *)

\* A request per outstanding sequence number, and the length of the free list.
RTType(r) ==
    /\ DOMAIN r.busy \subseteq Seqs /\ r.free \in Nat
    /\ r = [busy |-> r.busy, free |-> r.free]
    /\ r.busy \in [DOMAIN r.busy -> Request]

\* The variables keep their types; node and request counts stay natural.
TypeOK ==
    /\ up \in BOOLEAN /\ busyListSentinel \in BOOLEAN /\ redundantAudio \in BOOLEAN
    /\ rtcpRTDisable \in BOOLEAN
    /\ flushing \in BOOLEAN /\ flushUntilTS \in Times /\ flushTimeoutTS \in Times
    /\ receiveCount \in {0, 1} /\ lastRTPSeq \in Seqs
    /\ dups \in [init : BOOLEAN, last : Seqs, array : [0 .. DupWindow - 1 -> Seqs]]
    /\ freeNodes \in Nat /\ busyNodeCount \in Nat /\ busy \in Seq(Node)
    /\ RTType(rt)
    /\ rtDangling \in BOOLEAN /\ usedFreed \in BOOLEAN
    /\ sampleTimeOffset \in Times /\ lastPlayedValid \in BOOLEAN
    /\ sent \in Nat /\ asked \subseteq Seqs /\ readTime \in Times

\* No buffer node is leaked or linked twice: while the stream is up every node
\* is on exactly one of the two lists and busyNodeCount is the busy list's
\* length (the warning above _GeneralAudioProcessPacket).
NodesConserved ==
    /\ busyNodeCount = Len(busy)
    /\ up => freeNodes + Len(busy) = NodeCount

\* The busy list is strictly ordered by RTP timestamp, which the insertion, the
\* flush and the render loops all rely on to stop early.
BusyOrdered ==
    \A i \in 1 .. Len(busy) - 1 : ModLT(busy[i].hdr, busy[i + 1].hdr, TSMod)

\* No retransmit node is leaked by the handlers of a stream: each is free or
\* tracks one outstanding request.
RequestsConserved ==
    up /\ ~redundantAudio /\ ~rtDangling /\ ~usedFreed =>
        rt.free + Cardinality(DOMAIN rt.busy) = RTCount

\* A packet that passes the duplicate window is new: neither the assertion on
\* duplicate timestamps nor the one on duplicate sequence numbers can fire.
DuplicateCaught ==
    up => \A a \in InFlight : ~IsDup(SeqOf(a)) =>
              /\ ~TimeSlotTaken(TSOf(a))
              /\ receiveCount > 0 => SeqOf(a) # lastRTPSeq

\* No retransmit is pending for a packet that is already waiting to be played.
NoRequestForQueued ==
    up /\ ~rtcpRTDisable => \A i \in 1 .. Len(busy) : busy[i].seq \notin DOMAIN rt.busy

\* The first packet queued after a flush does not make the receiver ask for
\* retransmits (receiveCount is reset so that it does not).  It does not hold.
NoRetransmitAtResume ==
    [][flushing /\ ~lastPlayedValid /\ busy = <<>> /\ busy' # <<>>
         => DOMAIN rt'.busy = {}]_vars

\* A stream that is set up tracks its requests in the storage it allocated.  It does
\* not hold.
RequestsAllocated == up => ~rtDangling
=============================================================================
