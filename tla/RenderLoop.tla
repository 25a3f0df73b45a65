------------------------------ MODULE RenderLoop ------------------------------
(***************************************************************************)
(* The loop of _GeneralAudioRender, one busy node per step, writing the    *)
(* platform's buffer unit by unit.  Nodes before the current one have been *)
(* freed, so the current node is always the head of the busy list.  A unit *)
(* of audio in the buffer is named by its own RTP timestamp: hdr + skip is *)
(* where curr->ptr points, whatever curr->ts says.                         *)
(***************************************************************************)
EXTENDS Playout, FiniteSets

CONSTANTS
    StartTime,   \* the first nowTS
    Late, Early, \* timestamps of arriving packets: this far before and after nowTS
    Sizes,       \* units that packets decode to (0: rejected by the decoder)
    QueueLimit,  \* bound: length of the busy list
    MaxReads     \* bound: reads

ASSUME LoopBounds ==
    /\ StartTime \in Times /\ Late \in Nat /\ Early \in Nat /\ Sizes \subseteq 0 .. Units
    /\ QueueLimit \in Nat /\ MaxReads \in Nat

Silence == -1   \* not a timestamp

VARIABLES
    pc,        \* "idle": between reads; "loop"; "fill": behind the exit label
    busy, nowTS,
    buffer,    \* what has been written: dst is its end
    some, pktSeq,
    aborted,   \* sequence numbers _RetransmitsAbortOne was called with
    freed,     \* nodes freed by this read
    reads,     \* reads completed
    asked      \* busy, nowTS and aborted when the current or last read began

vars == <<pc, busy, nowTS, buffer, some, pktSeq, aborted, freed, reads, asked>>

limTS == (asked.now + ReadUnits) % TSMod
curr == Head(busy)

Init ==
    /\ pc = "idle" /\ busy = <<>> /\ nowTS = StartTime
    /\ buffer = <<>> /\ some = FALSE /\ pktSeq = 0 /\ aborted = {} /\ freed = 0 /\ reads = 0
    /\ asked = [busy |-> <<>>, now |-> StartTime, aborted |-> {}]

\* A packet arrives between two reads, in time or too late; it is inserted in
\* order, and never twice.
Arrive(ts, size) ==
    /\ pc = "idle" /\ Len(busy) < QueueLimit
    /\ \A i \in 1 .. Len(busy) : busy[i].hdr # ts
    /\ LET node == [seq |-> ts, hdr |-> ts, ts |-> ts, skip |-> 0, size |-> size]
       IN \E k \in 0 .. Len(busy) :
          /\ k > 0 => ModLT(busy[k].hdr, ts, TSMod)
          /\ \A i \in k + 1 .. Len(busy) : ModGT(busy[i].hdr, ts, TSMod)
          /\ busy' = SubSeq(busy, 1, k) \o <<node>> \o SubSeq(busy, k + 1, Len(busy))
    /\ UNCHANGED <<pc, nowTS, buffer, some, pktSeq, aborted, freed, reads, asked>>

BeginRead ==
    /\ pc = "idle" /\ reads < MaxReads
    /\ pc' = "loop" /\ asked' = [busy |-> busy, now |-> nowTS, aborted |-> aborted]
    /\ buffer' = <<>> /\ some' = FALSE /\ pktSeq' = 0 /\ aborted' = {} /\ freed' = 0
    /\ UNCHANGED <<busy, nowTS, reads>>

\* The end of the list, or packets that are not due yet.
NothingDue ==
    /\ pc = "loop"
    /\ busy # <<>> => ~Ready(curr, limTS)
    /\ pc' = "fill"
    /\ UNCHANGED <<busy, nowTS, buffer, some, pktSeq, aborted, freed, reads, asked>>

\* Mutant: "continue" without freeing the node.
FreeNothing == UNCHANGED <<busy, freed>>
FreeCurr == busy' = Tail(busy) /\ freed' = freed + 1

\* The packet is decoded when it is first looked at; a failure frees its node.
DecodeFails ==
    /\ pc = "loop" /\ busy # <<>> /\ Ready(curr, limTS) /\ Undecodable(curr)
    /\ some' = TRUE /\ pktSeq' = curr.seq
    /\ FreeCurr
    /\ UNCHANGED <<pc, nowTS, buffer, aborted, reads, asked>>

Due == pc = "loop" /\ busy # <<>> /\ Ready(curr, limTS) /\ ~Undecodable(curr)

\* Mutant: a packet that started before nowTS is too old as a whole.
TooOldStart == ModLT(Src(curr), nowTS, TSMod)
TooOld == ModLE(End(curr), nowTS, TSMod)

DiscardOld ==
    /\ Due /\ TooOld
    /\ some' = TRUE /\ pktSeq' = curr.seq
    /\ aborted' = aborted \cup {curr.seq}
    /\ FreeCurr
    /\ UNCHANGED <<pc, nowTS, buffer, reads, asked>>

\* Mutant: the pointer is left behind when late units are skipped.
SkipLateTime(node, now) ==
    LET late == (now - Src(node)) % TSMod
    IN [node EXCEPT !.ts = (@ + late) % TSMod, !.size = @ - late]

\* The units of a packet before nowTS are skipped; pointer, size and timestamp move.
SkipLate(node, now) ==
    LET late == (now - Src(node)) % TSMod
    IN [node EXCEPT !.ts = (@ + late) % TSMod, !.skip = @ + late, !.size = @ - late]

\* Units between nowTS and the start of a packet that comes after it.
Gap(node) ==
    IF ModLT(nowTS, Src(node), TSMod) THEN (Src(node) - nowTS) % TSMod ELSE 0

\* What units of the window a node still has when playing has reached now.
Remaining(node, now) ==
    IF ModLT(Src(node), now, TSMod) THEN SkipLate(node, now) ELSE node

UnitsOf(node, n) == [i \in 1 .. n |-> (node.hdr + node.skip + (i - 1)) % TSMod]

\* Mutant: a packet that ends with the window counts as cut by it.
CutsAtEnd(node) == ModGE(End(node), limTS, TSMod)

\* cap: the packet reaches beyond the window.
Cap(node) == ModGT(End(node), limTS, TSMod)

PlayCurr ==
    LET gap == Gap(curr)
        now == (nowTS + gap) % TSMod
        node == Remaining(curr, now)
        cap == Cap(curr)
        delta == IF cap THEN (limTS - Src(node)) % TSMod ELSE node.size
    IN
    /\ Due /\ ~TooOld
    /\ some' = TRUE /\ pktSeq' = curr.seq
    /\ aborted' = IF gap # 0 \/ node # curr THEN aborted \cup {curr.seq} ELSE aborted
    /\ buffer' = buffer \o [i \in 1 .. gap |-> Silence] \o UnitsOf(node, delta)
    /\ nowTS' = (now + delta) % TSMod
    /\ IF cap THEN busy' = <<CutAt(node, limTS)>> \o Tail(busy) /\ UNCHANGED freed
       ELSE FreeCurr
    /\ pc' = IF cap \/ Len(buffer') >= ReadUnits THEN "fill" ELSE "loop"
    /\ UNCHANGED <<reads, asked>>

\* Behind the loop the rest of the buffer is concealed.
FillRest ==
    LET delta == IF ModLT(nowTS, limTS, TSMod) THEN (limTS - nowTS) % TSMod ELSE 0 IN
    /\ pc = "fill"
    /\ buffer' = buffer \o [i \in 1 .. delta |-> Silence]
    /\ nowTS' = (nowTS + delta) % TSMod
    /\ aborted' = IF delta > 0 /\ some THEN aborted \cup {pktSeq} ELSE aborted
    /\ pc' = "idle" /\ reads' = reads + 1
    /\ UNCHANGED <<busy, some, pktSeq, freed, asked>>

Next ==
    \/ \E d \in -Late .. Early, size \in Sizes : Arrive((nowTS + d) % TSMod, size)
    \/ BeginRead
    \/ NothingDue \/ DecodeFails \/ DiscardOld \/ PlayCurr
    \/ FillRest

Spec == Init /\ [][Next]_vars /\ WF_vars(NothingDue \/ DecodeFails \/ DiscardOld \/ PlayCurr \/ FillRest)
----------------------------------------------------------------------------
\* Whatever the sizes, gaps and delays of packets, a read never writes beyond the
\* platform's buffer and leaves none of it unwritten, and its k-th unit is silence
\* or the unit of audio whose time it is.
OnTime ==
    /\ Len(buffer) <= ReadUnits
    /\ pc = "idle" /\ reads > 0 => Len(buffer) = ReadUnits
    /\ \A k \in 1 .. Len(buffer) :
           buffer[k] = Silence \/ (buffer[k] + Latency) % TSMod = (asked.now + (k - 1)) % TSMod

\* Silence is only played where no queued packet has that unit of audio.
NoNeedlessSilence ==
    \A k \in 1 .. Len(buffer) : buffer[k] = Silence =>
        \A i \in 1 .. Len(asked.busy) :
            ((asked.now + (k - 1)) - Src(asked.busy[i])) % TSMod >= asked.busy[i].size

\* The loop implements the one-step read: seen from outside it, each read takes
\* from the busy list, and gives up retransmits for, exactly what PlayoutSteps says.
Atomic == INSTANCE PlayoutSteps WITH
    queue <- IF pc = "idle" THEN busy ELSE asked.busy,
    time <- IF pc = "idle" THEN nowTS ELSE asked.now,
    abandoned <- IF pc = "idle" THEN aborted ELSE asked.aborted
LoopIsOneStep == Atomic!Spec

\* Every read of the platform's callback returns.
ReadsEnd == pc # "idle" ~> pc = "idle"
=============================================================================
