----------------------------- MODULE JitterBuffer -----------------------------
(***************************************************************************)
(* RTPJitterBuffer of AirPlayUtils.c, the buffer of the main and alternate *)
(* audio streams, with the three threads that meet in it: the receive      *)
(* thread of the stream (_MainAltAudioProcessPacket) puts packets in, the  *)
(* decode thread moves them from the received to the prepared list, and    *)
(* the audio device reads the prepared list.  nodeLock guards the lists;   *)
(* the decode thread gives it up while it decodes and leaves the node in   *)
(* the received list for that time.                                        *)
(*                                                                         *)
(* A node is its timestamp and the samples left in it; its place in a list *)
(* stands for the pointer.  Time is one event, the end of the buffering    *)
(* window.                                                                 *)
(***************************************************************************)
EXTENDS ModArith, Sequences, FiniteSets, SequencesExt, FiniteSetsExt

CONSTANTS Modulus,    \* of timestamps, 2^32
          Nodes,      \* nodesAllocated
          D,          \* samples of a packet
          L,          \* samples of a read
          BufferTS,   \* bufferMs, in samples
          Desired,    \* the high watermark of the buffer, in samples
          First,      \* timestamp of the first packet sent
          MaxPackets, \* bound: packets sent
          Late        \* bound: how many packets a packet may be late by

ASSUME NodesAssumption == Nodes \in Nat /\ Nodes > 3
ASSUME SizesAssumption == /\ D \in Nat \ {0} /\ L \in Nat \ {0}
                          /\ Desired \in Nat /\ D <= Desired
                          /\ BufferTS \in Nat /\ BufferTS < Desired
ASSUME TSAssumption == /\ Modulus \in Nat /\ First \in 0 .. Modulus - 1
                       /\ MaxPackets \in Nat /\ Late \in Nat
                       /\ 2 * (Desired + D * Late) < Modulus

VARIABLES
  decoder,      \* the stream is encoded
  free,         \* number of nodes in freeList
  received,     \* receivedList
  prepared,     \* preparedList
  nodesUsed,
  nextTS,       \* the playhead
  buffering,
  start,        \* startTicks: "none", or set and "ahead", or "past"
  nextDecodeTS, \* local to the decode thread
  dpc,          \* where the decode thread is
  decoding,     \* the timestamp of the node it decodes
  rx,           \* where the receive thread is
  decodeDone,
  fpc,          \* where RTPJitterBufferFree is
  sent,         \* packets the sender has sent
  heard         \* history: the end of the last sample that was played

lists == <<free, received, prepared, nodesUsed>>
play == <<nextTS, buffering, start, heard>>
decode == <<nextDecodeTS, dpc, decoding>>
teardown == <<decodeDone, fpc>>
bufferVars == <<decoder, lists, play, decode, rx, teardown, sent>>

TS == 0 .. Modulus - 1
Node == [ts : TS, len : 0 .. D]

BufferTypeOK == /\ decoder \in BOOLEAN
                /\ free \in 0 .. Nodes
                /\ received \in Seq(Node) /\ prepared \in Seq(Node)
                /\ nodesUsed \in 0 .. Nodes
                /\ nextTS \in TS /\ nextDecodeTS \in TS /\ decoding \in TS /\ heard \in TS
                /\ buffering \in BOOLEAN
                /\ start \in {"none", "ahead", "past"}
                /\ dpc \in {"check", "lock", "waiting", "woken", "pass", "decode", "exit"}
                /\ rx \in {"idle", "node", "put"}
                /\ decodeDone \in BOOLEAN
                /\ fpc \in {"no", "signal", "join", "freed"}
                /\ sent \in 0 .. MaxPackets

\* RTPJitterBufferInit.
BufferInit == /\ decoder \in BOOLEAN
              /\ free = Nodes
              /\ received = <<>> /\ prepared = <<>>
              /\ nodesUsed = 0
              /\ nextTS = 0 /\ buffering = TRUE /\ start = "none"
              /\ nextDecodeTS = 0 /\ dpc = "check" /\ decoding = 0
              /\ rx = "idle"
              /\ decodeDone = FALSE /\ fpc = "no"
              /\ sent = 0 /\ heard = First

Before(a, b) == ModLT(a, b, Modulus)
UpTo(a, b) == ModLE(a, b, Modulus)
Plus(ts, n) == (ts + n) % Modulus
Minus(a, b) == (a + Modulus - b) % Modulus
End(n) == Plus(n.ts, n.len)

\* nodeLock is free: only the decode thread keeps it from one step to the next.
Unlocked == dpc # "pass"
\* pthread_cond_signal( decodeCondition ): nobody waits, nothing happens.
Signalled == IF dpc = "waiting" THEN "woken" ELSE dpc

-------------------------------------------------------------------------------
\* _RTPJitterBufferBufferedSamples.
FramesPerPacket == IF decoder THEN D ELSE 1
Span(list, final) == IF list = <<>> THEN 0 ELSE Minus(Last(list).ts, Head(list).ts) + final
PreparedSamples(p) == Span(p, IF p = <<>> THEN 0 ELSE Last(p).len)
Samples(p, r) == PreparedSamples(p) + Span(r, FramesPerPacket)

\* _RTPJitterBufferDiscardExcess: nodes go from the head of the prepared list, then
\* of the received list, until no more than Desired is left; the node that is being
\* decoded is passed over.
InDecoder(n) == dpc = "decode" /\ n.ts = decoding
DropFirst(list, k) ==
  LET held == {i \in 1 .. k : InDecoder(list[i])}
  IN IF held = {} THEN SubSeq(list, k + 1, Len(list))
     ELSE <<list[Min(held)]>> \o SubSeq(list, k + 2, Len(list))
Fewest(list, OK(_)) ==
  DropFirst(list, Min({k \in 0 .. Len(list) : OK(DropFirst(list, k))} \union {Len(list)}))
PreparedKept == Fewest(prepared, LAMBDA p : Samples(p, received) <= Desired)
ReceivedKept == Fewest(received, LAMBDA r : Samples(PreparedKept, r) <= Desired)
Discarded == Len(prepared) + Len(received) - Len(PreparedKept) - Len(ReceivedKept)

-------------------------------------------------------------------------------
(* The receive thread. *)

\* RTPJitterBufferGetFreeNode, for a packet that is to be read.
GetFreeNode == /\ rx = "idle" /\ fpc = "no"
               /\ Unlocked /\ free > 0
               /\ sent < MaxPackets
               /\ free' = free - 1
               /\ rx' = "node"
               /\ UNCHANGED <<decoder, received, prepared, nodesUsed, play, decode, teardown, sent>>

\* The packet cannot be read or decrypted.
PacketFails == /\ rx = "node"
               /\ rx' = "put"
               /\ UNCHANGED <<decoder, lists, play, decode, teardown, sent>>

\* RTPJitterBufferPutFreeNode.
PutFreeNode == /\ rx = "put" /\ Unlocked
               /\ free' = free + 1
               /\ rx' = "idle"
               /\ UNCHANGED <<decoder, received, prepared, nodesUsed, play, decode, teardown, sent>>

\* Mutant: the buffer is not crowded before its last node is used.
CrowdedAtLimit == nodesUsed >= Nodes
Crowded == nodesUsed >= Nodes - 3

\* Where a packet belongs in list r behind list p, unless it is there or too late.
NotAfter(r, ts) == {i \in DOMAIN r : UpTo(r[i].ts, ts)}
\* Mutant: a packet that is late for the prepared list is taken.
RefusedTwin(p, r, ts) == NotAfter(r, ts) # {} /\ r[Max(NotAfter(r, ts))].ts = ts
Refused(p, r, ts) == IF NotAfter(r, ts) = {}
                     THEN p # <<>> /\ ~Before(Last(p).ts, ts)
                     ELSE r[Max(NotAfter(r, ts))].ts = ts
Place(r, ts) == Max(NotAfter(r, ts) \union {0}) + 1

\* RTPJitterBufferPutBusyNode.
PutBusyNode(ts) ==
  LET p == IF Crowded THEN PreparedKept ELSE prepared
      r == IF Crowded THEN ReceivedKept ELSE received
      gone == IF Crowded THEN Discarded ELSE 0
      ok == ~Refused(p, r, ts)
  IN /\ rx = "node" /\ Unlocked
     /\ prepared' = p
     /\ received' = IF ok THEN InsertAt(r, Place(r, ts), [ts |-> ts, len |-> D]) ELSE r
     /\ nextTS' = IF Crowded THEN Head(p \o r).ts ELSE nextTS
     /\ nodesUsed' = nodesUsed - gone + (IF ok THEN 1 ELSE 0)
     /\ free' = free + gone
     /\ dpc' = IF ok THEN Signalled ELSE dpc
     /\ start' = IF ok /\ buffering /\ start = "none" THEN "ahead" ELSE start
     /\ rx' = IF ok THEN "idle" ELSE "put"
     /\ UNCHANGED <<decoder, buffering, heard, nextDecodeTS, decoding, teardown>>

\* The network: packet k arrives, the next one or one behind a lost one, or one that
\* was sent before, late or twice.
Receive(k) == /\ k < MaxPackets /\ k + Late >= sent /\ k <= sent + 1
              /\ sent' = IF k < sent THEN sent ELSE k + 1
              /\ PutBusyNode(Plus(First, k * D))

-------------------------------------------------------------------------------
(* The decode thread, _RTPJitterBufferDecodeThread. *)

ToWait == /\ dpc = "check"
          /\ dpc' = IF decodeDone THEN "exit" ELSE "lock"
          /\ UNCHANGED <<decoder, lists, play, nextDecodeTS, decoding, rx, teardown, sent>>

Wait == /\ dpc = "lock"
        /\ dpc' = "waiting"
        /\ UNCHANGED <<decoder, lists, play, nextDecodeTS, decoding, rx, teardown, sent>>

Woken == /\ dpc = "woken"
         /\ dpc' = IF decodeDone THEN "exit" ELSE "pass"
         /\ UNCHANGED <<decoder, lists, play, nextDecodeTS, decoding, rx, teardown, sent>>

\* It holds nodeLock and has a node to look at.
Looks == dpc = "pass" /\ received # <<>>
\* Mutant: a late packet is decoded as well.
InTurnOrLate == Head(received).ts <= nextDecodeTS
InTurn == Head(received).ts = nextDecodeTS
Ahead == Head(received).ts > nextDecodeTS

StartDecode == /\ Looks /\ InTurn /\ decoder
               /\ decoding' = Head(received).ts
               /\ dpc' = "decode"
               /\ UNCHANGED <<decoder, lists, play, nextDecodeTS, rx, teardown, sent>>

Without(list, ts) == RemoveAt(list, CHOOSE i \in DOMAIN list : list[i].ts = ts)

\* The decoder gives all samples of the packet, some of them or none.
Decoded(len) == /\ dpc = "decode"
                /\ received' = Without(received, decoding)
                /\ prepared' = Append(prepared, [ts |-> decoding, len |-> len])
                /\ nextDecodeTS' = Plus(nextDecodeTS, D)
                /\ dpc' = "pass"
                /\ UNCHANGED <<decoder, free, nodesUsed, play, decoding, rx, teardown, sent>>

\* Mutant: a node that is given back still counts.
UsedAfterError == nodesUsed
UsedWithout == nodesUsed - 1

DecodeFails == /\ dpc = "decode"
               /\ received' = Without(received, decoding)
               /\ free' = free + 1
               /\ nodesUsed' = UsedWithout
               /\ dpc' = "pass"
               /\ UNCHANGED <<decoder, prepared, play, nextDecodeTS, decoding, rx, teardown, sent>>

\* No decoder: the node is moved as it is.
Move == /\ Looks /\ InTurn /\ ~decoder
        /\ received' = Tail(received)
        /\ prepared' = Append(prepared, Head(received))
        /\ nextDecodeTS' = Plus(nextDecodeTS, Head(received).len)
        /\ UNCHANGED <<decoder, free, nodesUsed, play, dpc, decoding, rx, teardown, sent>>

\* A gap: wait for the missing packet as long as half the buffer is prepared.
CanWait == 2 * PreparedSamples(prepared) >= BufferTS

SkipGap == /\ Looks /\ Ahead /\ ~CanWait
           /\ nextDecodeTS' = Head(received).ts
           /\ UNCHANGED <<decoder, lists, play, dpc, decoding, rx, teardown, sent>>

Tosses == ~InTurn /\ ~Ahead

Toss == /\ Looks /\ Tosses
        /\ received' = Tail(received)
        /\ free' = free + 1
        /\ nodesUsed' = nodesUsed - 1
        /\ UNCHANGED <<decoder, prepared, play, decode, rx, teardown, sent>>

EndPass == /\ dpc = "pass"
           /\ received # <<>> => Ahead /\ CanWait
           /\ dpc' = "check"
           /\ UNCHANGED <<decoder, lists, play, nextDecodeTS, decoding, rx, teardown, sent>>

DecodeThread == \/ ToWait \/ Wait \/ Woken \/ StartDecode \/ DecodeFails \/ Move
                \/ SkipGap \/ Toss \/ EndPass
                \/ \E len \in 0 .. D : Decoded(len)

-------------------------------------------------------------------------------
(* The audio device. *)

BufferingEnds == /\ start = "ahead"
                 /\ start' = "past"
                 /\ UNCHANGED <<decoder, lists, nextTS, buffering, heard, decode, rx, teardown, sent>>

\* A read from now to lim over the list p: nodes that end by lim are played, or late,
\* and go; the first other one is cut at lim or not reached.
Reaches(p, lim) == {i \in DOMAIN p : \A j \in 1 .. i : Before(p[j].ts, lim) /\ UpTo(End(p[j]), lim)}
Rest(p, lim) == SubSeq(p, Cardinality(Reaches(p, lim)) + 1, Len(p))
CutRest(p, lim) ==
  IF p # <<>> /\ Before(Head(p).ts, lim)
  THEN <<[ts |-> lim, len |-> Minus(End(Head(p)), lim)]>> \o Tail(p) ELSE p
\* The ends of what is heard of the list.
HeardEnds(p, now, lim) ==
  {End(p[i]) : i \in {j \in Reaches(p, lim) : p[j].len > 0 /\ Before(now, End(p[j]))}}
    \union {lim : i \in {j \in DOMAIN p \ Reaches(p, lim) : Before(p[j].ts, lim)}}
Furthest(S, ts) == IF S = {} THEN ts ELSE CHOOSE e \in S : \A f \in S : UpTo(f, e)

\* From where the read reads; it is where the buffer began before its excess went.
ReadsFrom == IF ~buffering THEN nextTS
             ELSE IF prepared \o received = <<>> THEN 0 ELSE Head(prepared \o received).ts

\* RTPJitterBufferRead (a read before the end of the buffering window is silence and
\* changes nothing).
Read ==
  LET trims == buffering /\ prepared \o received # <<>>
      p == IF trims THEN PreparedKept ELSE prepared
      lim == Plus(ReadsFrom, L)
      rest == Rest(p, lim)
      ends == HeardEnds(p, ReadsFrom, lim)
      dry == rest = <<>> /\ lim \notin {End(p[i]) : i \in DOMAIN p}
      gone == (IF trims THEN Discarded ELSE 0) + Len(p) - Len(rest)
  IN /\ Unlocked /\ fpc = "no"
     /\ buffering => start = "past"
     /\ prepared' = CutRest(rest, lim)
     /\ received' = IF trims THEN ReceivedKept ELSE received
     /\ free' = free + gone
     /\ nodesUsed' = nodesUsed - gone
     /\ dpc' = IF Len(rest) < Len(p) THEN Signalled ELSE dpc
     /\ nextTS' = lim
     /\ buffering' = dry
     /\ start' = IF dry THEN "none" ELSE start
     /\ heard' = Furthest(ends, heard)
     /\ UNCHANGED <<decoder, nextDecodeTS, decoding, rx, teardown, sent>>

-------------------------------------------------------------------------------
(* RTPJitterBufferFree, by the tear-down of the stream, which has ended the *)
(* receive thread; the audio device has stopped.                            *)

SetDone == /\ fpc = "no" /\ rx = "idle"
           /\ decodeDone' = TRUE
           /\ fpc' = "signal"
           /\ UNCHANGED <<decoder, lists, play, decode, rx, sent>>

SignalDone == /\ fpc = "signal"
              /\ dpc' = Signalled
              /\ fpc' = "join"
              /\ UNCHANGED <<decoder, lists, play, nextDecodeTS, decoding, rx, decodeDone, sent>>

JoinThread == /\ fpc = "join" /\ dpc = "exit"
              /\ fpc' = "freed"
              /\ received' = <<>> /\ prepared' = <<>>
              /\ UNCHANGED <<decoder, free, nodesUsed, play, decode, rx, decodeDone, sent>>

-------------------------------------------------------------------------------
BufferNext == \/ GetFreeNode \/ PacketFails \/ PutFreeNode
              \/ \E k \in 0 .. MaxPackets - 1 : Receive(k)
              \/ DecodeThread
              \/ BufferingEnds \/ Read
              \/ SetDone \/ SignalDone \/ JoinThread

\* The threads run and decoding ends.
BufferFairness == WF_bufferVars(DecodeThread) /\ WF_bufferVars(SignalDone) /\ WF_bufferVars(JoinThread)

BufferSpec == BufferInit /\ [][BufferNext]_bufferVars /\ BufferFairness

-------------------------------------------------------------------------------
\* Every node is in one place, whatever was refused, tossed, cut or failed to decode,
\* and nodesUsed, which decides when the buffer is crowded, counts the nodes in it.
\* The decode thread, which works without nodeLock, comes back to a node that is still
\* in the received list.
NodesConserved == fpc # "freed" =>
                    /\ nodesUsed = Len(received) + Len(prepared)
                    /\ free + nodesUsed + (IF rx = "idle" THEN 0 ELSE 1) = Nodes
                    /\ dpc = "decode" => \E i \in DOMAIN received : received[i].ts = decoding

\* Packets are played in order: both lists are sorted, the received ones follow the
\* prepared ones.  A packet that overtook the one being decoded is in between until
\* the decode thread goes on.
Sorted(list) == \A i, j \in DOMAIN list : i < j => Before(list[i].ts, list[j].ts)
InOrder == /\ Sorted(prepared) /\ Sorted(received)
           /\ dpc # "pass" /\ prepared # <<>> /\ received # <<>>
                => Before(Last(prepared).ts, Head(received).ts)

\* Nothing is heard twice, or after something later: duplicates of packets that were
\* played long ago are kept out by the decode thread.
HeardOnce == \A i \in DOMAIN prepared : UpTo(heard, prepared[i].ts)

\* The receive thread finds a node for the next packet (without one it does not read
\* the socket, and select() returns at once for ever): excess is discarded in time,
\* also when the decode thread holds on to a node.
RoomForNext == rx = "idle" => free > 0

\* "The node must have arrived late, just after we decoded one of its successors".
\* It does not hold when timestamps wrap.
TossedWasLate == dpc = "pass" /\ received # <<>> /\ Tosses
                   => Before(Head(received).ts, nextDecodeTS)

\* The tear-down gets the decode thread to end.  It does not hold.
FreeEnds == fpc = "join" ~> fpc = "freed"
===============================================================================
