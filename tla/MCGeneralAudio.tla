--------------------------- MODULE MCGeneralAudio ---------------------------
(***************************************************************************)
(* Instances of GeneralAudio for TLC.                                      *)
(***************************************************************************)
EXTENDS GeneralAudio

VARIABLE flushed \* history: the stream that is set up has been flushed

\* Any number of streams, flushed at any time.
Flushes == \E a \in InFlight \cup {sent} : FlushAudio(TSOf(a), SeqOf(a))
InitStreams == Init /\ flushed = FALSE
NextStreams ==
    /\ Next
    /\ flushed' = (up /\ up' /\ (flushed \/ Flushes))
SpecStreams == InitStreams /\ [][NextStreams]_<<vars, flushed>>

\* The stream between two flushes: no FLUSH request arrives.  The network is
\* never down for half the sequence space, so sequence numbers can be compared.
NextUnflushed ==
    /\ ~usedFreed /\ UNCHANGED flushed
    /\ \/ \E redundant \in BOOLEAN : Setup(redundant)
       \/ ReceiveNothing
       \/ \E a \in InFlight : Arrive(a, Units) \/ ArriveRetransmit(a, Units)
       \/ \E seq \in asked : ReceiveFutile(seq)
       \/ ReadAudio
       \/ /\ receiveCount > 0 => ModGT(SeqOf(sent), lastRTPSeq, SeqMod)
          /\ SenderSends
       \/ \E s \in DOMAIN rt.busy : RequestTimesOut(s)
SpecUnflushed == InitStreams /\ [][NextUnflushed]_<<vars, flushed>>

\* While a flush is in progress, and after it has completed for as long as the
\* network can still deliver what was sent before it, no packet from before the
\* flush target is queued for playing.
FlushedNotQueued ==
    flushed => \A i \in 1 .. Len(busy) : ModGE(busy[i].hdr, flushUntilTS, TSMod)
=============================================================================
