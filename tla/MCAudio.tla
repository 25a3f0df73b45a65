------------------------------ MODULE MCAudio ------------------------------
(***************************************************************************)
(* SpecStreams of MCGeneralAudio within two sets of bounds: streams that    *)
(* are short, any number of them, or one that is long.                      *)
(***************************************************************************)
EXTENDS MCGeneralAudio

CONSTANTS
    ShortSent, \* bound: packets the sender sends on each of many streams
    LongReads  \* bound: reads of the platform on the one long stream

VARIABLE long \* the one stream: sent for MaxSent, read for LongReads, not torn down

\* Bound: the long stream queues no packets without audio.
LongBounds ==
    /\ up' /\ (readTime' - FirstRead) % TSMod <= LongReads * ReadUnits
    /\ \A i \in 1 .. Len(busy') : busy'[i].size > 0

InitAudio == InitStreams /\ long \in BOOLEAN
NextAudio ==
    /\ NextStreams /\ UNCHANGED long
    /\ IF long THEN LongBounds ELSE sent' <= ShortSent
SpecAudio == InitAudio /\ [][NextAudio]_<<vars, flushed, long>>
=============================================================================
