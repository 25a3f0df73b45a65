----------------------------- MODULE PlayoutSteps -----------------------------
(***************************************************************************)
(* What _GeneralAudioRender promises: packets are queued, and a read takes *)
(* the part of the queue before the end of its window in one step.         *)
(***************************************************************************)
EXTENDS Playout

VARIABLES queue, time, abandoned   \* abandoned: packets not to be asked for again

Init == queue = <<>> /\ time \in Times /\ abandoned = {}

\* A packet no part of which was played is queued between its neighbours.
Queue ==
    /\ \E k \in 1 .. Len(queue') :
          /\ queue'[k].skip = 0
          /\ queue = SubSeq(queue', 1, k - 1) \o SubSeq(queue', k + 1, Len(queue'))
    /\ UNCHANGED <<time, abandoned>>

Read ==
    LET lim == (time + ReadUnits) % TSMod IN
    \E stop \in 1 .. Len(queue) + 1 :
       /\ StopsAt(queue, stop, lim)
       /\ queue' = LeftAfter(queue, stop, lim)
       /\ abandoned' = AbortsFor(queue, stop, time, lim)
       /\ time' = lim

Spec == Init /\ [][Queue \/ Read]_<<queue, time, abandoned>>
=============================================================================
