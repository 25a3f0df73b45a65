------------------------------- MODULE Playout -------------------------------
(***************************************************************************)
(* What one read of the platform does to the busy list of the MainHigh     *)
(* stream, stated without the loop that does it: which nodes are played,   *)
(* what is left of the list, and for which packets pending retransmits are *)
(* given up.  RenderLoop checks the loop of _GeneralAudioRender against    *)
(* these definitions; GeneralAudio uses them as one step.                  *)
(***************************************************************************)
EXTENDS ModArith, Sequences

CONSTANTS
    TSMod,       \* modulus of RTP timestamps and sample times (2^32)
    Latency,     \* audioLatencyOffset
    Units,       \* units of audio in a packet (framesPerPacket)
    ReadUnits    \* units the platform reads per callback

ASSUME PlayoutSizes ==
    /\ TSMod \in Nat \ {0} /\ Latency \in Nat
    /\ Units \in Nat /\ ReadUnits \in Nat \ {0}
    /\ 2 * (Units + ReadUnits) < TSMod   \* else "before" and "after" mean nothing

Times == 0 .. TSMod - 1

\* The part of a node from skip on is queued: it plays from Src to End.
Src(node) == (node.ts + Latency) % TSMod
End(node) == (Src(node) + node.size) % TSMod
Undecodable(node) == node.skip = 0 /\ node.size = 0
Ready(node, lim) == ModLT(Src(node), lim, TSMod)

\* The node at which a read of the window [now, lim) stops: the first that is not
\* due yet or that reaches to the end of the window; Len(q) + 1 if there is none.
BreaksAt(node, lim) ==
    ~Ready(node, lim) \/ (~Undecodable(node) /\ ModGE(End(node), lim, TSMod))
StopsAt(q, stop, lim) ==
    /\ \A i \in 1 .. stop - 1 : ~BreaksAt(q[i], lim)
    /\ stop <= Len(q) => BreaksAt(q[stop], lim)

Played(q, stop, lim) == {i \in 1 .. stop : i <= Len(q) /\ Ready(q[i], lim)}
Capped(q, stop, lim) ==
    stop <= Len(q) /\ Ready(q[stop], lim) /\ ModGT(End(q[stop]), lim, TSMod)
FreedBy(q, stop, lim) ==
    IF stop <= Len(q) /\ Ready(q[stop], lim) /\ ~Capped(q, stop, lim) THEN stop ELSE stop - 1

\* How far into the window the nodes at the indices S reach.
Filled(q, S, now) ==
    LET reach == {0} \cup {ModCmp(End(q[i]), now, TSMod) : i \in {j \in S : ~Undecodable(q[j])}}
    IN CHOOSE m \in reach : \A x \in reach : x <= m

\* _RetransmitsAbortOne is called for a node that is too old, comes after a gap or
\* is partly too late, and for the last one played if the window was not filled.
AbortsFor(q, stop, now, lim) ==
    LET played == Played(q, stop, lim) IN
    {q[i].seq : i \in {j \in played :
        \/ ~Undecodable(q[j]) /\ ModCmp(Src(q[j]), now, TSMod) # Filled(q, 1 .. j - 1, now)
        \/ Filled(q, played, now) < ReadUnits /\ \A h \in played : h <= j}}

\* What is left of a node after the units before lim have been played.
CutAt(node, lim) ==
    LET cut == (lim - Src(node)) % TSMod
    IN [node EXCEPT !.ts = (@ + cut) % TSMod, !.skip = @ + cut, !.size = @ - cut]

\* The busy list after the read.
LeftAfter(q, stop, lim) ==
    LET rest == SubSeq(q, FreedBy(q, stop, lim) + 1, Len(q))
    IN IF Capped(q, stop, lim) THEN [rest EXCEPT ![1] = CutAt(@, lim)] ELSE rest
=============================================================================
