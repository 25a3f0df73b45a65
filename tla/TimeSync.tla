------------------------------ MODULE TimeSync ------------------------------
(***************************************************************************)
(* Time synchronisation of a session: the device's clock is measured by    *)
(* requests over UDP, first back to back while SETUP waits (negotiation),  *)
(* then every few seconds by the timing thread, until the session sleeps   *)
(* or ends.                                                                *)
(*                                                                         *)
(* The owner is the thread of the RTSP requests; it and the timing thread  *)
(* never use the state of the measurement at the same time.  A request is  *)
(* known by the time it was sent at; here that is an id no reply on the    *)
(* way has.  Clock offsets and round trips are in half units, so that they *)
(* stay integral.  A clock is what it is ahead of a reference: "epoch" is  *)
(* ours, "server" the device's.                                            *)
(***************************************************************************)
EXTENDS Integers, Sequences, FiniteSets

CONSTANTS
    Slots,      \* places of the shift register (8)
    Enough,     \* replies that end the negotiation (5)
    TooMany,    \* failures that end it (64)
    SendTries,  \* failures to send in a row that end it (64)
    Limit,      \* offset above which a synchronised clock is stepped (100 ms)
    Unset,      \* delay of an empty place of the register (1000 seconds)
    Paths,      \* delays of the network: <<there, back>>
    Servers,    \* what the device's clock can be ahead
    MaxCopies,  \* bound: copies of a reply the network delivers
    Window      \* bound: replies that are on the way at a time

ASSUME Counts == {Slots, Enough, TooMany, SendTries, MaxCopies, Window} \subseteq Nat \ {0}
ASSUME EnoughFits == Enough < Slots
ASSUME Clocks == Servers \subseteq Int /\ {Limit, Unset} \subseteq Int
\* Only a jump of the device's clock is above the limit, and the network is
\* faster than an empty place says.
ASSUME PathDelays ==
    \A p \in Paths : /\ p \in Nat \X Nat /\ 2 * (p[1] + p[2]) < Unset
                     /\ \A q \in Paths : (p[1] - p[2]) - (q[1] - q[2]) <= Limit

VARIABLES
    pc,       \* of the owner: "closed", "open", "send", "wait", "up", "join"
    thread,   \* the timing thread: "none", "select", "exited"
    quit,     \* the thread is told to
    tries,    \* of the negotiation: successes, failures, failures to send
    last,     \* rtcpTILastTransmitTime: the outstanding request, 0 for none
    source,   \* responded (rtcpTIResponseCount > 0) and the shift register
    epoch,    \* epochTime of the session's clock
    server,   \* external: the device's clock
    net,      \* external: replies on the way
    jumped,   \* history: the device's clock jumped after the last negotiation began
    best,     \* history: shortest round trip of the last negotiation
    recent    \* history: the best of the negotiation and the Slots last round
              \* trips after it, oldest first

ownerVars == <<pc, tries>>
measureVars == <<last, source, epoch, best, recent>>
vars == <<ownerVars, thread, quit, measureVars, server, net, jumped>>

NoTries == [good |-> 0, bad |-> 0, unsent |-> 0]
Places == 0 .. Slots - 1
Least(a, b) == IF a < b THEN a ELSE b
Magnitude(x) == IF x < 0 THEN -x ELSE x

Init ==
    /\ pc = "closed" /\ thread = "none" /\ quit = FALSE /\ tries = NoTries
    /\ last = 0
    /\ source = [responded |-> FALSE, delay |-> [i \in Places |-> 0], index |-> 0, used |-> 0]
    /\ epoch = 0 /\ server \in Servers /\ net = {}
    /\ jumped = FALSE /\ best = Unset /\ recent = <<>>
----------------------------------------------------------------------------
(* Requests and replies *)

Ids == 1 .. Window + 1
NewId == CHOOSE i \in Ids : \A p \in net : p.id # i

\* _TimingSendRequest: a reply comes back over some path, or never.
SendRequest ==
    /\ last' = NewId
    /\ \/ UNCHANGED net
       \/ /\ Cardinality(net) < Window
          /\ \E path \in Paths, n \in 1 .. MaxCopies :
                net' = net \cup {[id |-> NewId, sentAt |-> epoch, server |-> server,
                                  path |-> path, copies |-> n]}

\* One copy of a reply less.
Taken(p) == IF p.copies = 1 THEN net \ {p} ELSE (net \ {p}) \cup {[p EXCEPT !.copies = @ - 1]}

\* Mutant: a reply is compared with nothing but "is a request outstanding".
MatchesAny(p) == last # 0

\* The reply is to the outstanding request, and not a duplicate.
Matches(p) == p.id = last

\* Offset and round trip that a reply measures.
Offset(p) == (2 * p.server - p.sentAt - epoch) \div 2 + p.path[1] - p.path[2]
RoundTrip(p) == 2 * (p.path[1] + p.path[2]) + epoch - p.sentAt

\* The register, emptied before the first reply of a negotiation.
Register ==
    IF source.responded THEN source
    ELSE [source EXCEPT !.delay = [i \in Places |-> Unset], !.index = 0, !.used = 0]

\* Only a measurement as short as any in the register adjusts the clock.
UseMeasurement(rtt) == \A i \in Places : rtt <= Register.delay[i]

\* Mutant: the first place is not used again.
NextPlaceSticky(i) == IF i + 1 >= Slots THEN 1 ELSE i + 1

NextPlace(i) == IF i + 1 >= Slots THEN 0 ELSE i + 1

Recorded(rtt) ==
    [responded |-> source.responded \/ UseMeasurement(rtt),
     delay |-> [Register.delay EXCEPT ![Register.index] = rtt],
     index |-> NextPlace(Register.index),
     used |-> IF UseMeasurement(rtt) THEN Register.index ELSE Register.used]

\* A measurement that is used sets the clock: AirTunesClock_Adjust steps it;
\* slewing it is left out.
Adjust(p, force) ==
    epoch' = IF UseMeasurement(RoundTrip(p)) /\ (force \/ Magnitude(Offset(p)) > Limit)
             THEN epoch + Offset(p) ELSE epoch
----------------------------------------------------------------------------
(* The owner: SETUP, sleep and TEARDOWN *)

\* _TimingInitialize, with the session's clock or a new one.
Initialize ==
    /\ pc = "closed" /\ pc' = "open"
    /\ epoch' \in {epoch, 0}
    /\ UNCHANGED <<thread, quit, tries, last, source, best, recent, server, net, jumped>>

\* _TimingNegotiate, up to its loop.
Negotiate ==
    /\ pc = "open" /\ pc' = "send"
    /\ source' = [source EXCEPT !.responded = FALSE]
    /\ jumped' = FALSE /\ best' = Unset /\ recent' = <<>>
    /\ UNCHANGED <<tries, thread, quit, last, epoch, server, net>>

\* _TimingNegotiate returns.
Leave(to) == pc' = to /\ tries' = NoTries

NegotiateSends ==
    /\ pc = "send" /\ pc' = "wait"
    /\ tries' = [tries EXCEPT !.unsent = 0]
    /\ SendRequest
    /\ UNCHANGED <<thread, quit, source, epoch, best, recent, server, jumped>>

\* The transmit time is noted before the request fails to be sent.
NegotiateSendFails ==
    /\ pc = "send"
    /\ last' = NewId
    /\ IF tries.unsent + 1 >= SendTries THEN Leave("open")
       ELSE tries' = [tries EXCEPT !.unsent = @ + 1] /\ UNCHANGED pc
    /\ UNCHANGED <<thread, quit, source, epoch, best, recent, server, net, jumped>>

\* The negotiation is over: only its best measurement is kept, in the first place.
BestFirst(s) ==
    [s EXCEPT !.delay[0] = s.delay[s.used], !.used = 0, !.index = 1]

\* A reply to the request: the last one that is needed starts the thread, unless
\* the thread cannot be created.
NegotiateReceives(p) ==
    /\ pc = "wait" /\ p \in net /\ net' = Taken(p)
    /\ Matches(p)
    /\ best' = Least(best, RoundTrip(p))
    /\ last' = 0
    /\ Adjust(p, TRUE)
    /\ IF tries.good + 1 < Enough
       THEN /\ pc' = "send" /\ tries' = [tries EXCEPT !.good = @ + 1]
            /\ source' = Recorded(RoundTrip(p))
            /\ UNCHANGED <<thread, recent>>
       ELSE /\ source' = BestFirst(Recorded(RoundTrip(p)))
            /\ \/ Leave("up") /\ thread' = "select" /\ recent' = <<best'>>
               \/ Leave("open") /\ UNCHANGED <<thread, recent>>
    /\ UNCHANGED <<quit, server, jumped>>

\* kDuplicateErr: the wait starts over, and nothing is counted.
NegotiateIgnores(p) ==
    /\ pc = "wait" /\ p \in net /\ net' = Taken(p)
    /\ ~Matches(p)
    /\ UNCHANGED <<ownerVars, thread, quit, measureVars, server, jumped>>

\* Mutant: a timeout is not counted.
TimeoutUncounted ==
    /\ pc = "wait" /\ pc' = "send"
    /\ UNCHANGED <<tries, thread, quit, measureVars, server, net, jumped>>

\* No reply for 100 ms, or one that is malformed.
NegotiateTimesOut ==
    /\ pc = "wait"
    /\ IF tries.bad + 1 >= TooMany THEN Leave("open")
       ELSE tries' = [tries EXCEPT !.bad = @ + 1] /\ pc' = "send"
    /\ UNCHANGED <<thread, quit, measureVars, server, net, jumped>>

\* ECONNREFUSED: nobody listens on the device's timing port.
NegotiateRefused ==
    /\ pc = "wait" /\ Leave("open")
    /\ UNCHANGED <<thread, quit, measureVars, server, net, jumped>>

\* _TimingFinalize: the thread, if any, is told to quit ...
Finalize ==
    /\ pc \in {"open", "up"}
    /\ IF thread = "none" THEN pc' = "closed" /\ UNCHANGED quit
                          ELSE pc' = "join" /\ quit' = TRUE
    /\ UNCHANGED <<thread, tries, measureVars, server, net, jumped>>

\* ... and joined.
Join ==
    /\ pc = "join" /\ thread = "exited"
    /\ pc' = "closed" /\ thread' = "none" /\ quit' = FALSE
    /\ UNCHANGED <<tries, measureVars, server, net, jumped>>
----------------------------------------------------------------------------
(* _TimingThread *)

\* Nothing for two seconds: another request.
ThreadSends ==
    /\ thread = "select" /\ ~quit
    /\ SendRequest
    /\ UNCHANGED <<ownerVars, thread, quit, source, epoch, best, recent, server, jumped>>

ThreadSendFails ==
    /\ thread = "select" /\ ~quit
    /\ last' = NewId
    /\ UNCHANGED <<ownerVars, thread, quit, source, epoch, best, recent, server, net, jumped>>

ThreadReceives(p) ==
    /\ thread = "select" /\ p \in net /\ net' = Taken(p)
    /\ Matches(p)
    /\ last' = 0
    /\ Adjust(p, FALSE)
    /\ source' = Recorded(RoundTrip(p))
    /\ recent' = LET r == Append(recent, RoundTrip(p)) IN
                 IF Len(r) > Slots THEN Tail(r) ELSE r
    /\ UNCHANGED <<ownerVars, thread, quit, best, server, jumped>>

ThreadIgnores(p) ==
    /\ thread = "select" /\ p \in net /\ net' = Taken(p)
    /\ ~Matches(p)
    /\ UNCHANGED <<ownerVars, thread, quit, measureVars, server, jumped>>

ThreadQuits ==
    /\ thread = "select" /\ quit
    /\ thread' = "exited"
    /\ UNCHANGED <<ownerVars, quit, measureVars, server, net, jumped>>
----------------------------------------------------------------------------
(* The network and the device *)

Lose(p) ==
    /\ p \in net /\ net' = net \ {p}
    /\ UNCHANGED <<ownerVars, thread, quit, measureVars, server, jumped>>

\* The device's clock is set, once after a negotiation.
ServerJumps ==
    /\ thread = "select" /\ ~jumped
    /\ jumped' = TRUE
    /\ server' \in Servers \ {server}
    /\ UNCHANGED <<ownerVars, thread, quit, measureVars, net>>
----------------------------------------------------------------------------
Owner ==
    \/ Initialize \/ Negotiate \/ NegotiateSends \/ NegotiateSendFails
    \/ NegotiateTimesOut \/ NegotiateRefused \/ Finalize \/ Join
    \/ \E p \in net : NegotiateReceives(p) \/ NegotiateIgnores(p)

TimingThread ==
    \/ ThreadSends \/ ThreadSendFails \/ ThreadQuits
    \/ \E p \in net : ThreadReceives(p) \/ ThreadIgnores(p)

Next == Owner \/ TimingThread \/ ServerJumps \/ \E p \in net : Lose(p)

\* The owner's waits time out (what the network has to deliver between two of
\* its requests is finite).  The thread is told when a datagram or the order to
\* quit is there, and sends every few seconds; of what it sends again and again
\* something is answered, and some answer is to the last request.
Fairness ==
    /\ WF_vars(NegotiateSends \/ NegotiateSendFails)
    /\ WF_vars(NegotiateTimesOut)
    /\ WF_vars(ThreadQuits) /\ WF_vars(\E p \in net : ThreadIgnores(p))
    /\ SF_vars(ThreadSends /\ net' # net)
    /\ SF_vars(\E p \in net : ThreadReceives(p))

Spec == Init /\ [][Next]_vars /\ Fairness
----------------------------------------------------------------------------
(* Properties *)

\* A negotiation is worth its best measurement, whatever replies were lost, late
\* or duplicated while each of them stepped the clock: at its end the clock is no
\* further from the device's than half the shortest round trip, and that
\* measurement is not "prematurely evicted from the shift register"
\* (AirPlayReceiverSession.c:4005) by the ones that follow.
BestCounts ==
    thread = "select" =>
        /\ Len(recent) = 1 /\ ~jumped => 2 * Magnitude(server - epoch) <= best
        /\ \A i \in 1 .. Len(recent) : \E j \in Places : source.delay[j] = recent[i]

\* A SETUP that negotiates comes to an end, even if no reply ever arrives.
NegotiationEnds == pc \in {"send", "wait"} ~> pc \in {"open", "up"}

\* When the device's clock jumps ours follows it, even if the network has become
\* slower than the negotiation's best for good: old measurements leave the register.
ClockFollows ==
    (thread = "select" /\ Magnitude(server - epoch) > 2 * Limit) ~>
        (thread # "select" \/ Magnitude(server - epoch) <= Limit)
=============================================================================
