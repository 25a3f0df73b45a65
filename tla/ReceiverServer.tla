---------------------------- MODULE ReceiverServer ----------------------------
(***************************************************************************)
(* The receiver server: its control connections, the session each of them  *)
(* may own, how a session is watched for a device that goes away, and what *)
(* the server does when one has died.                                      *)
(*                                                                         *)
(* Two serial queues run everything here.  httpQueue handles requests and  *)
(* closes connections; the server's own queue takes reports of dead        *)
(* sessions, a task at a time, and waits for httpQueue (dispatch_sync) to  *)
(* remove the connections.  The keep-alive thread of an idle session and   *)
(* the periodic timer of a recording one report its death.  A session is   *)
(* finalized on the queue that gives up its last reference, and its thread *)
(* is joined only there.                                                   *)
(***************************************************************************)
EXTENDS Naturals, Sequences, FiniteSets

CONSTANTS
    Conns,     \* control connections that can be open at a time
    Sessions,  \* session objects that can be alive at a time
    Streams,   \* main audio, alternate audio, screen
    LowPower,  \* connections of devices that keep alive in low power, by beacons
    None,      \* NULL, and a request of the platform instead of a session
    MaxReports \* bound: reports on the server's queue

ASSUME ServerSets == IsFiniteSet(Conns) /\ IsFiniteSet(Sessions) /\ IsFiniteSet(Streams)
ASSUME NoneIsNoSession == None \notin Sessions
ASSUME LowPowerConns == LowPower \subseteq Conns
ASSUME ReportBound == MaxReports \in Nat

VARIABLES
    httpServer, \* "up", "stopping": forgotten, not stopped yet; or "down"
    cnx,        \* connections and their AirPlayReceiverConnection; "again" is
                \* history: a TEARDOWN of everything left TCP keep-alive off
    session,    \* session of each connection, or None
    ses,        \* session objects; the thread "late" is history: it timed out in
                \* _Finalize, and retained a session that is freed all the same
    playing,
    reports,    \* deaths reported to the server's queue, oldest first
    dying       \* the death whose task waits for httpQueue, if any

vars == <<httpServer, cnx, session, ses, playing, reports, dying>>

Closed == [linked |-> FALSE, didAnnounce |-> FALSE, didRecord |-> FALSE, tcpKeepAlive |-> FALSE,
           again |-> FALSE]
Fresh == [refs |-> 1, controlSetup |-> FALSE, keepAliveSock |-> FALSE, thread |-> "none",
          streams |-> {}, sessionIdle |-> TRUE, sessionIdleValid |-> FALSE, timer |-> FALSE,
          finalizing |-> "no"]
Freed == [Fresh EXCEPT !.refs = 0]

Linked == {c \in Conns : cnx[c].linked}
Announced == {c \in Linked : cnx[c].didAnnounce}

Init ==
    /\ httpServer = "up"
    /\ cnx = [c \in Conns |-> Closed] /\ session = [c \in Conns |-> None]
    /\ ses = [s \in Sessions |-> Freed]
    /\ playing = FALSE /\ reports = <<>> /\ dying = {}
----------------------------------------------------------------------------
(* What happens to a session *)

\* CFRelease on the queue q: the last reference starts to finalize it there.
Release(o, q) == [o EXCEPT !.refs = @ - 1, !.finalizing = IF o.refs = 1 THEN q ELSE @]

\* No session is being finalized on the queue q, so that it can go on.
Ready(q) == \A s \in Sessions : ses[s].finalizing # q

\* AirPlayReceiverSessionTearDown without streams.  The keep-alive socket and
\* its thread, and the idle state, stay until the session is freed.
TornDown(o) == [o EXCEPT !.controlSetup = FALSE, !.streams = {}, !.timer = FALSE]

\* _ControlIdleStateTransition has something to do.
Transits(o) == ~o.sessionIdleValid \/ (o.streams = {}) # o.sessionIdle

\* Its first half.  Without streams the keep-alive thread is started unless it
\* is there; with streams it is joined.
Watched(o) ==
    IF ~Transits(o) \/ ~o.keepAliveSock THEN o
    ELSE IF o.streams # {} THEN [o EXCEPT !.thread = "none"]
    ELSE [o EXCEPT !.thread = IF @ = "none" THEN "running" ELSE @]

\* All of it; the timing thread is left out.
IdleTransition(o) == [Watched(o) EXCEPT !.sessionIdle = (o.streams = {}), !.sessionIdleValid = TRUE]

\* Mutant: TCP keep-alive is turned off for every idle session.
KeepAliveOffIdle(o, tcp) == IF ~Transits(o) THEN tcp ELSE o.streams # {}

\* Whether TCP keep-alive probes the connection after the transition.
TCPKeepAlive(o, tcp) == IF ~Transits(o) \/ ~o.keepAliveSock THEN tcp ELSE o.streams # {}

\* The connections D are destroyed, and each with it its session's reference.
SessionAfter(D) == [c \in Conns |-> IF c \in D THEN None ELSE session[c]]

\* Mutant: a connection that closes leaves the playing state to TEARDOWN.
StillPlaying(D) == playing

\* The server stops playing with any session, be it another one that plays.
PlayingAfter(D) == playing /\ \A c \in D : session[c] = None

AfterClose(D) ==
    [cnx |-> [c \in Conns |-> IF c \in D THEN Closed ELSE cnx[c]],
     session |-> SessionAfter(D),
     ses |-> [s \in Sessions |-> IF \E c \in D : session[c] = s THEN Release(TornDown(ses[s]), "http")
                                 ELSE ses[s]],
     playing |-> PlayingAfter(D)]

Becomes(state) ==
    /\ cnx' = state.cnx /\ session' = state.session /\ ses' = state.ses
    /\ playing' = state.playing
----------------------------------------------------------------------------
(* httpQueue: connections and requests *)

\* _HTTPServerAcceptConnection: TCP keep-alive is on from the start.
Accept(c) ==
    /\ Ready("http") /\ httpServer # "down" /\ c \notin Linked
    /\ cnx' = [cnx EXCEPT ![c] = [Closed EXCEPT !.linked = TRUE, !.tcpKeepAlive = TRUE]]
    /\ UNCHANGED <<httpServer, session, ses, playing, reports, dying>>

\* _HandleHTTPConnectionClose: the device is gone, or its TCP keep-alive fails.
Close(c) ==
    /\ Ready("http") /\ c \in Linked
    /\ Becomes(AfterClose({c}))
    /\ UNCHANGED <<httpServer, reports, dying>>

\* Mutant: only a connection that also records is hijacked.
HijackRecording(c) == {d \in Announced \ {c} : cnx[d].didRecord}

\* _HijackConnections: SETUP closes every other connection that has announced.
Hijacked(c) == IF httpServer = "up" THEN Announced \ {c} ELSE {}

\* A session object for the connection can be had: its own, or a new one.
HasSession(c, after) == session[c] # None \/ \E s \in Sessions : after.ses[s] = Freed
SessionOf(c, after) ==
    IF session[c] # None THEN session[c] ELSE CHOOSE s \in Sessions : after.ses[s] = Freed

\* SETUP that fails before AirPlayReceiverSessionSetup: a bad request, or, with
\* a session that was there or has been created, a bad key.
SetupRefused(c) ==
    LET after == AfterClose(Hijacked(c)) IN
    /\ c \in Linked
    /\ UNCHANGED <<httpServer, reports, dying>>
    /\ \/ Becomes(after)
       \/ /\ session[c] = None /\ HasSession(c, after)
          /\ Becomes([after EXCEPT !.session[c] = SessionOf(c, after),
                                   !.ses[SessionOf(c, after)] = Fresh])

\* _ControlSetup
Controlled(o, lowPower) ==
    IF o.controlSetup THEN o
    ELSE [o EXCEPT !.controlSetup = TRUE, !.keepAliveSock = @ \/ lowPower]

\* The session of c, created before or now, and with its control set up.
Created(c, after) == IF session[c] = None THEN Fresh ELSE after.ses[session[c]]
Started(c, after) == Controlled(Created(c, after), c \in LowPower)

\* SETUP that succeeds.  Streams that are set up already are refused.
SetupDone(c, R) ==
    LET after == AfterClose(Hijacked(c))
        s == SessionOf(c, after)
        o == Started(c, after)
        with == [o EXCEPT !.streams = @ \cup R]
        moves == R # {} \/ ~o.sessionIdleValid
    IN /\ c \in Linked /\ HasSession(c, after) /\ o.streams \cap R = {}
       /\ Becomes([after EXCEPT
             !.session[c] = s,
             !.ses[s] = IF moves THEN IdleTransition(with) ELSE with,
             !.cnx[c].didAnnounce = TRUE,
             !.cnx[c].tcpKeepAlive = IF moves THEN TCPKeepAlive(with, @) ELSE @,
             !.playing = TRUE])
       /\ UNCHANGED <<httpServer, reports, dying>>

\* The streams R are torn down, and the session may have become idle.
StreamsTornDown(o, R) == IdleTransition([o EXCEPT !.streams = @ \ R])

\* SETUP that fails in AirPlayReceiverSessionSetup.  It tears down what the
\* request names, whether or not the request had set it up, or else everything;
\* the session stays.  It fails in _ControlSetup, before or behind the keep-alive
\* socket, before the idle transition, in it (the keep-alive is switched, the
\* timing is not there) or behind it.
SetupFails(c, R, where) ==
    LET after == AfterClose(Hijacked(c))
        s == SessionOf(c, after)
        o == Started(c, after)
        with == [o EXCEPT !.streams = @ \cup R]
        moves == R # {} \/ ~o.sessionIdleValid
        got == CASE where = "clock" -> Created(c, after)
                 [] where = "events" -> [o EXCEPT !.controlSetup = FALSE]
                 [] where = "before" \/ (where = "behind" /\ ~moves) -> o
                 [] where = "in" -> Watched(with)
                 [] OTHER -> IdleTransition(with)
        tcp == IF where \in {"clock", "events", "before"} \/ ~moves THEN after.cnx[c].tcpKeepAlive
               ELSE TCPKeepAlive(with, after.cnx[c].tcpKeepAlive)
    IN /\ c \in Linked /\ HasSession(c, after)
       /\ where \in {"clock", "events"} => ~Created(c, after).controlSetup
       /\ where \in {"in", "behind"} => o.streams \cap R = {}
       /\ where = "in" => moves /\ Transits(with) /\ with.streams # {}
       /\ Becomes([after EXCEPT
             !.session[c] = s,
             !.ses[s] = IF R = {} THEN TornDown(got) ELSE StreamsTornDown(got, R),
             !.cnx[c].tcpKeepAlive =
                 IF R = {} THEN tcp ELSE TCPKeepAlive([got EXCEPT !.streams = @ \ R], tcp)])
       /\ UNCHANGED <<httpServer, reports, dying>>

\* RECORD starts the periodic timer.  A controller repeats it only if it failed,
\* which changes nothing here.
Record(c) ==
    /\ c \in Announced /\ ~cnx[c].didRecord
    /\ cnx' = [cnx EXCEPT ![c].didRecord = TRUE]
    /\ ses' = [ses EXCEPT ![session[c]].timer = TRUE]
    /\ UNCHANGED <<httpServer, session, playing, reports, dying>>

\* TEARDOWN of streams.
TearDownStreams(c, R) ==
    /\ c \in Linked /\ session[c] # None /\ R # {}
    /\ ses' = [ses EXCEPT ![session[c]] = StreamsTornDown(@, R)]
    /\ cnx' = [cnx EXCEPT ![c].tcpKeepAlive =
                  TCPKeepAlive([ses[session[c]] EXCEPT !.streams = @ \ R], @)]
    /\ UNCHANGED <<httpServer, session, playing, reports, dying>>

\* TEARDOWN without streams, or without a session: the connection starts over.
TearDownAll(c) ==
    LET after == AfterClose({c}) IN
    /\ c \in Linked
    /\ session' = after.session /\ ses' = after.ses
    /\ cnx' = [cnx EXCEPT ![c].didAnnounce = FALSE, ![c].didRecord = FALSE,
                          ![c].again = @ \/ ~cnx[c].tcpKeepAlive]
    /\ playing' = FALSE
    /\ UNCHANGED <<httpServer, reports, dying>>
----------------------------------------------------------------------------
(* Deaths, and the server's queue *)

\* Mutant: the report does not hold the session.
ExpireUnretained(s) == [ses EXCEPT ![s].thread = "expired"]

\* The keep-alive thread heard nothing for too long: it retains the session, and
\* exits.  Until it is joined it does so although the session is being finalized.
Expire(s) == [ses EXCEPT ![s].thread = IF ses[s].finalizing = "no" THEN "expired" ELSE "late",
                         ![s].refs = @ + 1]
KeepAliveExpires(s) ==
    /\ ses[s].thread = "running" /\ Len(reports) < MaxReports
    /\ ses' = Expire(s)
    /\ reports' = Append(reports, s)
    /\ UNCHANGED <<httpServer, cnx, session, playing, dying>>

\* _Finalize joins the keep-alive thread, and CFRelease frees the session, whatever
\* its count has become meanwhile.  (What the queue does behind the last release
\* is part of that step: neither the thread nor the other queue looks at it.)
Finalize(s) ==
    /\ ses[s].finalizing # "no"
    /\ ses' = [ses EXCEPT ![s] = IF @.thread = "late" THEN [Freed EXCEPT !.thread = "late"]
                                 ELSE Freed]
    /\ UNCHANGED <<httpServer, cnx, session, playing, reports, dying>>

\* A death on the server's queue; only a report retains its session.
Death(s, held) == [ses |-> s, held |-> held]

\* _PerformPeriodTasks, on the server's queue: no activity for too long, of a
\* session with streams or without a keep-alive socket.  (Without an HTTP server
\* the death of a session has no effect.)
ActivityExpires(s) ==
    /\ Ready("server") /\ dying = {} /\ httpServer = "up"
    /\ ses[s].timer /\ (~ses[s].keepAliveSock \/ ses[s].streams # {})
    /\ dying' = {Death(s, FALSE)}
    /\ UNCHANGED <<httpServer, cnx, session, ses, playing, reports>>

\* The network changed, and the interface of a recording connection is down.
InterfaceDown(c) ==
    /\ Ready("server") /\ dying = {} /\ httpServer = "up"
    /\ c \in Linked /\ cnx[c].didRecord
    /\ dying' = {Death(session[c], FALSE)}
    /\ UNCHANGED <<httpServer, cnx, session, ses, playing, reports>>

\* The platform wants the device disconnected, or all connections stopped.
Disconnect ==
    /\ Len(reports) < MaxReports
    /\ reports' = Append(reports, None)
    /\ UNCHANGED <<httpServer, cnx, session, ses, playing, dying>>

\* The server's queue has come to the report of a late thread: _IdleStateSessionDied
\* works on a freed session, and behaviour is undefined from there on.
AtLateReport ==
    reports # <<>> /\ Head(reports) # None /\ ses[Head(reports)].thread = "late"

\* The server's queue takes a report, up to the wait of its dispatch_sync; without
\* an HTTP server there is nothing to wait for.
TakeReport ==
    /\ Ready("server") /\ dying = {} /\ reports # <<>> /\ ~AtLateReport
    /\ reports' = Tail(reports)
    /\ IF httpServer = "up"
       THEN dying' = {Death(Head(reports), Head(reports) # None)} /\ UNCHANGED ses
       ELSE /\ ses' = [s \in Sessions |-> IF s = Head(reports) THEN Release(ses[s], "server")
                                        ELSE ses[s]]
            /\ UNCHANGED dying
    /\ UNCHANGED <<httpServer, cnx, session, playing>>

\* _RemoveAllConnections: all of them, whoever died.
Removed == Linked

\* _RemoveHTTPServerConnections on httpQueue, and the release by the report.
RemoveConnections ==
    LET after == AfterClose(Removed) IN
    /\ Ready("http") /\ dying # {} /\ dying' = {}
    /\ Becomes([after EXCEPT !.ses = [s \in Sessions |->
                   IF Death(s, TRUE) \in dying THEN Release(after.ses[s], "server")
                   ELSE after.ses[s]]])
    /\ UNCHANGED <<httpServer, reports>>

\* _StopServers: the HTTP server is forgotten, and will be stopped by httpQueue.
StopServers ==
    /\ Ready("server") /\ httpServer = "up" /\ dying = {}
    /\ httpServer' = "stopping"
    /\ UNCHANGED <<cnx, session, ses, playing, reports, dying>>

\* Mutant: the server waits for its connections to end.
StopWaits ==
    /\ Ready("http") /\ httpServer = "stopping" /\ Linked = {}
    /\ httpServer' = "down"
    /\ UNCHANGED <<cnx, session, ses, playing, reports, dying>>

\* _HTTPServerStop closes them.
HTTPServerStop ==
    /\ Ready("http") /\ httpServer = "stopping"
    /\ httpServer' = "down"
    /\ Becomes(AfterClose(Linked))
    /\ UNCHANGED <<reports, dying>>

\* _StartServers waits for httpQueue, which stops the old HTTP server first.
StartServers ==
    /\ Ready("http") /\ Ready("server") /\ httpServer = "down" /\ dying = {}
    /\ httpServer' = "up"
    /\ UNCHANGED <<cnx, session, ses, playing, reports, dying>>
----------------------------------------------------------------------------
Request(c) ==
    /\ Ready("http")
    /\ \/ SetupRefused(c) \/ Record(c) \/ TearDownAll(c)
       \/ \E R \in SUBSET Streams :
             \/ SetupDone(c, R) \/ TearDownStreams(c, R)
             \/ \E where \in {"clock", "events", "before", "in", "behind"} :
                   SetupFails(c, R, where)

Next ==
    \/ \E c \in Conns : Accept(c) \/ Close(c) \/ Request(c) \/ InterfaceDown(c)
    \/ \E s \in Sessions : KeepAliveExpires(s) \/ Finalize(s) \/ ActivityExpires(s)
    \/ Disconnect \/ TakeReport \/ RemoveConnections
    \/ StopServers \/ HTTPServerStop \/ StartServers

\* Both queues run what they are given, first in, first out: timers cannot keep a
\* report waiting for ever, nor requests and closes (each of which may finalize a
\* session) what the server's queue waits for.  A session that is finalized is freed.
Fairness ==
    /\ SF_vars(RemoveConnections) /\ SF_vars(HTTPServerStop) /\ SF_vars(TakeReport)
    /\ \A s \in Sessions : WF_vars(Finalize(s))

Spec == Init /\ [][Next]_vars /\ Fairness
----------------------------------------------------------------------------
(* Properties *)

Session ==
    [refs : Nat, controlSetup : BOOLEAN, keepAliveSock : BOOLEAN,
     thread : {"none", "running", "expired", "late"}, streams : SUBSET Streams,
     sessionIdle : BOOLEAN, sessionIdleValid : BOOLEAN, timer : BOOLEAN,
     finalizing : {"no", "http", "server"}]

\* Types; a connection that is not linked has no session, and one that has
\* announced has.
TypeOK ==
    /\ httpServer \in {"up", "stopping", "down"}
    /\ cnx \in [Conns -> [linked : BOOLEAN, didAnnounce : BOOLEAN, didRecord : BOOLEAN,
                         tcpKeepAlive : BOOLEAN, again : BOOLEAN]]
    /\ session \in [Conns -> Sessions \cup {None}]
    /\ \A c \in Conns : (session[c] # None => c \in Linked) /\ (c \in Announced => session[c] # None)
    /\ ses \in [Sessions -> Session]
    /\ playing \in BOOLEAN
    /\ reports \in Seq(Sessions \cup {None})
    /\ dying = {} \/ \E s \in Sessions \cup {None}, held \in BOOLEAN : dying = {Death(s, held)}

\* At most one connection has announced (the comment in _HijackConnections),
\* through set-ups that fail, deaths, and servers that stop and start.
OneAnnounced == httpServer = "up" => \A c, d \in Announced : c = d

\* A session is retained as long as its connection or a report of its death holds
\* it, and no longer: it is not finalized under a report that waits, nor leaked.
\* The exception are sessions whose keep-alive thread timed out while they were
\* finalized already (ReportedPersists); what they leave is used by no connection.
RefsBalanced ==
    \A s \in Sessions :
        IF ses[s].thread = "late" THEN \A c \in Conns : session[c] # s
        ELSE ses[s].refs = Cardinality({c \in Conns : session[c] = s})
                           + Cardinality({i \in DOMAIN reports : reports[i] = s})
                           + Cardinality({d \in dying : d = Death(s, TRUE)})

\* A session that its keep-alive thread has retained persists until the report has
\* been taken, as CFRetain promises.  It does not hold: the thread is joined only
\* in _Finalize, and may retain a session whose last reference is gone.
ReportedPersists ==
    \A i \in DOMAIN reports : reports[i] # None => ses[reports[i]].refs > 0

\* The server says that it is playing only while some connection has announced.
PlayingHasSession == playing => Announced # {}

\* A connection whose session is set up never stays when its device goes away:
\* TCP keep-alive probes it, the keep-alive thread waits for beacons, or a death
\* is already on its way.  (A connection that goes on behind a TEARDOWN of
\* everything is not covered: TCP keep-alive stays as the old session left it.)
Monitored ==
    \A c \in Announced :
        \/ cnx[c].tcpKeepAlive \/ cnx[c].again
        \/ ses[session[c]].thread = "running"
        \/ reports # <<>> \/ dying # {} \/ httpServer # "up"

\* A session reported dead comes to an end, whatever the server does meanwhile (as
\* long as its behaviour is defined).
DeathEnds ==
    \A s \in Sessions : (\E i \in DOMAIN reports : reports[i] = s)
                            ~> (AtLateReport \/ (ses[s].refs = 0 /\ ses[s].finalizing = "no"))

\* When a session has died, no other session that is set up ends with it (the
\* qualifier of SessionDied names the one that died), unless the platform wanted
\* all connections removed.
OnlyDeadRemoved ==
    [][dying # {} /\ dying' = {} =>
          \A c \in Announced : cnx'[c].linked \/ \E d \in dying : d.ses \in {session[c], None}]_vars
=============================================================================
