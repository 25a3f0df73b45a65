------------------------- MODULE ReceiverServerProofs -------------------------
(***************************************************************************)
(* At most one connection of the receiver server has announced, and the    *)
(* server plays only while one has; every session is retained exactly by   *)
(* its connection and the reports of its death; and no device that is set  *)
(* up is unwatched: for any number of connections, sessions, streams and   *)
(* reports.                                                                *)
(***************************************************************************)
EXTENDS ReceiverServer, TLAPS, FiniteSetTheorems, FunctionTheorems

\* The parts of the state that the two properties rest on have their types.
Connection ==
    [linked : BOOLEAN, didAnnounce : BOOLEAN, didRecord : BOOLEAN, tcpKeepAlive : BOOLEAN,
     again : BOOLEAN]
LinkTypes ==
    /\ httpServer \in {"up", "stopping", "down"}
    /\ cnx \in [Conns -> Connection]
    /\ session \in [Conns -> Sessions \cup {None}]

\* A connection that has announced has a session, so that its end clears playing.
AnnouncedHasSession == \A c \in Announced : session[c] # None

\* A server that starts finds no connection of the one before.
DownIsEmpty == httpServer = "down" => Linked = {}

Inv == LinkTypes /\ AnnouncedHasSession /\ DownIsEmpty /\ OneAnnounced /\ PlayingHasSession

LEMMA InitInv == Init => Inv
BY DEF Init, Inv, LinkTypes, Connection, Closed, AnnouncedHasSession, DownIsEmpty, OneAnnounced,
   PlayingHasSession, Announced, Linked

\* What the destruction of the connections D leaves of the invariant, whatever
\* becomes of the session objects.
LEMMA CloseKeepsInv ==
    ASSUME Inv, NEW D \in SUBSET Conns, UNCHANGED httpServer,
           cnx' = AfterClose(D).cnx, session' = AfterClose(D).session,
           playing' = AfterClose(D).playing
    PROVE  Inv'
<1>1. /\ cnx' = [c \in Conns |-> IF c \in D THEN Closed ELSE cnx[c]]
      /\ session' = [c \in Conns |-> IF c \in D THEN None ELSE session[c]]
      /\ playing' = (playing /\ \A c \in D : session[c] = None)
  BY DEF AfterClose, SessionAfter, PlayingAfter
<1>2. LinkTypes'
  BY <1>1 DEF Inv, LinkTypes, Connection, Closed
<1>3. Linked' = Linked \ D /\ Announced' = Announced \ D
  BY <1>1 DEF Linked, Announced, Closed
<1>4. AnnouncedHasSession'
  BY <1>1, <1>3 DEF Inv, AnnouncedHasSession, Announced, Linked
<1>5. DownIsEmpty' /\ OneAnnounced'
  BY <1>3 DEF Inv, DownIsEmpty, OneAnnounced
<1>6. PlayingHasSession'
  <2>1. SUFFICES ASSUME playing' PROVE Announced' # {}
    BY DEF PlayingHasSession
  <2>2. playing /\ \A c \in D : session[c] = None
    BY <1>1, <2>1
  <2>3. Announced \cap D = {}
    BY <2>2 DEF Inv, AnnouncedHasSession
  <2> QED
    BY <1>3, <2>2, <2>3 DEF Inv, PlayingHasSession
<1> QED
  BY <1>2, <1>4, <1>5, <1>6 DEF Inv

LEMMA NothingHereKeepsInv ==
    ASSUME Inv, UNCHANGED <<httpServer, cnx, session, playing>> PROVE Inv'
BY DEF Inv, LinkTypes, AnnouncedHasSession, DownIsEmpty, OneAnnounced, PlayingHasSession,
       Announced, Linked

\* A SETUP of c that gets a session and closes the connections it hijacks; done,
\* it announces and plays, and else both are as before.
LEMMA SetupKeepsInv ==
    ASSUME Inv, NEW c \in Linked, NEW s \in Sessions, NEW done \in BOOLEAN,
           NEW new \in Connection, new.linked,
           done => new.didAnnounce, ~done => new.didAnnounce = cnx[c].didAnnounce,
           UNCHANGED httpServer,
           cnx' = [AfterClose(Hijacked(c)).cnx EXCEPT ![c] = new],
           session' = [AfterClose(Hijacked(c)).session EXCEPT ![c] = s],
           playing' = (done \/ AfterClose(Hijacked(c)).playing)
    PROVE  Inv'
<1> DEFINE H == Hijacked(c)
<1>1. H \subseteq Conns /\ c \notin H /\ c \in Conns /\ s # None
  BY NoneIsNoSession DEF Hijacked, Announced, Linked
<1>2. /\ cnx' = [d \in Conns |-> IF d = c THEN new ELSE IF d \in H THEN Closed ELSE cnx[d]]
      /\ session' = [d \in Conns |-> IF d = c THEN s ELSE IF d \in H THEN None ELSE session[d]]
      /\ playing' = (done \/ (playing /\ \A d \in H : session[d] = None))
  BY <1>1 DEF AfterClose, SessionAfter, PlayingAfter
<1>3. LinkTypes'
  <2>1. cnx \in [Conns -> Connection] /\ Closed \in Connection
    BY DEF Inv, LinkTypes, Connection, Closed
  <2>2. cnx' \in [Conns -> Connection]
    BY <1>2, <2>1, ZenonT(60)
  <2> QED
    BY <1>2, <2>2, ZenonT(60) DEF Inv, LinkTypes
<1>4. Linked' = Linked \ H /\ c \in Linked'
  BY <1>1, <1>2 DEF Linked, Closed
<1>5. /\ Announced' \subseteq (Announced \ H) \cup {c}
      /\ Announced \ H \subseteq Announced'
      /\ done => c \in Announced'
  BY <1>1, <1>2, <1>4 DEF Announced, Linked, Closed
<1>6. AnnouncedHasSession'
  BY <1>1, <1>2, <1>5 DEF Inv, AnnouncedHasSession, Announced, Linked
<1>7. DownIsEmpty'
  BY <1>4 DEF Inv, DownIsEmpty
<1>8. OneAnnounced'
  BY <1>5 DEF OneAnnounced, Hijacked
<1>9. PlayingHasSession'
  <2>1. SUFFICES ASSUME playing', ~done PROVE Announced' # {}
    BY <1>5 DEF PlayingHasSession
  <2>2. playing /\ \A d \in H : session[d] = None
    BY <1>2, <2>1
  <2>3. Announced \cap H = {}
    BY <2>2 DEF Inv, AnnouncedHasSession
  <2> QED
    BY <1>5, <2>2, <2>3 DEF Inv, PlayingHasSession
<1> QED
  BY <1>3, <1>6, <1>7, <1>8, <1>9 DEF Inv

\* The session of c that a SETUP goes on with is one.
LEMMA SessionOfType ==
    ASSUME Inv, NEW c \in Conns, NEW after, HasSession(c, after)
    PROVE  SessionOf(c, after) \in Sessions
BY DEF Inv, LinkTypes, HasSession, SessionOf

LEMMA AcceptKeepsInv == ASSUME Inv, NEW c \in Conns, Accept(c) PROVE Inv'
<1>1. cnx' = [cnx EXCEPT ![c] = [Closed EXCEPT !.linked = TRUE, !.tcpKeepAlive = TRUE]]
  BY DEF Accept
<1>2. [Closed EXCEPT !.linked = TRUE, !.tcpKeepAlive = TRUE] \in Connection
  BY DEF Connection, Closed
<1>3. LinkTypes'
  BY <1>1, <1>2 DEF Inv, LinkTypes, Accept
<1>4. Announced' = Announced
  BY <1>1 DEF Inv, LinkTypes, Announced, Linked, Closed, Accept
<1> QED
  BY <1>3, <1>4 DEF Inv, AnnouncedHasSession, DownIsEmpty, OneAnnounced, PlayingHasSession, Accept

\* Only what the properties do not look at changes in the connection c.
LEMMA SameLinksKeepInv ==
    ASSUME Inv, NEW c \in Conns, NEW new \in Connection, cnx' = [cnx EXCEPT ![c] = new],
           new.linked = cnx[c].linked, new.didAnnounce = cnx[c].didAnnounce,
           UNCHANGED <<httpServer, session, playing>>
    PROVE  Inv'
<1>1. LinkTypes'
  BY DEF Inv, LinkTypes
<1>2. Linked' = Linked /\ Announced' = Announced
  BY DEF Inv, LinkTypes, Announced, Linked
<1> QED
  BY <1>1, <1>2 DEF Inv, AnnouncedHasSession, DownIsEmpty, OneAnnounced, PlayingHasSession

LEMMA TCPKeepAliveType ==
    ASSUME NEW o, NEW tcp \in BOOLEAN PROVE TCPKeepAlive(o, tcp) \in BOOLEAN
BY DEF TCPKeepAlive

LEMMA RecordKeepsInv == ASSUME Inv, NEW c \in Conns, Record(c) PROVE Inv'
<1> DEFINE new == [cnx[c] EXCEPT !.didRecord = TRUE]
<1>1. new \in Connection /\ new.linked = cnx[c].linked /\ new.didAnnounce = cnx[c].didAnnounce
  BY DEF Inv, LinkTypes, Connection
<1>2. cnx' = [cnx EXCEPT ![c] = new] /\ UNCHANGED <<httpServer, session, playing>>
  BY DEF Record
<1> HIDE DEF new
<1> QED
  BY <1>1, <1>2, SameLinksKeepInv

LEMMA TearDownStreamsKeepsInv ==
    ASSUME Inv, NEW c \in Conns, NEW R \in SUBSET Streams, TearDownStreams(c, R) PROVE Inv'
<1> DEFINE tcp == TCPKeepAlive([ses[session[c]] EXCEPT !.streams = @ \ R], cnx[c].tcpKeepAlive)
           new == [cnx[c] EXCEPT !.tcpKeepAlive = tcp]
<1>1. tcp \in BOOLEAN
  BY TCPKeepAliveType DEF Inv, LinkTypes, Connection
<1>2. cnx' = [cnx EXCEPT ![c] = new] /\ UNCHANGED <<httpServer, session, playing>>
  BY DEF TearDownStreams
<1> HIDE DEF tcp
<1>3. new \in Connection /\ new.linked = cnx[c].linked /\ new.didAnnounce = cnx[c].didAnnounce
  BY <1>1 DEF Inv, LinkTypes, Connection
<1> HIDE DEF new
<1> QED
  BY <1>2, <1>3, SameLinksKeepInv

LEMMA TearDownAllKeepsInv == ASSUME Inv, NEW c \in Conns, TearDownAll(c) PROVE Inv'
<1> DEFINE new == [cnx[c] EXCEPT !.didAnnounce = FALSE, !.didRecord = FALSE,
                                 !.again = @ \/ ~cnx[c].tcpKeepAlive]
<1>1. new \in Connection /\ new.linked = cnx[c].linked /\ ~new.didAnnounce
  BY DEF Inv, LinkTypes, Connection
<1>2. /\ cnx' = [cnx EXCEPT ![c] = new] /\ UNCHANGED httpServer /\ ~playing'
      /\ session' = [d \in Conns |-> IF d = c THEN None ELSE session[d]]
  BY DEF TearDownAll, AfterClose, SessionAfter
<1> HIDE DEF new
<1>3. LinkTypes'
  BY <1>1, <1>2 DEF Inv, LinkTypes
<1>4. Linked' = Linked /\ Announced' = Announced \ {c}
  BY <1>1, <1>2 DEF Inv, LinkTypes, Announced, Linked
<1> QED
  BY <1>2, <1>3, <1>4
  DEF Inv, AnnouncedHasSession, DownIsEmpty, OneAnnounced, PlayingHasSession, Announced, Linked

LEMMA SetupRefusedKeepsInv == ASSUME Inv, NEW c \in Conns, SetupRefused(c) PROVE Inv'
<1> DEFINE after == AfterClose(Hijacked(c))
<1>1. c \in Linked /\ UNCHANGED httpServer /\ Hijacked(c) \in SUBSET Conns
  BY DEF SetupRefused, Hijacked, Announced, Linked
<1>2. CASE Becomes(after)
  BY <1>1, <1>2, CloseKeepsInv DEF Becomes
<1>3. CASE /\ session[c] = None /\ HasSession(c, after)
           /\ Becomes([after EXCEPT !.session[c] = SessionOf(c, after),
                                    !.ses[SessionOf(c, after)] = Fresh])
  <2> DEFINE s == SessionOf(c, after)
  <2>1. s \in Sessions
    BY <1>3, SessionOfType
  <2>2. /\ session' = [after.session EXCEPT ![c] = s]
        /\ cnx' = after.cnx /\ playing' = (FALSE \/ after.playing)
    BY <1>3 DEF Becomes, AfterClose, PlayingAfter
  <2>3. cnx[c] \in Connection /\ cnx[c].linked
    BY <1>1 DEF Inv, LinkTypes, Linked
  <2>4. after.cnx = [after.cnx EXCEPT ![c] = cnx[c]]
    <3> DEFINE f == after.cnx
    <3>1. f = [d \in Conns |-> f[d]] /\ f[c] = cnx[c]
      BY <1>1 DEF AfterClose, Hijacked
    <3> HIDE DEF f
    <3>2. f = [f EXCEPT ![c] = cnx[c]]
      BY <3>1
    <3> QED
      BY <3>2 DEF f
  <2>5. FALSE \in BOOLEAN /\ (FALSE => cnx[c].didAnnounce)
    OBVIOUS
  <2> HIDE DEF s
  <2> QED
    BY <1>1, <2>1, <2>2, <2>3, <2>4, <2>5, SetupKeepsInv
<1> QED
  BY <1>2, <1>3 DEF SetupRefused

LEMMA SetupDoneKeepsInv ==
    ASSUME Inv, NEW c \in Conns, NEW R \in SUBSET Streams, SetupDone(c, R) PROVE Inv'
<1> DEFINE after == AfterClose(Hijacked(c))
           s == SessionOf(c, after)
           o == Started(c, after)
           with == [o EXCEPT !.streams = @ \cup R]
           moves == R # {} \/ ~o.sessionIdleValid
           tcp == IF moves THEN TCPKeepAlive(with, after.cnx[c].tcpKeepAlive)
                  ELSE after.cnx[c].tcpKeepAlive
           new == [cnx[c] EXCEPT !.didAnnounce = TRUE, !.tcpKeepAlive = tcp]
<1>1. c \in Linked /\ UNCHANGED httpServer /\ s \in Sessions
  BY SessionOfType DEF SetupDone
<1>2. cnx[c] \in Connection /\ cnx[c].linked /\ after.cnx[c] = cnx[c]
  BY <1>1 DEF AfterClose, Hijacked, Inv, LinkTypes, Linked
<1>3. /\ session' = [after.session EXCEPT ![c] = s] /\ playing' = TRUE
      /\ cnx' = [after.cnx EXCEPT ![c].didAnnounce = TRUE, ![c].tcpKeepAlive = tcp]
  <2> DEFINE p == IF moves THEN IdleTransition(with) ELSE with
  <2>1. Becomes([after EXCEPT !.session[c] = s, !.ses[s] = p, !.cnx[c].didAnnounce = TRUE,
                              !.cnx[c].tcpKeepAlive = tcp, !.playing = TRUE])
    BY <1>2 DEF SetupDone
  <2> HIDE DEF p, s, tcp
  <2> QED
    BY <2>1 DEF Becomes, AfterClose
<1>4. tcp \in BOOLEAN
  BY <1>2, TCPKeepAliveType DEF Connection
<1> HIDE DEF s, tcp, after
<1>5. new \in Connection /\ new.linked /\ new.didAnnounce /\ cnx' = [after.cnx EXCEPT ![c] = new]
  BY <1>2, <1>3, <1>4 DEF Connection
<1> HIDE DEF new
<1>6. /\ TRUE \in BOOLEAN /\ (TRUE => new.didAnnounce)
      /\ (~TRUE => new.didAnnounce = cnx[c].didAnnounce) /\ playing' = (TRUE \/ after.playing)
  BY <1>3, <1>5
<1> QED
  BY <1>1, <1>3, <1>5, <1>6, SetupKeepsInv, ZenonT(60) DEF after

LEMMA SetupFailsKeepsInv ==
    ASSUME Inv, NEW c \in Conns, NEW R \in SUBSET Streams, NEW where, SetupFails(c, R, where)
    PROVE  Inv'
<1> DEFINE after == AfterClose(Hijacked(c))
           s == SessionOf(c, after)
<1>1. c \in Linked /\ UNCHANGED httpServer /\ s \in Sessions
  BY SessionOfType DEF SetupFails
<1>2. cnx[c] \in Connection /\ cnx[c].linked /\ after.cnx[c] = cnx[c]
  BY <1>1 DEF AfterClose, Hijacked, Inv, LinkTypes, Linked
<1>3. \A o : TCPKeepAlive(o, cnx[c].tcpKeepAlive) \in BOOLEAN
  BY <1>2, TCPKeepAliveType DEF Connection
<1>4. PICK tcp \in BOOLEAN :
        /\ session' = [after.session EXCEPT ![c] = s] /\ playing' = (FALSE \/ after.playing)
        /\ cnx' = [after.cnx EXCEPT ![c].tcpKeepAlive = tcp]
  <2> DEFINE o == Started(c, after)
             with == [o EXCEPT !.streams = @ \cup R]
             moves == R # {} \/ ~o.sessionIdleValid
             got == CASE where = "clock" -> Created(c, after)
                      [] where = "events" -> [o EXCEPT !.controlSetup = FALSE]
                      [] where = "before" \/ (where = "behind" /\ ~moves) -> o
                      [] where = "in" -> Watched(with)
                      [] OTHER -> IdleTransition(with)
             mid == IF where \in {"clock", "events", "before"} \/ ~moves
                    THEN after.cnx[c].tcpKeepAlive
                    ELSE TCPKeepAlive(with, after.cnx[c].tcpKeepAlive)
             tcp == IF R = {} THEN mid ELSE TCPKeepAlive([got EXCEPT !.streams = @ \ R], mid)
  <2>1. Becomes([after EXCEPT
             !.session[c] = s,
             !.ses[s] = IF R = {} THEN TornDown(got) ELSE StreamsTornDown(got, R),
             !.cnx[c].tcpKeepAlive = tcp])
    BY DEF SetupFails
  <2>2. mid \in BOOLEAN
    BY <1>2, <1>3 DEF Connection
  <2> HIDE DEF mid, got
  <2>3. tcp \in BOOLEAN
    BY <2>2, TCPKeepAliveType
  <2> HIDE DEF tcp, s
  <2>4. /\ session' = [after.session EXCEPT ![c] = s] /\ playing' = (FALSE \/ after.playing)
        /\ cnx' = [after.cnx EXCEPT ![c].tcpKeepAlive = tcp]
    BY <2>1 DEF Becomes, AfterClose, PlayingAfter
  <2> QED
    BY <2>3, <2>4
<1> DEFINE new == [cnx[c] EXCEPT !.tcpKeepAlive = tcp]
<1> HIDE DEF s
<1>5. /\ new \in Connection /\ new.linked /\ new.didAnnounce = cnx[c].didAnnounce
      /\ cnx' = [after.cnx EXCEPT ![c] = new]
  BY <1>2, <1>4 DEF Connection
<1>6. FALSE \in BOOLEAN /\ (FALSE => new.didAnnounce)
  OBVIOUS
<1> HIDE DEF new
<1> QED
  BY <1>1, <1>4, <1>5, <1>6, SetupKeepsInv

LEMMA HTTPServerStopKeepsInv == ASSUME Inv, HTTPServerStop PROVE Inv'
<1>1. /\ cnx' = [c \in Conns |-> IF c \in Linked THEN Closed ELSE cnx[c]]
      /\ session' = [c \in Conns |-> IF c \in Linked THEN None ELSE session[c]]
      /\ playing' = (playing /\ \A c \in Linked : session[c] = None)
      /\ httpServer' = "down"
  BY DEF HTTPServerStop, Becomes, AfterClose, SessionAfter, PlayingAfter
<1>2. LinkTypes'
  <2>1. cnx \in [Conns -> Connection] /\ Closed \in Connection
    BY DEF Inv, LinkTypes, Connection, Closed
  <2>2. cnx' \in [Conns -> Connection]
    BY <1>1, <2>1
  <2> QED
    BY <1>1, <2>2 DEF Inv, LinkTypes
<1>3. Linked' = {} /\ Announced' = {}
  BY <1>1 DEF Linked, Announced, Closed
<1>4. ~playing'
  BY <1>1 DEF Inv, PlayingHasSession, AnnouncedHasSession, Announced
<1> QED
  BY <1>2, <1>3, <1>4 DEF Inv, AnnouncedHasSession, DownIsEmpty, OneAnnounced, PlayingHasSession

LEMMA StartsAndStopsKeepInv == ASSUME Inv, StopServers \/ StartServers PROVE Inv'
<1>1. UNCHANGED <<cnx, session, playing>> /\ httpServer' \in {"up", "stopping"}
  BY DEF StopServers, StartServers
<1>2. httpServer' = "up" => Announced = {}
  BY DEF StopServers, StartServers, Inv, DownIsEmpty, Announced
<1> QED
  BY <1>1, <1>2 DEF Inv, LinkTypes, AnnouncedHasSession, DownIsEmpty, OneAnnounced,
     PlayingHasSession, Announced, Linked
----------------------------------------------------------------------------
LEMMA NextKeepsInv == Inv /\ [Next]_vars => Inv'
<1> SUFFICES ASSUME Inv, [Next]_vars PROVE Inv'
  OBVIOUS
<1>1. ASSUME NEW c \in Conns, Accept(c) PROVE Inv'
  BY <1>1, AcceptKeepsInv
<1>2. ASSUME NEW c \in Conns, Close(c) PROVE Inv'
  <2>1. {c} \in SUBSET Conns
    OBVIOUS
  <2> QED
    BY <1>2, <2>1, CloseKeepsInv DEF Close, Becomes
<1>3. ASSUME NEW c \in Conns, Request(c) PROVE Inv'
  <2>1. CASE SetupRefused(c)
    BY <2>1, SetupRefusedKeepsInv
  <2>2. CASE Record(c)
    BY <2>2, RecordKeepsInv
  <2>3. CASE TearDownAll(c)
    BY <2>3, TearDownAllKeepsInv
  <2>4. ASSUME NEW R \in SUBSET Streams, SetupDone(c, R) PROVE Inv'
    BY <2>4, SetupDoneKeepsInv
  <2>5. ASSUME NEW R \in SUBSET Streams, TearDownStreams(c, R) PROVE Inv'
    BY <2>5, TearDownStreamsKeepsInv
  <2>6. ASSUME NEW R \in SUBSET Streams, NEW where, SetupFails(c, R, where) PROVE Inv'
    BY <2>6, SetupFailsKeepsInv
  <2> QED
    BY <1>3, <2>1, <2>2, <2>3, <2>4, <2>5, <2>6 DEF Request
<1>4. ASSUME \/ \E c \in Conns : InterfaceDown(c)
             \/ \E s \in Sessions : KeepAliveExpires(s) \/ Finalize(s) \/ ActivityExpires(s)
             \/ Disconnect \/ TakeReport \/ UNCHANGED vars
      PROVE  Inv'
  <2>1. UNCHANGED <<httpServer, cnx, session, playing>>
    BY <1>4 DEF InterfaceDown, KeepAliveExpires, Finalize, ActivityExpires, Disconnect, TakeReport, vars
  <2> QED
    BY <2>1, NothingHereKeepsInv
<1>5. CASE RemoveConnections
  <2>1. Removed \in SUBSET Conns
    BY DEF Removed, Linked
  <2>2. /\ cnx' = AfterClose(Removed).cnx /\ session' = AfterClose(Removed).session
        /\ playing' = AfterClose(Removed).playing /\ UNCHANGED httpServer
    BY <1>5 DEF RemoveConnections, Becomes, AfterClose
  <2> QED
    BY <2>1, <2>2, CloseKeepsInv
<1>6. CASE HTTPServerStop
  BY <1>6, HTTPServerStopKeepsInv
<1>7. CASE StopServers \/ StartServers
  BY <1>7, StartsAndStopsKeepInv
<1> QED
  BY <1>1, <1>2, <1>3, <1>4, <1>5, <1>6, <1>7 DEF Next

LEMMA SpecInv == Spec => []Inv
BY InitInv, NextKeepsInv, PTL DEF Spec

\* At most one connection has announced, whatever the other devices, the deaths
\* and the platform do (_HijackConnections, _IsConnectionActive).
THEOREM AtMostOneAnnounced == Spec => []OneAnnounced
<1>1. Inv => OneAnnounced
  BY DEF Inv
<1> QED
  BY <1>1, SpecInv, PTL

\* The server plays only while a connection has announced (the playing property
\* set by SETUP and cleared by TEARDOWN and _HandleHTTPConnectionClose).
THEOREM PlaysForSomeone == Spec => []PlayingHasSession
<1>1. Inv => PlayingHasSession
  BY DEF Inv
<1> QED
  BY <1>1, SpecInv, PTL

----------------------------------------------------------------------------
(* The references of the sessions, and how a device that goes away is       *)
(* noticed.  The state is split into parts that are functions of the        *)
(* connections cx, their sessions sn and the session objects ss, because a  *)
(* SETUP closes connections before it goes on.                              *)

QueueTypes ==
    /\ reports \in Seq(Sessions \cup {None})
    /\ dying = {} \/ \E s \in Sessions \cup {None}, held \in BOOLEAN : dying = {Death(s, held)}

StateTypes(cx, sn, ss) ==
    /\ cx \in [Conns -> Connection]
    /\ sn \in [Conns -> Sessions \cup {None}]
    /\ ss \in [Sessions -> Session]

\* A session belongs to one connection, which is linked.
OneOwner(sn) == \A c, d \in Conns : sn[c] # None /\ sn[c] = sn[d] => c = d
OwnersLinked(cx, sn) == \A c \in Conns : sn[c] # None => cx[c].linked

\* The references to s: of its connection, of reports, of the death that is handled.
\* A thread that was late has retained what neither connection nor death holds.
OwnedBy(sn, s) == IF \E c \in Conns : sn[c] = s THEN 1 ELSE 0
ReportsOf(s) == {i \in DOMAIN reports : reports[i] = s}
HeldDying(s) == IF Death(s, TRUE) \in dying THEN 1 ELSE 0
Counted(sn, ss) ==
    \A s \in Sessions :
        IF ss[s].thread = "late" THEN OwnedBy(sn, s) = 0 /\ HeldDying(s) = 0
        ELSE ss[s].refs = OwnedBy(sn, s) + Cardinality(ReportsOf(s)) + HeldDying(s)

\* What is finalized has no reference, unless its thread was late.
Unreferenced(ss) ==
    \A s \in Sessions : ss[s].finalizing # "no" => ss[s].thread = "late" \/ ss[s].refs = 0

\* A connection that TCP keep-alive does not probe has a session with a keep-alive
\* thread, be it one that has expired.
Watching(cx, sn, ss) ==
    \A c \in Conns : cx[c].linked /\ ~cx[c].again
        => cx[c].tcpKeepAlive \/ (sn[c] # None /\ ss[sn[c]].thread # "none")

\* A thread that has expired has reported the death, and that is on its way as long
\* as the connection is there, unless the server stops.
OnItsWay(s) == ReportsOf(s) # {} \/ Death(s, TRUE) \in dying \/ httpServer # "up"
Expiring(sn, ss) ==
    \A c \in Conns : sn[c] # None /\ ss[sn[c]].thread = "expired" => OnItsWay(sn[c])

Balance(cx, sn, ss) ==
    /\ StateTypes(cx, sn, ss) /\ OneOwner(sn) /\ OwnersLinked(cx, sn)
    /\ Counted(sn, ss) /\ Unreferenced(ss) /\ Watching(cx, sn, ss) /\ Expiring(sn, ss)

RefInv == QueueTypes /\ Balance(cnx, session, ses)

(* Counting reports. *)

LEMMA ReportsFinite ==
    ASSUME QueueTypes, NEW s
    PROVE  IsFiniteSet(ReportsOf(s)) /\ Cardinality(ReportsOf(s)) \in Nat
<1>1. ReportsOf(s) \in SUBSET (1 .. Len(reports)) /\ Len(reports) \in Nat
  BY DEF ReportsOf, QueueTypes
<1>2. IsFiniteSet(1 .. Len(reports))
  BY <1>1, FS_Interval
<1> QED
  BY <1>1, <1>2, FS_Subset, FS_CardinalityType

LEMMA ReportAdded ==
    ASSUME QueueTypes, NEW r \in Sessions \cup {None}, reports' = Append(reports, r), NEW s
    PROVE  /\ s = r => Cardinality(ReportsOf(s)') = Cardinality(ReportsOf(s)) + 1
           /\ s # r => ReportsOf(s)' = ReportsOf(s)
           /\ ReportsOf(s) \subseteq ReportsOf(s)'
<1> DEFINE n == Len(reports) + 1
<1>1. /\ Len(reports) \in Nat /\ DOMAIN reports = 1 .. Len(reports) /\ DOMAIN reports' = 1 .. n
      /\ reports'[n] = r /\ \A i \in 1 .. Len(reports) : reports'[i] = reports[i]
  BY DEF QueueTypes
<1>2. IsFiniteSet(ReportsOf(s)) /\ n \notin ReportsOf(s)
  <2>1. IsFiniteSet(ReportsOf(s))
    BY ReportsFinite
  <2>2. n \notin ReportsOf(s)
    BY <1>1 DEF ReportsOf
  <2> QED
    BY <2>1, <2>2
<1>3. s = r => ReportsOf(s)' = ReportsOf(s) \cup {n}
  BY <1>1 DEF ReportsOf
<1>4. s # r => ReportsOf(s)' = ReportsOf(s)
  BY <1>1 DEF ReportsOf
<1>5. Cardinality(ReportsOf(s) \cup {n}) = Cardinality(ReportsOf(s)) + 1
  BY <1>2, FS_AddElement
<1> QED
  BY <1>3, <1>4, <1>5

LEMMA ReportTaken ==
    ASSUME QueueTypes, reports # <<>>, reports' = Tail(reports), NEW s
    PROVE  /\ s = Head(reports) => /\ Cardinality(ReportsOf(s)') = Cardinality(ReportsOf(s)) - 1
                                   /\ Cardinality(ReportsOf(s)) > 0
           /\ s # Head(reports) => /\ Cardinality(ReportsOf(s)') = Cardinality(ReportsOf(s))
                                   /\ ReportsOf(s) # {} => ReportsOf(s)' # {}
<1> DEFINE n == Len(reports)
           I == ReportsOf(s)
           J == ReportsOf(s)'
           f == [j \in J |-> j + 1]
<1>1. /\ n \in Nat \ {0} /\ DOMAIN reports = 1 .. n /\ DOMAIN reports' = 1 .. n - 1
      /\ Head(reports) = reports[1] /\ \A i \in 1 .. n - 1 : reports'[i] = reports[i + 1]
  BY DEF QueueTypes
<1>2. J = {j \in 1 .. n - 1 : reports[j + 1] = s} /\ I = {i \in 1 .. n : reports[i] = s}
  BY <1>1 DEF ReportsOf
<1>3. IsFiniteSet(I) /\ Cardinality(I) \in Nat
  BY ReportsFinite
<1>4. f \in Bijection(J, I \ {1})
  <2>1. f \in [J -> I \ {1}]
    BY <1>1, <1>2
  <2>2. \A a, b \in J : f[a] = f[b] => a = b
    BY <1>1, <1>2
  <2>3. ASSUME NEW i \in I \ {1} PROVE \E j \in J : f[j] = i
    <3>1. i - 1 \in J /\ f[i - 1] = i
      BY <1>1, <1>2
    <3> QED
      BY <3>1
  <2> HIDE DEF f, J, I
  <2> QED
    BY <2>1, <2>2, <2>3 DEF Bijection, Injection, Surjection, IsInjective
<1> HIDE DEF f
<1>5. IsFiniteSet(J) /\ Cardinality(J) = Cardinality(I \ {1})
  <2> HIDE DEF I, J
  <2>1. ExistsBijection(I \ {1}, J)
    <3>1. ExistsBijection(J, I \ {1})
      BY <1>4 DEF ExistsBijection
    <3> QED
      BY <3>1, Fun_ExistsBijSymmetric
  <2>2. IsFiniteSet(I \ {1})
    BY <1>3, FS_RemoveElement
  <2> QED
    BY <2>1, <2>2, FS_Bijection
<1>6. Cardinality(I \ {1}) = IF 1 \in I THEN Cardinality(I) - 1 ELSE Cardinality(I)
  BY <1>3, FS_RemoveElement
<1>7. 1 \in I <=> s = Head(reports)
  BY <1>1, <1>2
<1>8. 1 \in I => Cardinality(I) > 0
  BY <1>3, FS_EmptySet
<1>9. 1 \notin I /\ I # {} => J # {}
  <2> SUFFICES ASSUME NEW i \in I, 1 \notin I PROVE J # {}
    OBVIOUS
  <2>1. i - 1 \in J
    BY <1>1, <1>2
  <2> QED
    BY <2>1
<1> HIDE DEF I, J
<1> QED
  BY <1>5, <1>6, <1>7, <1>8, <1>9 DEF I, J

(* What the operations on a session object keep. *)

\* o becomes p, with the references of o, and its thread no more expired than before.
Follows(o, p) ==
    /\ p \in Session /\ p.refs = o.refs /\ p.finalizing = o.finalizing
    /\ p.thread \in {"expired", "late"} => p.thread = o.thread

\* One that had a thread, or TCP keep-alive, has one of them.
Covered(o, tcp) == tcp \/ o.thread # "none"

LEMMA TornDownFollows ==
    ASSUME NEW o \in Session
    PROVE  Follows(o, TornDown(o)) /\ TornDown(o).thread = o.thread
BY DEF Session, TornDown, Follows

LEMMA WatchedFollows ==
    ASSUME NEW o \in Session, NEW tcp \in BOOLEAN, Covered(o, tcp)
    PROVE  Follows(o, Watched(o)) /\ Covered(Watched(o), TCPKeepAlive(o, tcp))
BY DEF Session, Watched, Follows, Covered, TCPKeepAlive

LEMMA WatchedStays == ASSUME NEW o \in Session PROVE Follows(o, Watched(o))
BY DEF Session, Watched, Follows

LEMMA IdleFollows ==
    ASSUME NEW o \in Session, NEW tcp \in BOOLEAN
    PROVE  /\ Follows(o, IdleTransition(o))
           /\ Covered(o, tcp) => Covered(IdleTransition(o), TCPKeepAlive(o, tcp))
<1>1. Watched(o) \in Session /\ Follows(o, Watched(o))
  BY DEF Session, Watched, Follows
<1>2. Covered(o, tcp) => Covered(Watched(o), TCPKeepAlive(o, tcp))
  BY WatchedFollows
<1>3. /\ IdleTransition(o) \in Session /\ IdleTransition(o).refs = Watched(o).refs
      /\ IdleTransition(o).thread = Watched(o).thread
      /\ IdleTransition(o).finalizing = Watched(o).finalizing
  <2> DEFINE w == Watched(o)
             b == o.streams = {}
             p == [w EXCEPT !.sessionIdle = b, !.sessionIdleValid = TRUE]
  <2>1. w \in Session /\ b \in BOOLEAN /\ IdleTransition(o) = p
    BY <1>1 DEF IdleTransition
  <2> HIDE DEF w, b
  <2>2. p \in Session /\ p.refs = w.refs /\ p.thread = w.thread /\ p.finalizing = w.finalizing
    BY <2>1 DEF Session
  <2> QED
    BY <2>1, <2>2 DEF w
<1> QED
  BY <1>1, <1>2, <1>3 DEF Follows, Covered

LEMMA StreamsFollow ==
    ASSUME NEW o \in Session, NEW R \in SUBSET Streams, NEW tcp \in BOOLEAN
    PROVE  LET less == [o EXCEPT !.streams = @ \ R]
           IN  /\ Follows(o, StreamsTornDown(o, R))
               /\ Covered(o, tcp) => Covered(StreamsTornDown(o, R), TCPKeepAlive(less, tcp))
<1> DEFINE less == [o EXCEPT !.streams = @ \ R]
<1>1. /\ less \in Session /\ less.refs = o.refs /\ less.thread = o.thread
      /\ less.finalizing = o.finalizing
  BY DEF Session
<1>2. StreamsTornDown(o, R) = IdleTransition(less)
  BY DEF StreamsTornDown
<1> HIDE DEF less
<1>3. /\ Follows(less, IdleTransition(less))
      /\ Covered(less, tcp) => Covered(IdleTransition(less), TCPKeepAlive(less, tcp))
  BY <1>1, IdleFollows
<1>4. Follows(o, StreamsTornDown(o, R))
  BY <1>1, <1>2, <1>3 DEF Follows
<1>5. Covered(o, tcp) => Covered(StreamsTornDown(o, R), TCPKeepAlive(less, tcp))
  BY <1>1, <1>2, <1>3 DEF Covered
<1> QED
  BY <1>4, <1>5 DEF less

LEMMA FreshType ==
    Fresh \in Session /\ Fresh.refs = 1 /\ Fresh.thread = "none" /\ Fresh.finalizing = "no"
BY DEF Session, Fresh

LEMMA FreedType ==
    Freed \in Session /\ Freed.refs = 0 /\ Freed.thread = "none" /\ Freed.finalizing = "no"
<1> DEFINE o == Fresh
<1>1. o \in Session /\ o.thread = "none" /\ o.finalizing = "no"
  BY FreshType
<1>2. Freed = [o EXCEPT !.refs = 0]
  BY DEF Freed
<1> HIDE DEF o
<1> QED
  BY <1>1, <1>2 DEF Session

LEMMA ReleaseType ==
    ASSUME NEW o \in Session, o.refs > 0, NEW q \in {"http", "server"}
    PROVE  /\ Release(o, q) \in Session /\ Release(o, q).refs = o.refs - 1
           /\ Release(o, q).thread = o.thread
           /\ Release(o, q).finalizing = IF o.refs = 1 THEN q ELSE o.finalizing
<1> DEFINE f == IF o.refs = 1 THEN q ELSE o.finalizing
<1>1. f \in {"no", "http", "server"} /\ o.refs - 1 \in Nat
  BY DEF Session
<1>2. Release(o, q) = [o EXCEPT !.refs = o.refs - 1, !.finalizing = f]
  BY DEF Release, Session
<1> HIDE DEF f
<1>3. /\ Release(o, q) \in Session /\ Release(o, q).refs = o.refs - 1
      /\ Release(o, q).thread = o.thread /\ Release(o, q).finalizing = f
  BY <1>1, <1>2 DEF Session
<1> QED
  BY <1>3 DEF f

(* The connections D are destroyed. *)
LEMMA CloseBalance ==
    ASSUME QueueTypes, Balance(cnx, session, ses), NEW D \in SUBSET Conns
    PROVE  LET st == AfterClose(D) IN Balance(st.cnx, st.session, st.ses)
<1> DEFINE st == AfterClose(D)
           owned(s) == \E c \in D : session[c] = s
<1>1. /\ st.cnx = [c \in Conns |-> IF c \in D THEN Closed ELSE cnx[c]]
      /\ st.session = [c \in Conns |-> IF c \in D THEN None ELSE session[c]]
      /\ st.ses = [s \in Sessions |-> IF owned(s) THEN Release(TornDown(ses[s]), "http")
                                       ELSE ses[s]]
  BY DEF AfterClose, SessionAfter
<1> HIDE DEF st
<1>2. ASSUME NEW s \in Sessions
      PROVE  /\ Cardinality(ReportsOf(s)) \in Nat
             /\ ses[s] \in Session
             /\ IF ses[s].thread = "late" THEN OwnedBy(session, s) = 0 /\ HeldDying(s) = 0
                ELSE ses[s].refs = OwnedBy(session, s) + Cardinality(ReportsOf(s)) + HeldDying(s)
             /\ ses[s].finalizing # "no" => ses[s].thread = "late" \/ ses[s].refs = 0
             /\ owned(s) => OwnedBy(session, s) = 1 /\ OwnedBy(st.session, s) = 0
             /\ ~owned(s) => OwnedBy(st.session, s) = OwnedBy(session, s)
  <2>1. s # None
    BY NoneIsNoSession
  <2>2. Cardinality(ReportsOf(s)) \in Nat
    BY ReportsFinite
  <2>3. owned(s) => OwnedBy(session, s) = 1
    BY DEF OwnedBy
  <2>4. owned(s) => OwnedBy(st.session, s) = 0
    BY <1>1, <2>1 DEF OwnedBy, Balance, OneOwner
  <2>5. ~owned(s) => OwnedBy(st.session, s) = OwnedBy(session, s)
    BY <1>1, <2>1 DEF OwnedBy
  <2>6. /\ ses[s] \in Session
        /\ IF ses[s].thread = "late" THEN OwnedBy(session, s) = 0 /\ HeldDying(s) = 0
           ELSE ses[s].refs = OwnedBy(session, s) + Cardinality(ReportsOf(s)) + HeldDying(s)
        /\ ses[s].finalizing # "no" => ses[s].thread = "late" \/ ses[s].refs = 0
    BY DEF Balance, Counted, Unreferenced, StateTypes
  <2> QED
    BY <2>2, <2>3, <2>4, <2>5, <2>6
<1>3. ASSUME NEW s \in Sessions, owned(s)
      PROVE  LET p == Release(TornDown(ses[s]), "http")
             IN  /\ p \in Session /\ p.refs = ses[s].refs - 1 /\ p.thread # "late"
                 /\ p.finalizing # "no" => p.refs = 0
  <2> DEFINE o == TornDown(ses[s])
             p == Release(o, "http")
  <2>1. /\ ses[s] \in Session /\ ses[s].refs > 0 /\ ses[s].thread # "late"
        /\ ses[s].finalizing = "no"
    <3>1. HeldDying(s) \in 0 .. 1
      BY DEF HeldDying
    <3>2. /\ Cardinality(ReportsOf(s)) \in Nat /\ OwnedBy(session, s) = 1 /\ ses[s] \in Session
          /\ IF ses[s].thread = "late" THEN OwnedBy(session, s) = 0 /\ HeldDying(s) = 0
             ELSE ses[s].refs = OwnedBy(session, s) + Cardinality(ReportsOf(s)) + HeldDying(s)
          /\ ses[s].finalizing # "no" => ses[s].thread = "late" \/ ses[s].refs = 0
      BY <1>2, <1>3
    <3>3. ses[s].thread # "late"
      BY <3>2
    <3>4. ses[s].refs > 0
      BY <3>1, <3>2, <3>3
    <3> QED
      BY <3>2, <3>3, <3>4
  <2>2. /\ o \in Session /\ o.refs = ses[s].refs /\ o.thread = ses[s].thread
        /\ o.finalizing = ses[s].finalizing
    BY <2>1, TornDownFollows DEF Follows
  <2> HIDE DEF o
  <2>3. /\ p \in Session /\ p.refs = o.refs - 1 /\ p.thread = o.thread
        /\ p.finalizing = IF o.refs = 1 THEN "http" ELSE o.finalizing
    BY <2>1, <2>2, ReleaseType
  <2> HIDE DEF p
  <2>4. /\ p \in Session /\ p.refs = ses[s].refs - 1 /\ p.thread # "late"
        /\ p.finalizing # "no" => p.refs = 0
    BY <2>1, <2>2, <2>3
  <2> QED
    BY <2>4 DEF p, o
<1>4. StateTypes(st.cnx, st.session, st.ses)
  <2>1. st.cnx \in [Conns -> Connection]
    BY <1>1 DEF Balance, StateTypes, Connection, Closed
  <2>2. st.session \in [Conns -> Sessions \cup {None}]
    BY <1>1 DEF Balance, StateTypes
  <2>3. st.ses \in [Sessions -> Session]
    BY <1>1, <1>3 DEF Balance, StateTypes
  <2> QED
    BY <2>1, <2>2, <2>3 DEF StateTypes
<1>5. OneOwner(st.session) /\ OwnersLinked(st.cnx, st.session)
  BY <1>1 DEF Balance, OneOwner, OwnersLinked
<1>6. Counted(st.session, st.ses)
  <2> SUFFICES ASSUME NEW s \in Sessions
               PROVE  IF st.ses[s].thread = "late"
                      THEN OwnedBy(st.session, s) = 0 /\ HeldDying(s) = 0
                      ELSE st.ses[s].refs = OwnedBy(st.session, s) + Cardinality(ReportsOf(s))
                                            + HeldDying(s)
    BY DEF Counted
  <2>1. CASE owned(s)
    <3>1. HeldDying(s) \in 0 .. 1
      BY DEF HeldDying
    <3>2. /\ Cardinality(ReportsOf(s)) \in Nat
          /\ OwnedBy(session, s) = 1 /\ OwnedBy(st.session, s) = 0
          /\ ses[s].refs = OwnedBy(session, s) + Cardinality(ReportsOf(s)) + HeldDying(s)
      BY <1>2, <2>1
    <3>3. st.ses[s].refs = ses[s].refs - 1 /\ st.ses[s].thread # "late"
      BY <1>1, <1>3, <2>1
    <3> QED
      BY <3>1, <3>2, <3>3
  <2>2. CASE ~owned(s)
    BY <1>1, <1>2, <2>2
  <2> QED
    BY <2>1, <2>2
<1>7. ASSUME NEW c \in Conns, st.session[c] # None
      PROVE  c \notin D /\ session[c] = st.session[c] /\ st.ses[session[c]] = ses[session[c]]
  <2>1. c \notin D /\ session[c] = st.session[c] /\ session[c] \in Sessions
    BY <1>1, <1>7 DEF Balance, StateTypes
  <2>2. ~owned(session[c])
    BY <1>7, <2>1 DEF Balance, OneOwner
  <2> QED
    BY <1>1, <2>1, <2>2
<1>8. Watching(st.cnx, st.session, st.ses)
  <2> SUFFICES ASSUME NEW c \in Conns, st.cnx[c].linked, ~st.cnx[c].again, ~st.cnx[c].tcpKeepAlive
               PROVE  st.session[c] # None /\ st.ses[st.session[c]].thread # "none"
    BY DEF Watching
  <2>1. c \notin D /\ st.cnx[c] = cnx[c] /\ st.session[c] = session[c]
    BY <1>1 DEF Closed
  <2>2. session[c] # None /\ ses[session[c]].thread # "none"
    BY <2>1 DEF Balance, Watching
  <2> QED
    BY <1>7, <2>1, <2>2
<1>9. Expiring(st.session, st.ses)
  BY <1>7 DEF Balance, Expiring
<1>10. Unreferenced(st.ses)
  BY <1>1, <1>2, <1>3 DEF Unreferenced
<1> QED
  BY <1>4, <1>5, <1>6, <1>8, <1>9, <1>10 DEF Balance, st

(* A connection c, with a session s that is its own or was free, goes on with the   *)
(* session object p.                                                                *)
LEMMA SetupBalance ==
    ASSUME QueueTypes, NEW cx, NEW sn, NEW ss, Balance(cx, sn, ss),
           NEW c \in Conns, cx[c].linked, NEW s \in Sessions,
           sn[c] = s \/ (sn[c] = None /\ ss[s] = Freed),
           NEW o, o = IF sn[c] = None THEN Fresh ELSE ss[s], NEW p, Follows(o, p),
           NEW new \in Connection, new.linked, new.again = cx[c].again,
           Covered(o, cx[c].tcpKeepAlive) => Covered(p, new.tcpKeepAlive)
    PROVE  Balance([cx EXCEPT ![c] = new], [sn EXCEPT ![c] = s], [ss EXCEPT ![s] = p])
<1> DEFINE cx2 == [cx EXCEPT ![c] = new]
           sn2 == [sn EXCEPT ![c] = s]
           ss2 == [ss EXCEPT ![s] = p]
<1>1. /\ cx \in [Conns -> Connection] /\ sn \in [Conns -> Sessions \cup {None}]
      /\ ss \in [Sessions -> Session] /\ s # None /\ p \in Session
  BY NoneIsNoSession DEF Balance, StateTypes, Follows
<1>2. /\ \A d \in Conns : cx2[d] = IF d = c THEN new ELSE cx[d]
      /\ \A d \in Conns : sn2[d] = IF d = c THEN s ELSE sn[d]
      /\ \A x \in Sessions : ss2[x] = IF x = s THEN p ELSE ss[x]
  BY <1>1
<1>3. StateTypes(cx2, sn2, ss2)
  BY <1>1 DEF StateTypes
<1> HIDE DEF cx2, sn2, ss2
<1> DEFINE Right(x) == IF ss[x].thread = "late" THEN OwnedBy(sn, x) = 0 /\ HeldDying(x) = 0
                        ELSE ss[x].refs = OwnedBy(sn, x) + Cardinality(ReportsOf(x)) + HeldDying(x)
<1>4. \A x \in Sessions : /\ Cardinality(ReportsOf(x)) \in Nat /\ HeldDying(x) \in 0 .. 1
                          /\ OwnedBy(sn, x) \in 0 .. 1 /\ Right(x)
                          /\ ss[x].finalizing # "no" => ss[x].thread = "late" \/ ss[x].refs = 0
  <2> SUFFICES ASSUME NEW x \in Sessions
               PROVE  /\ Cardinality(ReportsOf(x)) \in Nat /\ HeldDying(x) \in 0 .. 1
                      /\ OwnedBy(sn, x) \in 0 .. 1 /\ Right(x)
                      /\ ss[x].finalizing # "no" => ss[x].thread = "late" \/ ss[x].refs = 0
    OBVIOUS
  <2>1. Cardinality(ReportsOf(x)) \in Nat
    BY ReportsFinite
  <2>2. HeldDying(x) \in 0 .. 1 /\ OwnedBy(sn, x) \in 0 .. 1
    BY DEF HeldDying, OwnedBy
  <2>3. Right(x) /\ (ss[x].finalizing # "no" => ss[x].thread = "late" \/ ss[x].refs = 0)
    BY DEF Balance, Counted, Unreferenced
  <2> QED
    BY <2>1, <2>2, <2>3
\* The session of c is neither late nor finalized.
<1>10. o.thread # "late" /\ o.finalizing = "no" /\ p.thread # "late" /\ p.finalizing = "no"
  <2>1. CASE sn[c] = s
    <3>1. OwnedBy(sn, s) = 1 /\ o = ss[s]
      BY <1>1, <2>1 DEF OwnedBy
    <3>2. o.thread # "late" /\ o.refs = 1 + Cardinality(ReportsOf(s)) + HeldDying(s)
      BY <1>4, <3>1
    <3>3. o.refs # 0
      BY <1>4, <3>2
    <3>4. o.finalizing = "no"
      BY <1>4, <3>1, <3>2, <3>3
    <3> QED
      BY <3>2, <3>4 DEF Follows
  <2>2. CASE sn[c] = None
    BY <2>2, FreshType DEF Follows
  <2> QED
    BY <2>1, <2>2
\* No other connection has the session.
<1>5. \A d \in Conns : d # c => sn[d] # s
  <2> SUFFICES ASSUME NEW d \in Conns, d # c, sn[d] = s PROVE FALSE
    OBVIOUS
  <2>1. sn[c] # s
    BY <1>1 DEF Balance, OneOwner
  <2>2. OwnedBy(sn, s) = 1
    BY DEF OwnedBy
  <2>3. ss[s].refs = 0 /\ ss[s].thread = "none"
    BY <2>1, FreedType
  <2> QED
    BY <1>4, <2>2, <2>3
<1>6. OneOwner(sn2) /\ OwnersLinked(cx2, sn2)
  BY <1>2, <1>5 DEF Balance, OneOwner, OwnersLinked
<1>7. Counted(sn2, ss2)
  <2> SUFFICES ASSUME NEW x \in Sessions
               PROVE  IF ss2[x].thread = "late" THEN OwnedBy(sn2, x) = 0 /\ HeldDying(x) = 0
                      ELSE ss2[x].refs = OwnedBy(sn2, x) + Cardinality(ReportsOf(x)) + HeldDying(x)
    BY DEF Counted
  <2>1. CASE x = s
    <3>1. OwnedBy(sn2, x) = 1 /\ ss2[x].refs = o.refs /\ ss2[x].thread # "late"
      BY <1>2, <1>10, <2>1 DEF OwnedBy, Follows
    <3>2. CASE sn[c] = s
      <4>1. OwnedBy(sn, x) = 1 /\ o.refs = ss[x].refs
        BY <1>1, <2>1, <3>2 DEF OwnedBy
      <4>2. ss[x].refs = 1 + Cardinality(ReportsOf(x)) + HeldDying(x)
        BY <1>4, <4>1
      <4> QED
        BY <3>1, <4>1, <4>2
    <3>3. CASE sn[c] = None /\ ss[s] = Freed
      <4>1. o.refs = 1
        BY <3>3, FreshType
      <4>2. ss[x].refs = 0 /\ ss[x].thread = "none"
        BY <2>1, <3>3, FreedType
      <4>3. ss[x].refs = OwnedBy(sn, x) + Cardinality(ReportsOf(x)) + HeldDying(x)
        BY <1>4, <4>2
      <4> HIDE DEF Right
      <4>4. Cardinality(ReportsOf(x)) = 0 /\ HeldDying(x) = 0
        BY <1>4, <4>2, <4>3
      <4> QED
        BY <3>1, <4>1, <4>4
    <3> QED
      BY <3>2, <3>3
  <2>2. CASE x # s
    <3>1. OwnedBy(sn2, x) = OwnedBy(sn, x) /\ ss2[x] = ss[x]
      BY <1>2, <2>2, NoneIsNoSession DEF OwnedBy
    <3>2. Right(x)
      BY <1>4
    <3> QED
      BY <3>1, <3>2
  <2> QED
    BY <2>1, <2>2
<1>8. Watching(cx2, sn2, ss2)
  <2> SUFFICES ASSUME NEW d \in Conns, cx2[d].linked, ~cx2[d].again, ~cx2[d].tcpKeepAlive
               PROVE  sn2[d] # None /\ ss2[sn2[d]].thread # "none"
    BY DEF Watching
  <2>1. CASE d = c
    <3>1. cx[c].tcpKeepAlive \/ (sn[c] # None /\ ss[sn[c]].thread # "none")
      BY <1>2, <2>1 DEF Balance, Watching
    <3>2. Covered(o, cx[c].tcpKeepAlive)
      BY <1>1, <3>1 DEF Covered
    <3> QED
      BY <1>1, <1>2, <2>1, <3>2 DEF Covered
  <2>2. CASE d # c
    BY <1>1, <1>2, <1>5, <2>2 DEF Balance, Watching
  <2> QED
    BY <2>1, <2>2
<1>9. Expiring(sn2, ss2)
  <2> SUFFICES ASSUME NEW d \in Conns, sn2[d] # None, ss2[sn2[d]].thread = "expired"
               PROVE  OnItsWay(sn2[d])
    BY DEF Expiring
  <2>1. CASE d = c
    <3>1. o.thread = "expired"
      BY <1>2, <2>1 DEF Follows
    <3>2. sn[c] = s /\ ss[s].thread = "expired"
      BY <1>1, <3>1, FreshType
    <3> QED
      BY <1>1, <1>2, <2>1, <3>2 DEF Balance, Expiring
  <2>2. CASE d # c
    BY <1>1, <1>2, <1>5, <2>2 DEF Balance, Expiring
  <2> QED
    BY <2>1, <2>2
<1>11. Unreferenced(ss2)
  BY <1>2, <1>4, <1>10 DEF Unreferenced
<1> QED
  BY <1>3, <1>6, <1>7, <1>8, <1>9, <1>11 DEF Balance, cx2, sn2, ss2

(* A connection without a session begins. *)
LEMMA BeginBalance ==
    ASSUME NEW cx, NEW sn, NEW ss, Balance(cx, sn, ss), NEW c \in Conns, sn[c] = None,
           NEW new \in Connection, new.tcpKeepAlive \/ new.again
    PROVE  Balance([cx EXCEPT ![c] = new], sn, ss)
BY DEF Balance, StateTypes, OwnersLinked, Watching

(* A step that leaves the reports and the death that is handled, or stops the server. *)
LEMMA QueuesStay ==
    ASSUME QueueTypes, NEW cx, NEW sn, NEW ss, Balance(cx, sn, ss),
           cnx' = cx, session' = sn, ses' = ss, UNCHANGED <<reports, dying>>,
           httpServer' = httpServer \/ httpServer' # "up"
    PROVE  RefInv'
<1>1. \A s : /\ ReportsOf(s)' = ReportsOf(s) /\ HeldDying(s)' = HeldDying(s)
             /\ OnItsWay(s) => OnItsWay(s)'
  BY DEF ReportsOf, HeldDying, OnItsWay
<1>2. QueueTypes'
  BY DEF QueueTypes
<1>3. Counted(session, ses)' /\ Unreferenced(ses)'
  BY <1>1 DEF Balance, Counted, OwnedBy, Unreferenced
<1>4. Expiring(session, ses)'
  BY <1>1 DEF Balance, Expiring
<1>5. Watching(cnx, session, ses)'
  BY DEF Balance, Watching
<1>6. (StateTypes(cnx, session, ses) /\ OneOwner(session) /\ OwnersLinked(cnx, session))'
  BY DEF Balance, StateTypes, OneOwner, OwnersLinked
<1> QED
  BY <1>2, <1>3, <1>4, <1>5, <1>6 DEF RefInv, Balance

LEMMA CloseKeepsRefs ==
    ASSUME RefInv, NEW D \in SUBSET Conns, Becomes(AfterClose(D)), UNCHANGED <<reports, dying>>,
           httpServer' = httpServer \/ httpServer' # "up"
    PROVE  RefInv'
<1> DEFINE st == AfterClose(D)
<1>1. QueueTypes /\ Balance(st.cnx, st.session, st.ses)
  BY CloseBalance DEF RefInv
<1>2. cnx' = st.cnx /\ session' = st.session /\ ses' = st.ses
  BY DEF Becomes
<1> HIDE DEF st
<1> QED
  BY <1>1, <1>2, QueuesStay

LEMMA AcceptKeepsRefs == ASSUME RefInv, NEW c \in Conns, Accept(c) PROVE RefInv'
<1> DEFINE new == [Closed EXCEPT !.linked = TRUE, !.tcpKeepAlive = TRUE]
<1>1. new \in Connection /\ new.tcpKeepAlive
  BY DEF Connection, Closed
<1>2. /\ cnx' = [cnx EXCEPT ![c] = new]
      /\ UNCHANGED <<httpServer, session, ses, reports, dying>> /\ c \notin Linked
  BY DEF Accept
<1>3. session[c] = None
  BY <1>2 DEF RefInv, Balance, OwnersLinked, Linked
<1> HIDE DEF new
<1>4. QueueTypes /\ Balance([cnx EXCEPT ![c] = new], session, ses)
  BY <1>1, <1>3, BeginBalance DEF RefInv
<1> QED
  BY <1>2, <1>4, QueuesStay

LEMMA TearDownAllKeepsRefs == ASSUME RefInv, NEW c \in Conns, TearDownAll(c) PROVE RefInv'
<1> DEFINE st == AfterClose({c})
           new == [cnx[c] EXCEPT !.didAnnounce = FALSE, !.didRecord = FALSE,
                                 !.again = @ \/ ~cnx[c].tcpKeepAlive]
<1>1. QueueTypes /\ Balance(st.cnx, st.session, st.ses)
  <2>1. {c} \in SUBSET Conns
    OBVIOUS
  <2> QED
    BY <2>1, CloseBalance DEF RefInv
<1>2. /\ cnx' = [cnx EXCEPT ![c] = new] /\ session' = st.session /\ ses' = st.ses
      /\ UNCHANGED <<httpServer, reports, dying>>
  BY DEF TearDownAll
<1>3. cnx \in [Conns -> Connection]
  BY DEF RefInv, Balance, StateTypes
<1>4. new \in Connection /\ (new.tcpKeepAlive \/ new.again)
  BY <1>3 DEF Connection
<1> HIDE DEF new
<1>5. cnx' = [st.cnx EXCEPT ![c] = new] /\ st.session[c] = None
  BY <1>2, <1>3 DEF AfterClose, SessionAfter
<1> HIDE DEF st
<1>6. Balance([st.cnx EXCEPT ![c] = new], st.session, st.ses)
  BY <1>1, <1>4, <1>5, BeginBalance
<1> QED
  BY <1>1, <1>2, <1>5, <1>6, QueuesStay

(* A request that goes on with the session of its connection. *)
LEMMA OwnSessionKeepsRefs ==
    ASSUME RefInv, NEW c \in Linked, session[c] # None, NEW p, Follows(ses[session[c]], p),
           NEW new \in Connection, new.linked, new.again = cnx[c].again,
           Covered(ses[session[c]], cnx[c].tcpKeepAlive) => Covered(p, new.tcpKeepAlive),
           cnx' = [cnx EXCEPT ![c] = new], ses' = [ses EXCEPT ![session[c]] = p],
           UNCHANGED <<httpServer, session, reports, dying>>
    PROVE  RefInv'
<1> DEFINE s == session[c]
<1>1. /\ QueueTypes /\ Balance(cnx, session, ses) /\ c \in Conns /\ cnx[c].linked
      /\ session \in [Conns -> Sessions \cup {None}]
  BY DEF RefInv, Balance, StateTypes, Linked
<1>2. s \in Sessions /\ [session EXCEPT ![c] = s] = session
  BY <1>1
<1>3. session[c] = s \/ (session[c] = None /\ ses[s] = Freed)
  OBVIOUS
<1>4. ses[s] = IF session[c] = None THEN Fresh ELSE ses[s]
  OBVIOUS
<1>5. /\ Follows(ses[s], p) /\ ses' = [ses EXCEPT ![s] = p]
      /\ Covered(ses[s], cnx[c].tcpKeepAlive) => Covered(p, new.tcpKeepAlive)
  OBVIOUS
<1> HIDE DEF s
<1>6. Balance([cnx EXCEPT ![c] = new], [session EXCEPT ![c] = s], [ses EXCEPT ![s] = p])
  BY <1>1, <1>2, <1>3, <1>4, <1>5, SetupBalance
<1>7. Balance([cnx EXCEPT ![c] = new], session, [ses EXCEPT ![s] = p])
  BY <1>2, <1>6
<1> QED
  BY <1>1, <1>5, <1>7, QueuesStay

LEMMA RecordKeepsRefs == ASSUME Inv, RefInv, NEW c \in Conns, Record(c) PROVE RefInv'
<1> DEFINE new == [cnx[c] EXCEPT !.didRecord = TRUE]
           o == ses[session[c]]
           p == [o EXCEPT !.timer = TRUE]
<1>1. c \in Linked /\ session[c] # None
  BY DEF Record, Announced, Inv, AnnouncedHasSession
<1>2. cnx[c] \in Connection /\ cnx[c].linked /\ o \in Session
  BY <1>1 DEF RefInv, Balance, StateTypes, Linked
<1>3. /\ new \in Connection /\ new.linked /\ new.again = cnx[c].again
      /\ new.tcpKeepAlive = cnx[c].tcpKeepAlive
  BY <1>2 DEF Connection
<1>4. /\ p \in Session /\ p.refs = o.refs /\ p.thread = o.thread
      /\ p.finalizing = o.finalizing
  BY <1>2 DEF Session
<1>5. /\ cnx' = [cnx EXCEPT ![c] = new] /\ ses' = [ses EXCEPT ![session[c]] = p]
      /\ UNCHANGED <<httpServer, session, reports, dying>>
  BY DEF Record
<1> HIDE DEF new, p
<1>6. Follows(o, p) /\ (Covered(o, cnx[c].tcpKeepAlive) => Covered(p, new.tcpKeepAlive))
  BY <1>3, <1>4 DEF Follows, Covered
<1> QED
  BY <1>1, <1>3, <1>5, <1>6, OwnSessionKeepsRefs

LEMMA TearDownStreamsKeepsRefs ==
    ASSUME RefInv, NEW c \in Conns, NEW R \in SUBSET Streams, TearDownStreams(c, R) PROVE RefInv'
<1> DEFINE o == ses[session[c]]
           tcp == TCPKeepAlive([o EXCEPT !.streams = @ \ R], cnx[c].tcpKeepAlive)
           new == [cnx[c] EXCEPT !.tcpKeepAlive = tcp]
           p == StreamsTornDown(o, R)
<1>1. c \in Linked /\ session[c] # None
  BY DEF TearDownStreams
<1>2. cnx[c] \in Connection /\ cnx[c].linked /\ o \in Session /\ cnx[c].tcpKeepAlive \in BOOLEAN
  BY <1>1 DEF RefInv, Balance, StateTypes, Linked, Connection
<1>3. /\ cnx' = [cnx EXCEPT ![c] = new] /\ ses' = [ses EXCEPT ![session[c]] = p]
      /\ UNCHANGED <<httpServer, session, reports, dying>>
  BY DEF TearDownStreams
<1>4. Follows(o, p) /\ (Covered(o, cnx[c].tcpKeepAlive) => Covered(p, tcp))
  <2> HIDE DEF o
  <2> QED
    BY <1>2, StreamsFollow
<1>5. tcp \in BOOLEAN
  BY <1>2, TCPKeepAliveType
<1> HIDE DEF tcp, p
<1>6. /\ new \in Connection /\ new.linked /\ new.again = cnx[c].again /\ new.tcpKeepAlive = tcp
  BY <1>2, <1>5 DEF Connection
<1> HIDE DEF new
<1> QED
  BY <1>1, <1>3, <1>4, <1>6, OwnSessionKeepsRefs

(* A SETUP, which closes the connections it hijacks and goes on with the session of  *)
(* its connection or a new one.                                                      *)
LEMMA SetupKeepsRefs ==
    ASSUME RefInv, NEW c \in Linked, HasSession(c, AfterClose(Hijacked(c))),
           NEW p, Follows(Created(c, AfterClose(Hijacked(c))), p),
           NEW new \in Connection, new.linked, new.again = cnx[c].again,
           Covered(Created(c, AfterClose(Hijacked(c))), cnx[c].tcpKeepAlive)
               => Covered(p, new.tcpKeepAlive),
           cnx' = [AfterClose(Hijacked(c)).cnx EXCEPT ![c] = new],
           session' = [AfterClose(Hijacked(c)).session EXCEPT
                          ![c] = SessionOf(c, AfterClose(Hijacked(c)))],
           ses' = [AfterClose(Hijacked(c)).ses EXCEPT
                      ![SessionOf(c, AfterClose(Hijacked(c)))] = p],
           UNCHANGED <<httpServer, reports, dying>>
    PROVE  RefInv'
<1> DEFINE st == AfterClose(Hijacked(c))
           s == SessionOf(c, st)
           o == Created(c, st)
<1>1. Hijacked(c) \in SUBSET Conns /\ c \notin Hijacked(c) /\ c \in Conns /\ cnx[c].linked
  BY DEF Hijacked, Announced, Linked
<1>2. QueueTypes /\ Balance(st.cnx, st.session, st.ses)
  BY <1>1, CloseBalance DEF RefInv
<1>3. st.cnx[c] = cnx[c] /\ st.session[c] = session[c]
  BY <1>1 DEF AfterClose, SessionAfter
<1>4. session \in [Conns -> Sessions \cup {None}]
  BY DEF RefInv, Balance, StateTypes
<1>5. HasSession(c, st)
  OBVIOUS
<1>6. s \in Sessions /\ (st.session[c] = s \/ (st.session[c] = None /\ st.ses[s] = Freed))
  <2> HIDE DEF st
  <2> QED
    BY <1>1, <1>3, <1>4, <1>5 DEF HasSession, SessionOf
<1>7. o = IF st.session[c] = None THEN Fresh ELSE st.ses[s]
  <2> HIDE DEF st
  <2> QED
    BY <1>3 DEF Created, SessionOf
<1>8. /\ Follows(o, p) /\ (Covered(o, st.cnx[c].tcpKeepAlive) => Covered(p, new.tcpKeepAlive))
      /\ new.again = st.cnx[c].again /\ st.cnx[c].linked
  BY <1>1, <1>3
<1>9. /\ cnx' = [st.cnx EXCEPT ![c] = new] /\ session' = [st.session EXCEPT ![c] = s]
      /\ ses' = [st.ses EXCEPT ![s] = p]
  OBVIOUS
<1> HIDE DEF st, s, o
<1>10. Balance([st.cnx EXCEPT ![c] = new], [st.session EXCEPT ![c] = s], [st.ses EXCEPT ![s] = p])
  BY <1>1, <1>2, <1>6, <1>7, <1>8, SetupBalance
<1> QED
  BY <1>2, <1>9, <1>10, QueuesStay

LEMMA CreatedType ==
    ASSUME RefInv, NEW c \in Linked, HasSession(c, AfterClose(Hijacked(c)))
    PROVE  Created(c, AfterClose(Hijacked(c))) \in Session
<1> DEFINE st == AfterClose(Hijacked(c))
<1>1. Hijacked(c) \in SUBSET Conns
  BY DEF Hijacked, Announced, Linked
<1>2. st.ses \in [Sessions -> Session]
  BY <1>1, CloseBalance DEF RefInv, Balance, StateTypes
<1>3. session \in [Conns -> Sessions \cup {None}] /\ c \in Conns
  BY DEF RefInv, Balance, StateTypes, Linked
<1> HIDE DEF st
<1>4. Created(c, st) \in Session
  BY <1>2, <1>3, FreshType DEF Created
<1> QED
  BY <1>4 DEF st

LEMMA ControlledFollows ==
    ASSUME NEW o \in Session, NEW R \in SUBSET Streams, NEW lowPower \in BOOLEAN
    PROVE  LET p == Controlled(o, lowPower)
               with == [p EXCEPT !.streams = @ \cup R]
           IN  /\ Follows(o, p) /\ p.thread = o.thread
               /\ Follows(o, with) /\ with.thread = o.thread
<1> DEFINE p == Controlled(o, lowPower)
           with == [p EXCEPT !.streams = @ \cup R]
<1>1. /\ p \in Session /\ p.refs = o.refs /\ p.thread = o.thread
      /\ p.finalizing = o.finalizing
  BY DEF Session, Controlled
<1> HIDE DEF p
<1>2. /\ with \in Session /\ with.refs = p.refs /\ with.thread = p.thread
      /\ with.finalizing = p.finalizing
  BY <1>1 DEF Session
<1> HIDE DEF with
<1>3. Follows(o, p) /\ p.thread = o.thread /\ Follows(o, with) /\ with.thread = o.thread
  BY <1>1, <1>2 DEF Follows
<1> QED
  BY <1>3 DEF p, with

LEMMA SetupRefusedKeepsRefs == ASSUME RefInv, NEW c \in Conns, SetupRefused(c) PROVE RefInv'
<1> DEFINE after == AfterClose(Hijacked(c))
<1>1. c \in Linked /\ UNCHANGED <<httpServer, reports, dying>> /\ Hijacked(c) \in SUBSET Conns
  BY DEF SetupRefused, Hijacked, Announced, Linked
<1>2. CASE Becomes(after)
  BY <1>1, <1>2, CloseKeepsRefs
<1>3. CASE /\ session[c] = None /\ HasSession(c, after)
           /\ Becomes([after EXCEPT !.session[c] = SessionOf(c, after),
                                    !.ses[SessionOf(c, after)] = Fresh])
  <2> DEFINE s == SessionOf(c, after)
  <2>1. /\ session' = [after.session EXCEPT ![c] = s] /\ cnx' = after.cnx
        /\ ses' = [after.ses EXCEPT ![s] = Fresh]
    BY <1>3 DEF Becomes, AfterClose
  <2>2. cnx[c] \in Connection /\ cnx[c].linked
    BY <1>1 DEF RefInv, Balance, StateTypes, Linked
  <2>3. after.cnx = [after.cnx EXCEPT ![c] = cnx[c]]
    <3> DEFINE f == after.cnx
    <3>1. f = [d \in Conns |-> f[d]] /\ f[c] = cnx[c]
      BY <1>1 DEF AfterClose, Hijacked
    <3> HIDE DEF f
    <3>2. f = [f EXCEPT ![c] = cnx[c]]
      BY <3>1
    <3> QED
      BY <3>2 DEF f
  <2>4. cnx' = [after.cnx EXCEPT ![c] = cnx[c]]
    BY <2>1, <2>3
  <2>5. Created(c, after) = Fresh /\ Follows(Fresh, Fresh)
    BY <1>3, FreshType DEF Created, Follows
  <2> HIDE DEF s
  <2>6. /\ Follows(Created(c, after), Fresh)
        /\ Covered(Created(c, after), cnx[c].tcpKeepAlive) => Covered(Fresh, cnx[c].tcpKeepAlive)
    BY <2>5
  <2>7. cnx[c].again = cnx[c].again
    OBVIOUS
  <2> QED
    BY <1>1, <1>3, <2>1, <2>2, <2>4, <2>6, <2>7, SetupKeepsRefs DEF s
<1> QED
  BY <1>2, <1>3 DEF SetupRefused

LEMMA SetupDoneKeepsRefs ==
    ASSUME RefInv, NEW c \in Conns, NEW R \in SUBSET Streams, SetupDone(c, R) PROVE RefInv'
<1> DEFINE after == AfterClose(Hijacked(c))
           s == SessionOf(c, after)
           o == Created(c, after)
           started == Controlled(o, c \in LowPower)
           with == [started EXCEPT !.streams = @ \cup R]
           moves == R # {} \/ ~started.sessionIdleValid
           tcp == IF moves THEN TCPKeepAlive(with, cnx[c].tcpKeepAlive) ELSE cnx[c].tcpKeepAlive
           p == IF moves THEN IdleTransition(with) ELSE with
           new == [cnx[c] EXCEPT !.didAnnounce = TRUE, !.tcpKeepAlive = tcp]
<1>1. c \in Linked /\ HasSession(c, after) /\ UNCHANGED <<httpServer, reports, dying>>
  BY DEF SetupDone
<1>2. /\ cnx[c] \in Connection /\ cnx[c].linked /\ cnx[c].tcpKeepAlive \in BOOLEAN
      /\ after.cnx[c] = cnx[c]
  BY <1>1 DEF AfterClose, Hijacked, RefInv, Balance, StateTypes, Linked, Connection
<1>3. /\ session' = [after.session EXCEPT ![c] = s]
      /\ cnx' = [after.cnx EXCEPT ![c].didAnnounce = TRUE, ![c].tcpKeepAlive = tcp]
      /\ ses' = [after.ses EXCEPT ![s] = p]
  <2>1. Becomes([after EXCEPT !.session[c] = s, !.ses[s] = p, !.cnx[c].didAnnounce = TRUE,
                              !.cnx[c].tcpKeepAlive = tcp, !.playing = TRUE])
    BY <1>2 DEF SetupDone, Started
  <2> HIDE DEF p, s, tcp
  <2> QED
    BY <2>1 DEF Becomes, AfterClose
<1>4. o \in Session
  BY <1>1, CreatedType
<1> HIDE DEF o
<1>5. Follows(o, with) /\ with.thread = o.thread
  <2>1. (c \in LowPower) \in BOOLEAN
    OBVIOUS
  <2> QED
    BY <1>4, <2>1, ControlledFollows
<1> HIDE DEF with, moves
<1>6. tcp \in BOOLEAN
  BY <1>2, TCPKeepAliveType
<1>7. Follows(o, p) /\ (Covered(o, cnx[c].tcpKeepAlive) => Covered(p, tcp))
  <2>1. with \in Session
    BY <1>5 DEF Follows
  <2>2. CASE moves
    <3>1. /\ Follows(with, IdleTransition(with))
          /\ Covered(with, cnx[c].tcpKeepAlive) => Covered(IdleTransition(with), tcp)
      BY <1>2, <2>1, <2>2, IdleFollows
    <3> QED
      BY <1>5, <2>2, <3>1 DEF Follows, Covered
  <2>3. CASE ~moves
    BY <1>5, <2>3 DEF Covered
  <2> QED
    BY <2>2, <2>3
<1> HIDE DEF tcp, p, after
<1>8. /\ new \in Connection /\ new.linked /\ new.again = cnx[c].again /\ new.tcpKeepAlive = tcp
      /\ cnx' = [after.cnx EXCEPT ![c] = new]
  BY <1>2, <1>3, <1>6 DEF Connection
<1> HIDE DEF new
<1>9. Covered(o, cnx[c].tcpKeepAlive) => Covered(p, new.tcpKeepAlive)
  BY <1>7, <1>8
<1> QED
  BY <1>1, <1>3, <1>7, <1>8, <1>9, SetupKeepsRefs, ZenonT(60) DEF s, o, after

\* A SETUP that fails at where has made p of the session object o, and switched TCP
\* keep-alive to tcp.
LEMMA SetupFailsKeepsRefs ==
    ASSUME RefInv, NEW c \in Conns, NEW R \in SUBSET Streams,
           NEW where \in {"clock", "events", "before", "in", "behind"}, SetupFails(c, R, where)
    PROVE  RefInv'
<1> DEFINE after == AfterClose(Hijacked(c))
           s == SessionOf(c, after)
           o == Created(c, after)
           started == Controlled(o, c \in LowPower)
           with == [started EXCEPT !.streams = @ \cup R]
           moves == R # {} \/ ~started.sessionIdleValid
           got == CASE where = "clock" -> o
                    [] where = "events" -> [started EXCEPT !.controlSetup = FALSE]
                    [] where = "before" \/ (where = "behind" /\ ~moves) -> started
                    [] where = "in" -> Watched(with)
                    [] OTHER -> IdleTransition(with)
           mid == IF where \in {"clock", "events", "before"} \/ ~moves THEN cnx[c].tcpKeepAlive
                  ELSE TCPKeepAlive(with, cnx[c].tcpKeepAlive)
           tcp == IF R = {} THEN mid ELSE TCPKeepAlive([got EXCEPT !.streams = @ \ R], mid)
           p == IF R = {} THEN TornDown(got) ELSE StreamsTornDown(got, R)
           new == [cnx[c] EXCEPT !.tcpKeepAlive = tcp]
<1>1. c \in Linked /\ HasSession(c, after) /\ UNCHANGED <<httpServer, reports, dying>>
  BY DEF SetupFails
<1>2. /\ cnx[c] \in Connection /\ cnx[c].linked /\ cnx[c].tcpKeepAlive \in BOOLEAN
      /\ after.cnx[c] = cnx[c]
  BY <1>1 DEF AfterClose, Hijacked, RefInv, Balance, StateTypes, Linked, Connection
<1>3. Becomes([after EXCEPT !.session[c] = s, !.ses[s] = p, !.cnx[c].tcpKeepAlive = tcp])
  BY <1>2 DEF SetupFails, Started
<1>4. where = "in" => moves
  BY DEF SetupFails, Started
<1>5. o \in Session
  BY <1>1, CreatedType
<1> HIDE DEF o
<1>6. /\ Follows(o, started) /\ started.thread = o.thread
      /\ Follows(o, with) /\ with.thread = o.thread
  <2>1. (c \in LowPower) \in BOOLEAN
    OBVIOUS
  <2> QED
    BY <1>5, <2>1, ControlledFollows
<1> HIDE DEF started
<1>7. with \in Session /\ started \in Session
  BY <1>6 DEF Follows
<1>8. mid \in BOOLEAN
  BY <1>2, TCPKeepAliveType
<1>9. Follows(o, got) /\ (Covered(o, cnx[c].tcpKeepAlive) => Covered(got, mid))
  <2> HIDE DEF with
  <2>1. Follows(o, o)
    BY <1>5 DEF Follows
  <2>2. LET off == [started EXCEPT !.controlSetup = FALSE]
        IN  Follows(o, off) /\ off.thread = o.thread
    <3> DEFINE off == [started EXCEPT !.controlSetup = FALSE]
    <3>1. /\ off \in Session /\ off.refs = started.refs /\ off.thread = started.thread
          /\ off.finalizing = started.finalizing
      BY <1>7 DEF Session
    <3> HIDE DEF off
    <3>2. Follows(o, off) /\ off.thread = o.thread
      BY <1>6, <3>1 DEF Follows
    <3> QED
      BY <3>2 DEF off
  <2>3. LET tcp2 == TCPKeepAlive(with, cnx[c].tcpKeepAlive)
        IN  /\ Follows(o, Watched(with)) /\ Follows(o, IdleTransition(with))
            /\ Covered(o, cnx[c].tcpKeepAlive)
                 => Covered(Watched(with), tcp2) /\ Covered(IdleTransition(with), tcp2)
    <3>1. Follows(with, Watched(with)) /\ Follows(with, IdleTransition(with))
      <4>1. Follows(with, IdleTransition(with))
        BY <1>2, <1>7, IdleFollows
      <4>2. Follows(with, Watched(with))
        BY <1>7, WatchedStays
      <4> QED
        BY <4>1, <4>2
    <3>2. Covered(o, cnx[c].tcpKeepAlive) => Covered(with, cnx[c].tcpKeepAlive)
      BY <1>6 DEF Covered
    <3>3. ASSUME Covered(with, cnx[c].tcpKeepAlive)
          PROVE  /\ Covered(Watched(with), TCPKeepAlive(with, cnx[c].tcpKeepAlive))
                 /\ Covered(IdleTransition(with), TCPKeepAlive(with, cnx[c].tcpKeepAlive))
      BY <1>2, <1>7, <3>3, WatchedFollows, IdleFollows
    <3> QED
      BY <1>6, <3>1, <3>2, <3>3 DEF Follows
  <2>4. Covered(o, cnx[c].tcpKeepAlive) => Covered(started, cnx[c].tcpKeepAlive)
    BY <1>6 DEF Covered
  <2> HIDE DEF moves
  <2>5. CASE where = "clock"
    BY <1>6, <2>1, <2>4, <2>5
  <2>6. CASE where = "events"
    BY <1>6, <2>2, <2>4, <2>6 DEF Covered
  <2>7. CASE where = "before" \/ (where = "behind" /\ ~moves)
    BY <1>6, <2>4, <2>7
  <2>8. CASE where = "in" /\ moves
    BY <2>3, <2>8
  <2>9. CASE where = "behind" /\ moves
    BY <2>3, <2>9
  <2> QED
    BY <1>4, <2>5, <2>6, <2>7, <2>8, <2>9
<1> HIDE DEF with, moves, got, mid
<1>10. tcp \in BOOLEAN
  BY <1>8, TCPKeepAliveType
<1>11. got \in Session
  BY <1>9 DEF Follows
<1>12. Follows(got, p) /\ (Covered(got, mid) => Covered(p, tcp))
  <2>1. CASE R = {}
    BY <1>11, <2>1, TornDownFollows DEF Covered
  <2>2. CASE R # {}
    BY <1>8, <1>11, <2>2, StreamsFollow
  <2> QED
    BY <2>1, <2>2
<1> HIDE DEF p, tcp
<1>13. Follows(o, p) /\ (Covered(o, cnx[c].tcpKeepAlive) => Covered(p, tcp))
  BY <1>9, <1>12 DEF Follows
<1>14. /\ session' = [after.session EXCEPT ![c] = s] /\ ses' = [after.ses EXCEPT ![s] = p]
       /\ cnx' = [after.cnx EXCEPT ![c].tcpKeepAlive = tcp]
  <2> HIDE DEF s
  <2> QED
    BY <1>3 DEF Becomes, AfterClose
<1> HIDE DEF after
<1>15. /\ new \in Connection /\ new.linked /\ new.again = cnx[c].again /\ new.tcpKeepAlive = tcp
       /\ cnx' = [after.cnx EXCEPT ![c] = new]
  BY <1>2, <1>10, <1>14 DEF Connection
<1> HIDE DEF new
<1> QED
  BY <1>1, <1>13, <1>14, <1>15, SetupKeepsRefs DEF s, o, after

(* Deaths, and the server's queue. *)

LEMMA KeepAliveExpiresKeepsRefs ==
    ASSUME RefInv, NEW s \in Sessions, KeepAliveExpires(s) PROVE RefInv'
<1> DEFINE t == IF ses[s].finalizing = "no" THEN "expired" ELSE "late"
           p == [ses[s] EXCEPT !.thread = t, !.refs = @ + 1]
<1>1. /\ UNCHANGED <<httpServer, cnx, session, dying>> /\ ses' = [ses EXCEPT ![s] = p]
      /\ reports' = Append(reports, s) /\ ses[s].thread = "running"
  BY DEF KeepAliveExpires, Expire
<1>2. ses \in [Sessions -> Session] /\ QueueTypes
  BY DEF RefInv, Balance, StateTypes
<1>3. /\ p \in Session /\ p.refs = ses[s].refs + 1 /\ p.thread = t
      /\ p.finalizing = ses[s].finalizing /\ t \in {"expired", "late"}
  <2> DEFINE o == ses[s]
  <2>1. o \in Session /\ t \in {"expired", "late"} /\ p = [o EXCEPT !.thread = t, !.refs = o.refs + 1]
    BY <1>2
  <2> HIDE DEF o, p, t
  <2>2. o.refs + 1 \in Nat
    BY <2>1 DEF Session
  <2>3. /\ p \in Session /\ p.refs = o.refs + 1 /\ p.thread = t
        /\ p.finalizing = o.finalizing
    BY <2>1, <2>2 DEF Session
  <2> QED
    BY <2>1, <2>3 DEF o
<1>4. \A x \in Sessions : /\ x = s => Cardinality(ReportsOf(x)') = Cardinality(ReportsOf(x)) + 1
                          /\ x # s => ReportsOf(x)' = ReportsOf(x)
                          /\ ReportsOf(x) \subseteq ReportsOf(x)'
                          /\ HeldDying(x)' = HeldDying(x)
                          /\ Cardinality(ReportsOf(x)) \in Nat
                          /\ OwnedBy(session', x) = OwnedBy(session, x)
  BY <1>1, <1>2, ReportAdded, ReportsFinite DEF HeldDying
<1> HIDE DEF p, t
<1>5. QueueTypes'
  BY <1>1, <1>2, SMTT(60) DEF QueueTypes
<1>6. (StateTypes(cnx, session, ses) /\ OneOwner(session) /\ OwnersLinked(cnx, session))'
  BY <1>1, <1>3 DEF RefInv, Balance, StateTypes, OneOwner, OwnersLinked
\* The session had its references; a late thread found it finalized, without any.
<1>7. ASSUME NEW x \in Sessions, x = s
      PROVE  /\ ses[x].refs = OwnedBy(session, x) + Cardinality(ReportsOf(x)) + HeldDying(x)
             /\ t = "late" => OwnedBy(session, x) = 0 /\ HeldDying(x) = 0
  <2>1. ses[x].refs = OwnedBy(session, x) + Cardinality(ReportsOf(x)) + HeldDying(x)
    BY <1>1, <1>7 DEF RefInv, Balance, Counted
  <2>2. OwnedBy(session, x) \in Nat /\ HeldDying(x) \in Nat
    BY DEF OwnedBy, HeldDying
  <2>3. t = "late" => ses[x].refs = 0
    <3>1. t = "late" => ses[x].finalizing # "no"
      BY <1>7 DEF t
    <3> QED
      BY <1>1, <1>7, <3>1 DEF RefInv, Balance, Unreferenced
  <2> QED
    BY <1>4, <2>1, <2>2, <2>3
<1>8. Counted(session, ses)'
  <2> SUFFICES ASSUME NEW x \in Sessions
               PROVE  IF ses'[x].thread = "late" THEN OwnedBy(session', x) = 0 /\ HeldDying(x)' = 0
                      ELSE ses'[x].refs = OwnedBy(session', x) + Cardinality(ReportsOf(x)')
                                          + HeldDying(x)'
    BY DEF Counted
  <2>1. CASE x = s
    <3>1. ses'[x] = p /\ OwnedBy(session, x) \in Nat /\ HeldDying(x) \in Nat
      BY <1>1, <1>2, <2>1 DEF OwnedBy, HeldDying
    <3>2. CASE t = "late"
      BY <1>3, <1>4, <1>7, <2>1, <3>1, <3>2
    <3>3. CASE t = "expired"
      <4>1. ses'[x].thread # "late" /\ ses'[x].refs = ses[x].refs + 1
        BY <1>3, <2>1, <3>1, <3>3
      <4>2. /\ ses[x].refs = OwnedBy(session, x) + Cardinality(ReportsOf(x)) + HeldDying(x)
            /\ OwnedBy(session', x) = OwnedBy(session, x) /\ HeldDying(x)' = HeldDying(x)
            /\ Cardinality(ReportsOf(x)') = Cardinality(ReportsOf(x)) + 1
            /\ Cardinality(ReportsOf(x)) \in Nat
        BY <1>4, <1>7, <2>1
      <4> QED
        BY <3>1, <4>1, <4>2
    <3> QED
      BY <1>3, <3>2, <3>3
  <2>2. CASE x # s
    <3>1. ses'[x] = ses[x]
      BY <1>1, <1>2, <2>2
    <3>2. IF ses[x].thread = "late" THEN OwnedBy(session, x) = 0 /\ HeldDying(x) = 0
          ELSE ses[x].refs = OwnedBy(session, x) + Cardinality(ReportsOf(x)) + HeldDying(x)
      BY DEF RefInv, Balance, Counted
    <3> QED
      BY <1>4, <2>2, <3>1, <3>2
  <2> QED
    BY <2>1, <2>2
<1>9. Unreferenced(ses)'
  <2> SUFFICES ASSUME NEW x \in Sessions, ses'[x].finalizing # "no"
               PROVE  ses'[x].thread = "late" \/ ses'[x].refs = 0
    BY DEF Unreferenced
  <2>1. CASE x = s
    <3>1. ses'[x] = p
      BY <1>1, <1>2, <2>1
    <3> QED
      BY <1>3, <3>1 DEF t
  <2>2. CASE x # s
    <3>1. ses'[x] = ses[x]
      BY <1>1, <1>2, <2>2
    <3> QED
      BY <3>1 DEF RefInv, Balance, Unreferenced
  <2> QED
    BY <2>1, <2>2
<1>10. Watching(cnx, session, ses)'
  BY <1>1, <1>2, <1>3 DEF RefInv, Balance, StateTypes, Watching
<1>11. Expiring(session, ses)'
  <2> SUFFICES ASSUME NEW c \in Conns, session[c] # None, ses'[session[c]].thread = "expired"
               PROVE  OnItsWay(session[c])'
    BY <1>1 DEF Expiring
  <2>1. session[c] \in Sessions
    BY DEF RefInv, Balance, StateTypes
  <2>2. CASE session[c] = s
    <3>1. Len(reports) + 1 \in ReportsOf(s)'
      BY <1>1, <1>2 DEF QueueTypes, ReportsOf
    <3> QED
      BY <1>1, <2>2, <3>1 DEF OnItsWay
  <2>3. CASE session[c] # s
    <3>1. OnItsWay(session[c])
      BY <1>1, <1>2, <2>1, <2>3 DEF RefInv, Balance, Expiring
    <3> QED
      BY <1>1, <1>4, <2>1, <3>1 DEF OnItsWay
  <2> QED
    BY <2>2, <2>3
<1> QED
  BY <1>5, <1>6, <1>8, <1>10, <1>11, <1>9 DEF RefInv, Balance

\* What is finalized has no connection and no death that holds it, late or not.
LEMMA FinalizeKeepsRefs == ASSUME RefInv, NEW s \in Sessions, Finalize(s) PROVE RefInv'
<1> DEFINE t == IF ses[s].thread = "late" THEN "late" ELSE "none"
           p == IF ses[s].thread = "late" THEN [Freed EXCEPT !.thread = "late"] ELSE Freed
<1>1. /\ UNCHANGED <<httpServer, cnx, session, reports, dying>> /\ ses' = [ses EXCEPT ![s] = p]
      /\ ses[s].finalizing # "no"
  BY DEF Finalize
<1>2. ses \in [Sessions -> Session] /\ session \in [Conns -> Sessions \cup {None}] /\ QueueTypes
  BY DEF RefInv, Balance, StateTypes
<1>3. /\ p \in Session /\ p.refs = 0 /\ p.thread = t /\ p.finalizing = "no"
  <2> DEFINE o == Freed
  <2>1. o \in Session /\ o.refs = 0 /\ o.thread = "none" /\ o.finalizing = "no"
    BY FreedType
  <2> HIDE DEF o
  <2>2. LET late == [o EXCEPT !.thread = "late"]
        IN  late \in Session /\ late.refs = 0 /\ late.thread = "late" /\ late.finalizing = "no"
    BY <2>1 DEF Session
  <2> QED
    BY <2>1, <2>2 DEF o
<1>4. /\ OwnedBy(session, s) = 0 /\ HeldDying(s) = 0
      /\ ses[s].thread # "late" => Cardinality(ReportsOf(s)) = 0
  <2>1. OwnedBy(session, s) \in Nat /\ HeldDying(s) \in Nat /\ Cardinality(ReportsOf(s)) \in Nat
    BY <1>2, ReportsFinite DEF OwnedBy, HeldDying
  <2>2. ses[s].thread = "late" \/ ses[s].refs = 0
    BY <1>1 DEF RefInv, Balance, Unreferenced
  <2>3. IF ses[s].thread = "late" THEN OwnedBy(session, s) = 0 /\ HeldDying(s) = 0
        ELSE ses[s].refs = OwnedBy(session, s) + Cardinality(ReportsOf(s)) + HeldDying(s)
    BY DEF RefInv, Balance, Counted
  <2> QED
    BY <2>1, <2>2, <2>3
<1>5. \A x \in Sessions : /\ ReportsOf(x)' = ReportsOf(x) /\ HeldDying(x)' = HeldDying(x)
                          /\ OwnedBy(session', x) = OwnedBy(session, x)
                          /\ ses'[x] = IF x = s THEN p ELSE ses[x]
                          /\ OnItsWay(x) => OnItsWay(x)'
  BY <1>1, <1>2 DEF ReportsOf, HeldDying, OnItsWay
<1>6. \A c \in Conns : session[c] # None => session[c] \in Sessions /\ ses'[session[c]] = ses[session[c]]
  BY <1>2, <1>4, <1>5 DEF OwnedBy
<1>7. ses' \in [Sessions -> Session]
  BY <1>1, <1>2, <1>3
<1>8. (StateTypes(cnx, session, ses) /\ OneOwner(session) /\ OwnersLinked(cnx, session))'
  BY <1>1, <1>7 DEF RefInv, Balance, StateTypes, OneOwner, OwnersLinked
<1> HIDE DEF p
<1>9. Counted(session, ses)'
  <2> SUFFICES ASSUME NEW x \in Sessions
               PROVE  IF ses'[x].thread = "late" THEN OwnedBy(session', x) = 0 /\ HeldDying(x)' = 0
                      ELSE ses'[x].refs = OwnedBy(session', x) + Cardinality(ReportsOf(x)')
                                          + HeldDying(x)'
    BY DEF Counted
  <2>1. CASE x = s
    BY <1>3, <1>4, <1>5, <2>1
  <2>2. CASE x # s
    BY <1>5, <2>2 DEF RefInv, Balance, Counted
  <2> QED
    BY <2>1, <2>2
<1>10. Unreferenced(ses)'
  BY <1>3, <1>5 DEF RefInv, Balance, Unreferenced
<1>11. Watching(cnx, session, ses)'
  BY <1>1, <1>6 DEF RefInv, Balance, Watching
<1>12. Expiring(session, ses)'
  BY <1>1, <1>5, <1>6 DEF RefInv, Balance, Expiring
<1>13. QueueTypes'
  BY <1>1, <1>2 DEF QueueTypes
<1> QED
  BY <1>8, <1>9, <1>10, <1>11, <1>12, <1>13 DEF RefInv, Balance

\* A death that no report retains is handled next.
LEMMA UnheldKeepsRefs ==
    ASSUME RefInv, NEW x \in Sessions \cup {None}, dying = {}, dying' = {Death(x, FALSE)},
           UNCHANGED <<httpServer, cnx, session, ses, reports>>
    PROVE  RefInv'
<1>1. \A s : /\ ReportsOf(s)' = ReportsOf(s) /\ HeldDying(s)' = HeldDying(s)
             /\ OnItsWay(s) => OnItsWay(s)'
  BY DEF ReportsOf, HeldDying, OnItsWay, Death
<1>2. QueueTypes'
  BY DEF RefInv, QueueTypes
<1>3. Counted(session, ses)' /\ Unreferenced(ses)'
  BY <1>1 DEF RefInv, Balance, Counted, OwnedBy, Unreferenced
<1>4. Expiring(session, ses)'
  BY <1>1 DEF RefInv, Balance, Expiring
<1>5. Watching(cnx, session, ses)'
  BY DEF RefInv, Balance, Watching
<1>6. (StateTypes(cnx, session, ses) /\ OneOwner(session) /\ OwnersLinked(cnx, session))'
  BY DEF RefInv, Balance, StateTypes, OneOwner, OwnersLinked
<1> QED
  BY <1>2, <1>3, <1>4, <1>5, <1>6 DEF RefInv, Balance

LEMMA DisconnectKeepsRefs == ASSUME RefInv, Disconnect PROVE RefInv'
<1>1. reports' = Append(reports, None) /\ UNCHANGED <<httpServer, cnx, session, ses, dying>>
  BY DEF Disconnect
<1>2. QueueTypes /\ None \in Sessions \cup {None}
  BY DEF RefInv
<1>3. \A s \in Sessions : /\ ReportsOf(s)' = ReportsOf(s) /\ HeldDying(s)' = HeldDying(s)
                          /\ OnItsWay(s) => OnItsWay(s)'
  BY <1>1, <1>2, ReportAdded, NoneIsNoSession DEF HeldDying, OnItsWay
<1>4. QueueTypes'
  <2>1. Append(reports, None) \in Seq(Sessions \cup {None})
    BY <1>2 DEF QueueTypes
  <2> QED
    BY <1>1, <1>2, <2>1 DEF QueueTypes
<1>5. Counted(session, ses)' /\ Unreferenced(ses)'
  BY <1>1, <1>3 DEF RefInv, Balance, Counted, OwnedBy, Unreferenced
<1>6. Expiring(session, ses)'
  BY <1>1, <1>3 DEF RefInv, Balance, StateTypes, Expiring
<1>7. Watching(cnx, session, ses)'
  BY <1>1 DEF RefInv, Balance, Watching
<1>8. (StateTypes(cnx, session, ses) /\ OneOwner(session) /\ OwnersLinked(cnx, session))'
  BY <1>1 DEF RefInv, Balance, StateTypes, OneOwner, OwnersLinked
<1> QED
  BY <1>4, <1>5, <1>6, <1>7, <1>8 DEF RefInv, Balance

LEMMA TakeReportKeepsRefs == ASSUME RefInv, TakeReport PROVE RefInv'
<1> DEFINE h == Head(reports)
           Right(s) == IF ses[s].thread = "late" THEN OwnedBy(session, s) = 0
                       ELSE ses[s].refs = OwnedBy(session, s) + Cardinality(ReportsOf(s))
<1>1. /\ dying = {} /\ reports # <<>> /\ reports' = Tail(reports)
      /\ UNCHANGED <<httpServer, cnx, session>> /\ QueueTypes
      /\ h # None => ses[h].thread # "late"
  BY DEF TakeReport, RefInv, AtLateReport
<1>2. ses \in [Sessions -> Session] /\ session \in [Conns -> Sessions \cup {None}]
  BY DEF RefInv, Balance, StateTypes
<1>3. h \in Sessions \cup {None} /\ Tail(reports) \in Seq(Sessions \cup {None})
  BY <1>1 DEF QueueTypes
<1>4. \A s : /\ s = h => /\ Cardinality(ReportsOf(s)') = Cardinality(ReportsOf(s)) - 1
                         /\ Cardinality(ReportsOf(s)) > 0
             /\ s # h => /\ Cardinality(ReportsOf(s)') = Cardinality(ReportsOf(s))
                         /\ ReportsOf(s) # {} => ReportsOf(s)' # {}
  BY <1>1, ReportTaken
<1>5. \A s \in Sessions : /\ Cardinality(ReportsOf(s)) \in Nat /\ HeldDying(s) = 0
                          /\ OwnedBy(session, s) \in 0 .. 1 /\ OwnedBy(session', s) = OwnedBy(session, s)
                          /\ Right(s) /\ (s = h => ses[s].thread # "late")
  <2> SUFFICES ASSUME NEW s \in Sessions
               PROVE  /\ Cardinality(ReportsOf(s)) \in Nat /\ HeldDying(s) = 0
                      /\ OwnedBy(session, s) \in 0 .. 1 /\ OwnedBy(session', s) = OwnedBy(session, s)
                      /\ Right(s) /\ (s = h => ses[s].thread # "late")
    OBVIOUS
  <2>1. Cardinality(ReportsOf(s)) \in Nat
    BY <1>1, ReportsFinite
  <2>2. HeldDying(s) = 0 /\ OwnedBy(session, s) \in 0 .. 1 /\ OwnedBy(session', s) = OwnedBy(session, s)
    BY <1>1 DEF HeldDying, OwnedBy
  <2>3. IF ses[s].thread = "late" THEN OwnedBy(session, s) = 0 /\ HeldDying(s) = 0
        ELSE ses[s].refs = OwnedBy(session, s) + Cardinality(ReportsOf(s)) + HeldDying(s)
    BY DEF RefInv, Balance, Counted
  <2>4. s = h => ses[s].thread # "late"
    BY <1>1, NoneIsNoSession
  <2> HIDE DEF h
  <2> QED
    BY <2>1, <2>2, <2>3, <2>4
<1>6. (OneOwner(session) /\ OwnersLinked(cnx, session))'
  BY <1>1 DEF RefInv, Balance, OneOwner, OwnersLinked
\* The death waits for httpQueue: the reference of the report is now that of the task.
<1>7. CASE httpServer = "up"
  <2>1. dying' = {Death(h, h # None)} /\ UNCHANGED ses
    BY <1>7 DEF TakeReport
  <2> HIDE DEF h
  <2>2. QueueTypes'
    BY <1>1, <1>3, <2>1 DEF QueueTypes
  <2>3. StateTypes(cnx, session, ses)' /\ Watching(cnx, session, ses)'
    BY <1>1, <2>1 DEF RefInv, Balance, StateTypes, Watching
  <2>4. \A s \in Sessions : HeldDying(s)' = IF s = h THEN 1 ELSE 0
    BY <2>1, NoneIsNoSession DEF HeldDying, Death
  <2>5. Counted(session, ses)'
    <3> SUFFICES ASSUME NEW s \in Sessions
                 PROVE  IF ses[s].thread = "late" THEN OwnedBy(session', s) = 0 /\ HeldDying(s)' = 0
                        ELSE ses[s].refs = OwnedBy(session', s) + Cardinality(ReportsOf(s)')
                                           + HeldDying(s)'
      BY <2>1 DEF Counted
    <3>1. CASE s = h
      BY <1>4, <1>5, <2>4, <3>1
    <3>2. CASE s # h
      BY <1>4, <1>5, <2>4, <3>2
    <3> QED
      BY <3>1, <3>2
  <2>7. Unreferenced(ses)'
    BY <2>1 DEF RefInv, Balance, Unreferenced
  <2>6. Expiring(session, ses)'
    <3> SUFFICES ASSUME NEW c \in Conns, session[c] # None, ses[session[c]].thread = "expired"
                 PROVE  OnItsWay(session[c])'
      BY <1>1, <2>1 DEF Expiring
    <3>1. session[c] \in Sessions /\ OnItsWay(session[c])
      BY <1>2 DEF RefInv, Balance, Expiring
    <3>2. ReportsOf(session[c]) # {}
      BY <1>1, <1>7, <3>1 DEF OnItsWay
    <3>3. CASE session[c] = h
      BY <1>1, <2>1, <3>1, <3>3, NoneIsNoSession DEF OnItsWay
    <3>4. CASE session[c] # h
      BY <1>1, <1>4, <3>2, <3>4 DEF OnItsWay
    <3> QED
      BY <3>3, <3>4
  <2> QED
    BY <1>6, <2>2, <2>3, <2>5, <2>6, <2>7 DEF RefInv, Balance
\* Nothing to remove: the report's reference goes.
<1>8. CASE httpServer # "up"
  <2>1. /\ ses' = [s \in Sessions |-> IF s = h THEN Release(ses[s], "server") ELSE ses[s]]
        /\ UNCHANGED dying
    BY <1>8 DEF TakeReport
  <2> HIDE DEF h
  <2>2. QueueTypes'
    BY <1>1, <1>3, <2>1 DEF QueueTypes
  <2> DEFINE p == Release(ses[h], "server")
  <2>3. ASSUME h \in Sessions
        PROVE  /\ p \in Session /\ p.refs = ses[h].refs - 1 /\ p.thread = ses[h].thread
               /\ p.finalizing # "no" => p.refs = 0
    <3>1. /\ ses[h] \in Session /\ ses[h].refs > 0 /\ ses[h].thread # "late"
      BY <1>2, <1>4, <1>5, <2>3
    <3>2. ses[h].finalizing = "no"
      BY <2>3, <3>1 DEF RefInv, Balance, Unreferenced
    <3>3. /\ p \in Session /\ p.refs = ses[h].refs - 1 /\ p.thread = ses[h].thread
          /\ p.finalizing = IF ses[h].refs = 1 THEN "server" ELSE ses[h].finalizing
      BY <3>1, ReleaseType
    <3> HIDE DEF p
    <3> QED
      BY <3>2, <3>3
  <2>10. \A s \in Sessions : ses'[s] = IF s = h THEN p ELSE ses[s]
    BY <2>1
  <2> HIDE DEF p
  <2>4. StateTypes(cnx, session, ses)'
    <3>1. ses' \in [Sessions -> Session]
      BY <1>2, <2>1, <2>3 DEF p
    <3> QED
      BY <1>1, <3>1 DEF RefInv, Balance, StateTypes
  <2>5. \A s \in Sessions : HeldDying(s)' = 0
    BY <1>1, <2>1 DEF HeldDying
  <2>6. Counted(session, ses)'
    <3> SUFFICES ASSUME NEW s \in Sessions
                 PROVE  IF ses'[s].thread = "late" THEN OwnedBy(session', s) = 0 /\ HeldDying(s)' = 0
                        ELSE ses'[s].refs = OwnedBy(session', s) + Cardinality(ReportsOf(s)')
                                            + HeldDying(s)'
      BY DEF Counted
    <3>1. CASE s = h
      BY <1>4, <1>5, <2>3, <2>5, <2>10, <3>1
    <3>2. CASE s # h
      BY <1>4, <1>5, <2>5, <2>10, <3>2
    <3> QED
      BY <3>1, <3>2
  <2>7. ASSUME NEW c \in Conns, session[c] # None
        PROVE  session[c] \in Sessions /\ ses'[session[c]].thread = ses[session[c]].thread
    BY <1>2, <2>3, <2>7, <2>10
  <2>11. Unreferenced(ses)'
    BY <2>3, <2>10 DEF RefInv, Balance, Unreferenced
  <2>8. Watching(cnx, session, ses)'
    BY <1>1, <2>7 DEF RefInv, Balance, Watching
  <2>9. Expiring(session, ses)'
    BY <1>1, <1>8 DEF Expiring, OnItsWay
  <2> QED
    BY <1>6, <2>2, <2>4, <2>6, <2>8, <2>9, <2>11 DEF RefInv, Balance
<1> QED
  BY <1>7, <1>8

LEMMA RemoveConnectionsKeepsRefs == ASSUME RefInv, RemoveConnections PROVE RefInv'
<1> DEFINE st == AfterClose(Linked)
<1>1. QueueTypes /\ Balance(st.cnx, st.session, st.ses)
  <2>1. Linked \in SUBSET Conns
    BY DEF Linked
  <2> QED
    BY <2>1, CloseBalance DEF RefInv
<1>2. /\ cnx' = st.cnx /\ session' = st.session /\ dying' = {} /\ UNCHANGED <<httpServer, reports>>
      /\ ses' = [s \in Sessions |-> IF Death(s, TRUE) \in dying THEN Release(st.ses[s], "server")
                                    ELSE st.ses[s]]
  BY DEF RemoveConnections, Removed, Becomes, AfterClose
<1>3. \A c \in Conns : session'[c] = None /\ ~cnx'[c].linked
  BY <1>2 DEF AfterClose, SessionAfter, Closed, Linked, RefInv, Balance, OwnersLinked
<1> HIDE DEF st
<1> DEFINE Right(s) == IF st.ses[s].thread = "late"
                        THEN OwnedBy(st.session, s) = 0 /\ HeldDying(s) = 0
                        ELSE st.ses[s].refs = OwnedBy(st.session, s) + Cardinality(ReportsOf(s))
                                              + HeldDying(s)
<1>4. \A s \in Sessions : /\ Cardinality(ReportsOf(s)) \in Nat /\ OwnedBy(session', s) = 0
                          /\ ReportsOf(s)' = ReportsOf(s) /\ HeldDying(s)' = 0
                          /\ st.ses[s] \in Session
                          /\ Right(s)
                          /\ st.ses[s].finalizing # "no"
                                => st.ses[s].thread = "late" \/ st.ses[s].refs = 0
  <2> SUFFICES ASSUME NEW s \in Sessions
               PROVE  /\ Cardinality(ReportsOf(s)) \in Nat /\ OwnedBy(session', s) = 0
                      /\ ReportsOf(s)' = ReportsOf(s) /\ HeldDying(s)' = 0
                      /\ st.ses[s] \in Session
                      /\ Right(s)
                      /\ st.ses[s].finalizing # "no"
                            => st.ses[s].thread = "late" \/ st.ses[s].refs = 0
    OBVIOUS
  <2>1. Cardinality(ReportsOf(s)) \in Nat
    BY <1>1, ReportsFinite
  <2>2. OwnedBy(session', s) = 0
    BY <1>3, NoneIsNoSession DEF OwnedBy
  <2>3. ReportsOf(s)' = ReportsOf(s) /\ HeldDying(s)' = 0
    BY <1>2 DEF ReportsOf, HeldDying
  <2>4. /\ st.ses[s] \in Session
        /\ Right(s)
        /\ st.ses[s].finalizing # "no" => st.ses[s].thread = "late" \/ st.ses[s].refs = 0
    BY <1>1 DEF Balance, StateTypes, Counted, Unreferenced
  <2> QED
    BY <2>1, <2>2, <2>3, <2>4
<1>5. ASSUME NEW s \in Sessions
      PROVE  /\ ses'[s] \in Session
             /\ ses'[s].thread # "late" => ses'[s].refs = Cardinality(ReportsOf(s))
             /\ ses'[s].finalizing # "no" => ses'[s].thread = "late" \/ ses'[s].refs = 0
  <2>1. OwnedBy(st.session, s) = 0
    BY <1>2, <1>4
  <2>2. CASE Death(s, TRUE) \in dying
    <3> DEFINE o == st.ses[s]
               p == Release(o, "server")
    <3>1. HeldDying(s) = 1
      BY <2>2 DEF HeldDying
    <3>2. /\ o \in Session /\ o.thread # "late" /\ o.refs = Cardinality(ReportsOf(s)) + 1
          /\ Cardinality(ReportsOf(s)) \in Nat
      BY <1>4, <2>1, <3>1
    <3>3. o.refs > 0 /\ o.finalizing = "no"
      BY <1>4, <3>2
    <3>4. ses'[s] = p
      BY <1>2, <2>2
    <3> HIDE DEF o
    <3>5. /\ p \in Session /\ p.refs = o.refs - 1 /\ p.thread = o.thread
          /\ p.finalizing = IF o.refs = 1 THEN "server" ELSE o.finalizing
      BY <3>2, <3>3, ReleaseType
    <3> HIDE DEF p
    <3> QED
      BY <3>2, <3>3, <3>4, <3>5
  <2>3. CASE Death(s, TRUE) \notin dying
    <3>1. HeldDying(s) = 0 /\ ses'[s] = st.ses[s]
      BY <1>2, <2>3 DEF HeldDying
    <3> QED
      BY <1>4, <2>1, <3>1
  <2> QED
    BY <2>2, <2>3
<1>6. QueueTypes'
  BY <1>1, <1>2 DEF QueueTypes
<1>7. StateTypes(cnx, session, ses)'
  <2>1. ses' \in [Sessions -> Session]
    BY <1>2, <1>5
  <2> QED
    BY <1>1, <1>2, <2>1 DEF Balance, StateTypes
<1>8. Counted(session, ses)' /\ Unreferenced(ses)'
  BY <1>4, <1>5 DEF Counted, Unreferenced
<1>9. /\ OneOwner(session)' /\ OwnersLinked(cnx, session)' /\ Watching(cnx, session, ses)'
      /\ Expiring(session, ses)'
  BY <1>3 DEF OneOwner, OwnersLinked, Watching, Expiring
<1> QED
  BY <1>6, <1>7, <1>8, <1>9 DEF RefInv, Balance

\* A server that starts finds no session that has expired.
LEMMA StartServersKeepsRefs == ASSUME Inv, RefInv, StartServers PROVE RefInv'
<1>1. Linked = {} /\ UNCHANGED <<cnx, session, ses, reports, dying>>
  BY DEF StartServers, Inv, DownIsEmpty
<1>2. \A s : ReportsOf(s)' = ReportsOf(s) /\ HeldDying(s)' = HeldDying(s)
  BY <1>1 DEF ReportsOf, HeldDying
<1>3. Expiring(session, ses)'
  BY <1>1 DEF RefInv, Balance, OwnersLinked, Linked, Expiring
<1>4. Counted(session, ses)' /\ Unreferenced(ses)'
  BY <1>1, <1>2 DEF RefInv, Balance, Counted, OwnedBy, Unreferenced
<1>5. QueueTypes' /\ Watching(cnx, session, ses)'
  BY <1>1 DEF RefInv, QueueTypes, Balance, Watching
<1>6. (StateTypes(cnx, session, ses) /\ OneOwner(session) /\ OwnersLinked(cnx, session))'
  BY <1>1 DEF RefInv, Balance, StateTypes, OneOwner, OwnersLinked
<1> QED
  BY <1>3, <1>4, <1>5, <1>6 DEF RefInv, Balance
----------------------------------------------------------------------------
LEMMA InitRefInv == Init => RefInv
<1> SUFFICES ASSUME Init PROVE RefInv
  OBVIOUS
<1>1. QueueTypes
  BY DEF Init, QueueTypes
<1>2. /\ Freed \in Session /\ Freed.refs = 0 /\ Freed.thread = "none"
      /\ Freed.finalizing = "no"
  BY FreedType
<1>3. StateTypes(cnx, session, ses)
  BY <1>2 DEF Init, StateTypes, Connection, Closed
<1>4. /\ OneOwner(session) /\ OwnersLinked(cnx, session) /\ Watching(cnx, session, ses)
      /\ Expiring(session, ses)
  BY DEF Init, OneOwner, OwnersLinked, Watching, Expiring, Closed
<1>5. Counted(session, ses)
  <2> SUFFICES ASSUME NEW s \in Sessions
               PROVE  IF ses[s].thread = "late" THEN OwnedBy(session, s) = 0 /\ HeldDying(s) = 0
                      ELSE ses[s].refs = OwnedBy(session, s) + Cardinality(ReportsOf(s)) + HeldDying(s)
    BY DEF Counted
  <2>1. ReportsOf(s) = {} /\ HeldDying(s) = 0 /\ OwnedBy(session, s) = 0 /\ ses[s].refs = 0
    BY <1>2, NoneIsNoSession DEF Init, ReportsOf, HeldDying, OwnedBy
  <2> QED
    BY <2>1, FS_EmptySet
<1>6. Unreferenced(ses)
  BY <1>2 DEF Init, Unreferenced
<1> QED
  BY <1>1, <1>3, <1>4, <1>5, <1>6 DEF RefInv, Balance

LEMMA NextKeepsRefInv == Inv /\ RefInv /\ [Next]_vars => RefInv'
<1> SUFFICES ASSUME Inv, RefInv, [Next]_vars PROVE RefInv'
  OBVIOUS
<1>1. ASSUME NEW c \in Conns, Accept(c) PROVE RefInv'
  BY <1>1, AcceptKeepsRefs
<1>2. ASSUME NEW c \in Conns, Close(c) PROVE RefInv'
  <2>1. {c} \in SUBSET Conns
    OBVIOUS
  <2> QED
    BY <1>2, <2>1, CloseKeepsRefs DEF Close
<1>3. ASSUME NEW c \in Conns, Request(c) PROVE RefInv'
  <2>1. CASE SetupRefused(c)
    BY <2>1, SetupRefusedKeepsRefs
  <2>2. CASE Record(c)
    BY <2>2, RecordKeepsRefs
  <2>3. CASE TearDownAll(c)
    BY <2>3, TearDownAllKeepsRefs
  <2>4. ASSUME NEW R \in SUBSET Streams, SetupDone(c, R) PROVE RefInv'
    BY <2>4, SetupDoneKeepsRefs
  <2>5. ASSUME NEW R \in SUBSET Streams, TearDownStreams(c, R) PROVE RefInv'
    BY <2>5, TearDownStreamsKeepsRefs
  <2>6. ASSUME NEW R \in SUBSET Streams, NEW where \in {"clock", "events", "before", "in", "behind"},
               SetupFails(c, R, where)
        PROVE  RefInv'
    BY <2>6, SetupFailsKeepsRefs
  <2> QED
    BY <1>3, <2>1, <2>2, <2>3, <2>4, <2>5, <2>6 DEF Request
<1>4. ASSUME NEW c \in Conns, InterfaceDown(c) PROVE RefInv'
  <2>1. session[c] \in Sessions \cup {None}
    BY DEF RefInv, Balance, StateTypes
  <2> QED
    BY <1>4, <2>1, UnheldKeepsRefs DEF InterfaceDown
<1>5. ASSUME NEW s \in Sessions, KeepAliveExpires(s) PROVE RefInv'
  BY <1>5, KeepAliveExpiresKeepsRefs
<1>6. ASSUME NEW s \in Sessions, ActivityExpires(s) PROVE RefInv'
  BY <1>6, UnheldKeepsRefs DEF ActivityExpires
<1>7. CASE Disconnect
  BY <1>7, DisconnectKeepsRefs
<1>8. CASE TakeReport
  BY <1>8, TakeReportKeepsRefs
<1>9. CASE RemoveConnections
  BY <1>9, RemoveConnectionsKeepsRefs
<1>10. CASE StopServers \/ UNCHANGED vars
  <2>1. /\ UNCHANGED <<cnx, session, ses, reports, dying>>
        /\ httpServer' = httpServer \/ httpServer' # "up"
    BY <1>10 DEF StopServers, vars
  <2> QED
    BY <2>1, QueuesStay DEF RefInv
<1>11. CASE HTTPServerStop
  <2>1. Linked \in SUBSET Conns /\ httpServer' # "up"
    BY <1>11 DEF Linked, HTTPServerStop
  <2> QED
    BY <1>11, <2>1, CloseKeepsRefs DEF HTTPServerStop
<1>12. CASE StartServers
  BY <1>12, StartServersKeepsRefs
<1>13. ASSUME NEW s \in Sessions, Finalize(s) PROVE RefInv'
  BY <1>13, FinalizeKeepsRefs
<1> QED
  BY <1>1, <1>2, <1>3, <1>4, <1>5, <1>6, <1>7, <1>8, <1>9, <1>10, <1>11, <1>12, <1>13 DEF Next

LEMMA SpecRefInv == Spec => []RefInv
<1>1. Init => RefInv
  BY InitRefInv
<1>2. Inv /\ RefInv /\ [Next]_vars => RefInv'
  BY NextKeepsRefInv
<1> QED
  BY <1>1, <1>2, SpecInv, PTL DEF Spec

\* A session is retained once by its connection, once by every report of its death
\* that waits and once by the one that is handled, and by nothing else, so that it is
\* neither finalized under one of them nor leaked: with the one exception that the code
\* has.  A keep-alive thread that times out in _Finalize, before that joins it, retains
\* what is freed all the same; of such a session the theorem says only that no
\* connection has it (_HandleHTTPConnectionClose, _IdleStateKeepAliveThread,
\* _IdleStateSessionDied).
THEOREM SessionsRetainedExactly == Spec => []RefsBalanced
<1>1. RefInv => RefsBalanced
  <2> SUFFICES ASSUME RefInv, NEW s \in Sessions
               PROVE  IF ses[s].thread = "late" THEN \A c \in Conns : session[c] # s
                      ELSE ses[s].refs = Cardinality({c \in Conns : session[c] = s})
                                         + Cardinality({i \in DOMAIN reports : reports[i] = s})
                                         + Cardinality({d \in dying : d = Death(s, TRUE)})
    BY DEF RefsBalanced
  <2>1. Cardinality({c \in Conns : session[c] = s}) = OwnedBy(session, s)
    <3>1. CASE \E c \in Conns : session[c] = s
      <4>1. PICK c \in Conns : session[c] = s
        BY <3>1
      <4>2. {d \in Conns : session[d] = s} = {c}
        BY <4>1, NoneIsNoSession DEF RefInv, Balance, OneOwner
      <4> QED
        BY <3>1, <4>2, FS_Singleton DEF OwnedBy
    <3>2. CASE ~ \E c \in Conns : session[c] = s
      <4>1. {d \in Conns : session[d] = s} = {}
        BY <3>2
      <4> QED
        BY <3>2, <4>1, FS_EmptySet DEF OwnedBy
    <3> QED
      BY <3>1, <3>2
  <2>2. Cardinality({d \in dying : d = Death(s, TRUE)}) = HeldDying(s)
    <3>1. CASE Death(s, TRUE) \in dying
      <4>1. {d \in dying : d = Death(s, TRUE)} = {Death(s, TRUE)}
        BY <3>1
      <4> QED
        BY <3>1, <4>1, FS_Singleton DEF HeldDying
    <3>2. CASE Death(s, TRUE) \notin dying
      <4>1. {d \in dying : d = Death(s, TRUE)} = {}
        BY <3>2
      <4> QED
        BY <3>2, <4>1, FS_EmptySet DEF HeldDying
    <3> QED
      BY <3>1, <3>2
  <2>3. IF ses[s].thread = "late" THEN OwnedBy(session, s) = 0 /\ HeldDying(s) = 0
        ELSE ses[s].refs = OwnedBy(session, s) + Cardinality(ReportsOf(s)) + HeldDying(s)
    BY DEF RefInv, Balance, Counted
  <2>4. CASE ses[s].thread = "late"
    BY <2>3, <2>4 DEF OwnedBy
  <2>5. CASE ses[s].thread # "late"
    BY <2>1, <2>2, <2>3, <2>5 DEF ReportsOf
  <2> QED
    BY <2>4, <2>5
<1> QED
  BY <1>1, SpecRefInv, PTL

\* The device of a connection that has announced is watched: if TCP keep-alive does
\* not probe it, the keep-alive thread of its session runs, or has expired and its
\* report is still on the way, unless the server stops (_ControlIdleStateTransition,
\* _IdleStateKeepAliveThread).  Exempt are the connections marked "again": one that goes
\* on behind a TEARDOWN of everything while TCP keep-alive was off keeps it off, and its
\* next session may be set up without that any keep-alive thread is started.
THEOREM DeviceIsWatched == Spec => []Monitored
<1>1. Inv /\ RefInv => Monitored
  <2> SUFFICES ASSUME Inv, RefInv, NEW c \in Announced, ~cnx[c].tcpKeepAlive, ~cnx[c].again,
                      ses[session[c]].thread # "running"
               PROVE  reports # <<>> \/ dying # {} \/ httpServer # "up"
    BY DEF Monitored
  <2>1. c \in Conns /\ cnx[c].linked
    BY DEF Announced, Linked
  <2>2. session[c] # None /\ ses[session[c]].thread # "none"
    BY <2>1 DEF RefInv, Balance, Watching
  <2>3. ses[session[c]] \in Session
    BY <2>1, <2>2 DEF RefInv, Balance, StateTypes
  <2>4. ses[session[c]].thread # "late"
    <3>1. session[c] \in Sessions /\ OwnedBy(session, session[c]) = 1
      BY <2>1, <2>2 DEF RefInv, Balance, StateTypes, OwnedBy
    <3> QED
      BY <3>1 DEF RefInv, Balance, Counted
  <2>5. ses[session[c]].thread = "expired"
    BY <2>2, <2>3, <2>4 DEF Session
  <2>6. OnItsWay(session[c])
    BY <2>1, <2>2, <2>5 DEF RefInv, Balance, Expiring
  <2>7. ReportsOf(session[c]) # {} => reports # <<>>
    BY DEF ReportsOf
  <2> QED
    BY <2>6, <2>7 DEF OnItsWay
<1> QED
  BY <1>1, SpecInv, SpecRefInv, PTL
=============================================================================
