----------------------------- MODULE EventChannel -----------------------------
(***************************************************************************)
(* The event channel of a session: commands that the accessory sends to    *)
(* the controller through an HTTP client, the count and the timer of those *)
(* without a reply, and the tear-down of the session by its connection.    *)
(*                                                                         *)
(* Threads: callers of SendCommand; the HTTP server's queue, which tears   *)
(* the session down and releases it; and the serial event queue, on which  *)
(* everything here that touches the client, the count or the timer runs, a *)
(* task at a time.                                                         *)
(***************************************************************************)
EXTENDS Naturals, Sequences, SequencesExt, FiniteSets

CONSTANTS
    Commands,    \* commands sent with a completion function
    Notices      \* commands sent without one

ASSUME CommandSets == IsFiniteSet(Commands) /\ IsFiniteSet(Notices) /\ Commands \cap Notices = {}

All == Commands \cup Notices
Outcome == {"response", "request", "empty", "error"}

VARIABLES
    conn,        \* the connection's tear-down: what its queue does next
    caller,      \* the thread that calls SendCommand, for each command
    tasks,       \* tasks dispatched to eventQueue, oldest first
    running,     \* eventQueue: "idle"; in _HTTPClientErrorHandler; or stuck
    refs,        \* the session's retain count
    final,       \* _Finalize: not called, in its dispatch_sync's, done
    eventClient, \* TRUE: not NULL
    http,        \* state of the HTTP client behind it
    messageList,
    eventReplyTimer,
    eventPendingMessageCount,
    accepted,    \* commands SendCommand returned kNoErr for, in order
    completed    \* calls of completion functions, in order

sessionVars == <<conn, refs, final>>
timerVars == <<eventReplyTimer, eventPendingMessageCount>>
httpVars == <<http, messageList>>
logVars == <<accepted, completed>>
vars == <<sessionVars, timerVars, httpVars, logVars, caller, tasks, running, eventClient>>

Init ==
    /\ conn = "new" /\ caller = [c \in All |-> "new"] /\ tasks = <<>> /\ running = "idle"
    /\ refs = 1 /\ final = "no"
    /\ eventClient = FALSE /\ http = "none" /\ messageList = <<>>
    /\ eventReplyTimer = "off" /\ eventPendingMessageCount = 0
    /\ accepted = <<>> /\ completed = <<>>

----------------------------------------------------------------------------
(* The connection and the callers *)

\* _ControlStart and the end of AirPlayReceiverSessionStart: sessionStarted.
Start ==
    /\ conn = "new"
    /\ conn' = "open" /\ eventClient' = TRUE /\ http' = "idle"
    /\ UNCHANGED <<refs, final, timerVars, messageList, logVars, caller, tasks, running>>

\* AirPlayReceiverSessionSendCommand up to the wait of its dispatch_sync; the
\* caller holds the session while it waits.
SendCommand(c) ==
    /\ conn # "new" /\ refs > 0 /\ caller[c] = "new"
    /\ caller' = [caller EXCEPT ![c] = "waiting"]
    /\ refs' = refs + 1
    /\ tasks' = Append(tasks, <<"send", c>>)
    /\ UNCHANGED <<conn, final, timerVars, httpVars, logVars, running, eventClient>>

\* Mutant: the reference is not given up.
ReleaseNothing == UNCHANGED <<refs, final, tasks>>

\* A thread other than eventQueue's gives up a reference: the last one calls
\* _Finalize, which waits for eventQueue.
ReleaseElsewhere ==
    /\ refs' = refs - 1
    /\ IF refs = 1 THEN final' = "sync" /\ tasks' = Append(tasks, <<"finalSync">>)
       ELSE UNCHANGED <<final, tasks>>

SendCommandReturns(c) ==
    /\ caller[c] = "signalled"
    /\ caller' = [caller EXCEPT ![c] = "returned"]
    /\ ReleaseElsewhere
    /\ UNCHANGED <<conn, timerVars, httpVars, logVars, running, eventClient>>

\* Mutant: the client is kept until no command waits for a reply.
TearDownWaits ==
    \/ /\ conn \in {"new", "open"}
       /\ conn' = "timer" /\ tasks' = Append(tasks, <<"forgetTimer">>)
       /\ UNCHANGED <<refs, final>>
    \/ /\ conn = "timerDone" /\ eventPendingMessageCount = 0
       /\ conn' = "client" /\ tasks' = Append(tasks, <<"forgetClient">>)
       /\ UNCHANGED <<refs, final>>
    \/ /\ conn = "clientDone"
       /\ conn' = "released" /\ ReleaseElsewhere

\* _HandleHTTPConnectionClose, and in it AirPlayReceiverSessionTearDown: the timer,
\* the client, each with a dispatch_sync, and the connection's reference.
TearDown ==
    \/ /\ conn \in {"new", "open"}
       /\ conn' = "timer" /\ tasks' = Append(tasks, <<"forgetTimer">>)
       /\ UNCHANGED <<refs, final>>
    \/ /\ conn = "timerDone"
       /\ conn' = "client" /\ tasks' = Append(tasks, <<"forgetClient">>)
       /\ UNCHANGED <<refs, final>>
    \/ /\ conn = "clientDone"
       /\ conn' = "released" /\ ReleaseElsewhere
TearDownStep ==
    /\ TearDown
    /\ UNCHANGED <<timerVars, httpVars, logVars, caller, running, eventClient>>
----------------------------------------------------------------------------
(* Tasks of eventQueue *)

Task(op) == running = "idle" /\ tasks # <<>> /\ Head(tasks)[1] = op

\* __dispatch_sync_callback: the caller is woken whatever became of its task.
Signal(c) == [caller EXCEPT ![c] = "signalled"]

\* _AirPlayReceiverSessionSendCommand
RunSend ==
    LET c == Head(tasks)[2] IN
    /\ Task("send")
    /\ caller' = Signal(c)
    /\ IF ~eventClient \/ eventReplyTimer = "gone"
       THEN tasks' = Tail(tasks) /\ UNCHANGED <<refs, timerVars, accepted>>
       ELSE /\ tasks' = Append(Tail(tasks), <<"http", c>>)
            /\ IF c \in Notices THEN UNCHANGED <<refs, timerVars, accepted>>
               ELSE /\ refs' = refs + 1
                    /\ accepted' = Append(accepted, c)
                    /\ eventPendingMessageCount' = eventPendingMessageCount + 1
                    /\ eventReplyTimer' = IF eventPendingMessageCount = 0 THEN "armed"
                                          ELSE eventReplyTimer
    /\ UNCHANGED <<conn, final, httpVars, completed, running, eventClient>>

\* Mutant: the newest message is first.
ListedFirst(c) == <<c>> \o messageList

Listed(c) == Append(messageList, c)

\* _HTTPClientSendMessage: the client writes it, or it is an error to run it.
RunHTTPSend ==
    /\ Task("http")
    /\ tasks' = Tail(tasks)
    /\ messageList' = Listed(Head(tasks)[2])
    /\ http' = IF http = "idle" THEN "writing" ELSE http
    /\ running' = IF http = "error" THEN "failing" ELSE "idle"
    /\ UNCHANGED <<sessionVars, timerVars, logVars, caller, eventClient>>

\* _ForgetReplyTimer
RunForgetTimer ==
    /\ Task("forgetTimer")
    /\ tasks' = Tail(tasks) /\ conn' = "timerDone"
    /\ eventReplyTimer' = "gone"
    /\ UNCHANGED <<refs, final, eventPendingMessageCount, httpVars, logVars, caller, running,
                   eventClient>>

\* Mutant: the client is released but not invalidated.
ForgetClientOnly ==
    /\ Task("forgetClient")
    /\ tasks' = Tail(tasks)
    /\ conn' = "clientDone" /\ eventClient' = FALSE
    /\ UNCHANGED <<refs, final, timerVars, httpVars, logVars, caller, running>>

\* _ForgetEventClient: HTTPClientForget dispatches _HTTPClientInvalidate.
RunForgetClient ==
    /\ Task("forgetClient")
    /\ tasks' = IF eventClient THEN Append(Tail(tasks), <<"invalidate">>) ELSE Tail(tasks)
    /\ conn' = "clientDone" /\ eventClient' = FALSE
    /\ UNCHANGED <<refs, final, timerVars, httpVars, logVars, caller, running>>

\* _HTTPClientInvalidate
RunInvalidate ==
    /\ Task("invalidate")
    /\ tasks' = Tail(tasks)
    /\ http' = "error" /\ running' = "failing"
    /\ UNCHANGED <<sessionVars, timerVars, messageList, logVars, caller, eventClient>>

\* The dispatch_sync's of _Finalize; behind them it joins the keep-alive thread.
RunFinalSync ==
    /\ Task("finalSync")
    /\ tasks' = Tail(tasks) /\ final' = "done"
    /\ UNCHANGED <<conn, refs, timerVars, httpVars, logVars, caller, running, eventClient>>

\* eventReplyTimer fires (once), and the callback tries to wake the device.
TimerFires ==
    /\ running = "idle" /\ eventReplyTimer = "armed"
    /\ eventReplyTimer' = "fired"
    /\ UNCHANGED <<sessionVars, eventPendingMessageCount, httpVars, logVars, caller, tasks,
                   running, eventClient>>
----------------------------------------------------------------------------
(* The HTTP client's socket, and completions *)

\* The timer once the count has gone down: set again, or set to never.
TimerAfter == IF eventPendingMessageCount > 1 THEN "armed" ELSE "off"

\* What the completion function is told: without the timer an error; else what
\* is in the message's body, whatever its status.
Told(body) == IF eventReplyTimer = "gone" THEN "error" ELSE body

\* Mutant: a late completion is not counted either way.
CountUnderTimer == eventPendingMessageCount

CountAfter ==
    IF eventReplyTimer = "gone" THEN eventPendingMessageCount ELSE eventPendingMessageCount - 1

\* _HTTPClientCompleteMessage for the first message, and in it
\* _AirPlayReceiverSessionSendCommandCompletion, which releases the session:
\* _Finalize would wait for the queue it runs on.
CompleteFirst(body, next) ==
    LET c == Head(messageList) IN
    /\ messageList' = Tail(messageList)
    /\ IF c \in Notices THEN running' = next /\ UNCHANGED <<refs, timerVars, completed>>
       ELSE /\ completed' = Append(completed, [cmd |-> c, told |-> Told(body)])
            /\ eventPendingMessageCount' = CountAfter
            /\ eventReplyTimer' = IF eventReplyTimer = "gone" THEN "gone" ELSE TimerAfter
            /\ refs' = refs - 1
            /\ running' = IF refs = 1 THEN "stuck" ELSE next
    /\ UNCHANGED <<conn, final, accepted, caller, tasks, eventClient>>

\* The request has been written; HTTPMessageReset forgets its body.
WriteDone ==
    /\ running = "idle" /\ http = "writing"
    /\ http' = "reading"
    /\ UNCHANGED <<sessionVars, timerVars, messageList, logVars, caller, tasks, running,
                   eventClient>>

\* The device answers, with or without a body.
Answered ==
    /\ running = "idle" /\ http = "reading"
    /\ http' = IF Len(messageList) > 1 THEN "writing" ELSE "idle"
    /\ \E body \in {"response", "empty"} : CompleteFirst(body, "idle")

\* The connection to the device breaks.
Breaks ==
    /\ running = "idle" /\ http \in {"writing", "reading"}
    /\ http' = "error"
    /\ CompleteFirst(IF http = "writing" THEN "request" ELSE "empty", "failing")

\* _HTTPClientErrorHandler completes a message.  It has not been written, or else
\* the client was invalidated, and then the timer is gone and nobody looks.
FailNext ==
    /\ running = "failing" /\ messageList # <<>>
    /\ UNCHANGED http
    /\ CompleteFirst("request", "failing")
FailDone ==
    /\ running = "failing" /\ messageList = <<>>
    /\ running' = "idle"
    /\ UNCHANGED <<sessionVars, timerVars, httpVars, logVars, caller, tasks, eventClient>>

QueueRuns ==
    \/ RunSend \/ RunHTTPSend \/ RunForgetTimer \/ RunForgetClient \/ RunInvalidate
    \/ RunFinalSync \/ FailNext \/ FailDone

Next ==
    \/ Start \/ TearDownStep
    \/ \E c \in All : SendCommand(c) \/ SendCommandReturns(c)
    \/ QueueRuns
    \/ TimerFires \/ WriteDone \/ Answered \/ Breaks

\* Queues run what they are given and threads go on; devices may never answer.
Fairness ==
    /\ WF_vars(QueueRuns)
    /\ WF_vars(conn \notin {"new", "open"} /\ TearDownStep)
    /\ \A c \in All : WF_vars(SendCommandReturns(c))

Spec == Init /\ [][Next]_vars /\ Fairness
----------------------------------------------------------------------------
(* Properties *)

Unanswered == Len(accepted) - Len(completed)
TypeOK ==
    /\ conn \in {"new", "open", "timer", "timerDone", "client", "clientDone", "released"}
    /\ caller \in [All -> {"new", "waiting", "signalled", "returned"}]
    /\ running \in {"idle", "failing", "stuck"}
    /\ refs \in Nat /\ final \in {"no", "sync", "done"}
    /\ eventClient \in BOOLEAN /\ http \in {"none", "idle", "writing", "reading", "error"}
    /\ messageList \in Seq(All)
    /\ eventReplyTimer \in {"off", "armed", "fired", "gone"}
    /\ eventPendingMessageCount \in Nat
    /\ accepted \in Seq(Commands) /\ completed \in Seq([cmd : Commands, told : Outcome])

\* Every accepted command is completed at most once, and in the order in which
\* they were accepted, whatever breaks or is torn down on the way.
CompletedInOrder ==
    /\ Len(completed) <= Len(accepted)
    /\ \A i \in 1 .. Len(completed) : completed[i].cmd = accepted[i]

\* Until the timer is gone the count is that of the commands without a reply; and
\* as long as a command waits the device will be or has been woken, and never when
\* none waits.
PendingIsUnanswered ==
    eventReplyTimer # "gone" =>
        /\ eventPendingMessageCount = Unanswered
        /\ (eventReplyTimer = "off") = (Unanswered = 0)

\* A reference for the connection, each call in progress and each command that
\* waits: the session is not finalized under any of them, and not kept by none.
RefsBalanced ==
    refs = (IF conn = "released" THEN 0 ELSE 1)
           + Cardinality({c \in All : caller[c] \in {"waiting", "signalled"}}) + Unanswered

\* Nobody waits for the event queue for ever, although they wait for one another: a
\* SendCommand returns, and a connection that is closed is rid of its session.
WaitsEnd ==
    /\ \A c \in All : caller[c] = "waiting" ~> caller[c] = "returned"
    /\ conn = "timer" ~> conn = "released"

\* Once the client is forgotten, every command that was accepted is completed.
CancelledCompletes == (conn = "clientDone") ~> (Unanswered = 0)

\* A completion function is called with the response of the controller, and not
\* without one.  It does not hold.
ToldTheResponse ==
    \A i \in 1 .. Len(completed) : completed[i].told # "request"

\* No thread waits in dispatch_sync for the queue it is running on.  It does not hold.
NoSelfSync == running # "stuck"
=============================================================================
