---------------------------- MODULE DispatchSource ----------------------------
(***************************************************************************)
(* The event sources of DispatchLite.c in the build that uses select().    *)
(* A thread of the pool, the select thread, holds the list of armed read   *)
(* and write sources and the list of timers.  Nobody else touches the      *)
(* lists: the owners of sources send it commands through a UDP socket that *)
(* is connected to itself, which keeps their order.  What fires is run on  *)
(* the queue of the source, a serial queue (module DispatchQueue shows     *)
(* what that promises), and a read or write source is armed again when its *)
(* handler has returned.                                                   *)
(*                                                                         *)
(* All sources are on one queue and the read and write sources are for one *)
(* socket, as for each HTTP connection of the program; the owner closes    *)
(* the socket when the cancel handlers of all of them have run.  An owner  *)
(* may call from its handler or from any other thread, so its calls are    *)
(* free to happen at any time while it holds its reference.                *)
(***************************************************************************)
EXTENDS Naturals, Sequences, FiniteSets, SequencesExt, Sublists

CONSTANTS Sockets,  \* read and write sources, all of one socket
          Timers,   \* timer sources
          MaxCalls  \* bound: calls of suspend, resume and set_timer, of all sources

ASSUME SourcesAssumption == Sockets \intersect Timers = {} /\ IsFiniteSet(Timers)
ASSUME CallsAssumption == MaxCalls \in Nat

Sources == Sockets \union Timers

VARIABLES
  suspends,  \* per source, suspendCount
  canceled,  \* per source
  held,      \* per source, the owner holds its reference
  freed,     \* per source, __dispatch_source_free has run
  closing,   \* per source, dispatch_source_cancel has not queued the handler yet
  closed,    \* per source, its cancel handler has run
  commands,  \* the datagrams in the command socket
  list,      \* gDispatchSelect_ReadWriteList
  timers,    \* gDispatchSelect_TimerList, whose order follows the clock
  watch,     \* the descriptors in the sets given to select(), then those it returned
  spc,       \* where the select thread is
  pending,   \* per timer, its event is queued
  queue,     \* the items of the queue of the sources
  now,       \* the item that the queue runs, and how far it is
  ready,     \* per read or write source, its socket is ready
  calls      \* the calls left

vars == <<suspends, canceled, held, freed, closing, closed, commands, list, timers,
          watch, spc, pending, queue, now, ready, calls>>
owner == <<held, closing, calls>>
thread == <<list, timers, watch, spc>>

Idle == [kind |-> "none", at |-> "none"]
Command == [cmd : {"arm", "disarm", "free"}, source : Sources]
Item == [kind : {"event", "tick", "cancel", "free"}, source : Sources]
Now == {Idle} \union [kind : {"event", "tick"}, source : Sources, at : {"handler", "rearm"}]

TypeOK == /\ suspends \in [Sources -> 0 .. 1]
          /\ canceled \in [Sources -> BOOLEAN]
          /\ held \in [Sources -> BOOLEAN]
          /\ freed \in [Sources -> BOOLEAN]
          /\ closing \in [Sources -> BOOLEAN]
          /\ closed \in [Sources -> BOOLEAN]
          /\ commands \in Seq(Command)
          /\ list \in Seq(Sockets)
          /\ timers \subseteq Timers
          /\ watch \subseteq Sockets
          /\ spc \in {"build", "select", "fire", "failed"}
          /\ pending \in [Timers -> BOOLEAN]
          /\ queue \in Seq(Item)
          /\ now \in Now
          /\ ready \in [Sockets -> BOOLEAN]
          /\ calls \in 0 .. MaxCalls

\* The sources are created: suspended, and not known to the select thread.
Init == /\ suspends = [s \in Sources |-> 1]
        /\ canceled = [s \in Sources |-> FALSE]
        /\ held = [s \in Sources |-> TRUE]
        /\ freed = [s \in Sources |-> FALSE]
        /\ closing = [s \in Sources |-> FALSE]
        /\ closed = [s \in Sources |-> FALSE]
        /\ commands = <<>>
        /\ list = <<>>
        /\ timers = {}
        /\ watch = {}
        /\ spc = "build"
        /\ pending = [t \in Timers |-> FALSE]
        /\ queue = <<>>
        /\ now = Idle
        /\ ready = [s \in Sockets |-> FALSE]
        /\ calls = MaxCalls

Active(s) == suspends[s] = 0 /\ ~canceled[s]
SocketOpen == Sockets = {} \/ \E s \in Sockets : ~closed[s]

-------------------------------------------------------------------------------
(* The owner's calls.  Each holds the lock of the queue and sends at most   *)
(* one command.                                                             *)

Send(c, s) == commands' = Append(commands, [cmd |-> c, source |-> s])
Call(s) == /\ held[s] /\ ~closing[s]
           /\ calls > 0
           /\ calls' = calls - 1

\* __dispatch_source_suspend; the owners never suspend a source twice, nor a timer.
Suspend(s) == /\ s \in Sockets /\ Call(s) /\ suspends[s] = 0
              /\ suspends' = [suspends EXCEPT ![s] = 1]
              /\ Send("disarm", s)
              /\ UNCHANGED <<canceled, held, freed, closing, closed, thread, pending, queue, now, ready>>

\* __dispatch_source_resume.
Resume(s) == /\ Call(s) /\ suspends[s] = 1
             /\ suspends' = [suspends EXCEPT ![s] = 0]
             /\ IF canceled[s] THEN UNCHANGED commands ELSE Send("arm", s)
             /\ UNCHANGED <<canceled, held, freed, closing, closed, thread, pending, queue, now, ready>>

\* dispatch_source_set_timer of a timer that runs (else it only notes the time).
SetTimer(t) == /\ t \in Timers /\ Call(t) /\ Active(t)
               /\ Send("arm", t)
               /\ UNCHANGED <<suspends, canceled, held, freed, closing, closed, thread, pending, queue, now, ready>>

\* dispatch_source_cancel, up to the end of the lock; a second call returns early.
Cancel(s) == /\ held[s] /\ ~canceled[s]
             /\ canceled' = [canceled EXCEPT ![s] = TRUE]
             /\ closing' = [closing EXCEPT ![s] = TRUE]
             /\ Send("disarm", s)
             /\ UNCHANGED <<suspends, held, freed, closed, thread, pending, queue, now, ready, calls>>

\* ... and then it queues the cancel handler.
QueueCancel(s) == /\ closing[s]
                  /\ closing' = [closing EXCEPT ![s] = FALSE]
                  /\ queue' = Append(queue, [kind |-> "cancel", source |-> s])
                  /\ UNCHANGED <<suspends, canceled, held, freed, closed, commands, thread, pending,
                                 now, ready, calls>>

\* The owner's dispatch_release: __LibDispatch_PlatformFreeSource.  The owners
\* cancel a source before they release it.
Release(s) == /\ held[s] /\ canceled[s] /\ ~closing[s]
              /\ held' = [held EXCEPT ![s] = FALSE]
              /\ canceled' = [canceled EXCEPT ![s] = TRUE]
              /\ Send("free", s)
              /\ UNCHANGED <<suspends, freed, closing, closed, thread, pending, queue, now, ready, calls>>

-------------------------------------------------------------------------------
(* The select thread, __LibDispatch_SelectDrain. *)

\* It collects the descriptors and calls select().
Build == /\ spc = "build"
         /\ watch' = {s \in ToSet(list) : ~canceled[s]}
         /\ spc' = "select"
         /\ UNCHANGED <<suspends, canceled, freed, closed, commands, list, timers, pending, queue,
                        now, ready, owner>>

\* select() refuses a descriptor that was closed after it was collected.  (One that
\* is closed while select() already waits does it no harm.)
SelectFails == /\ spc = "select" /\ watch # {} /\ ~SocketOpen
               /\ spc' = "failed"
               /\ UNCHANGED <<suspends, canceled, freed, closed, commands, list, timers, watch, pending,
                              queue, now, ready, owner>>

Rebuild == spc' = "build" /\ watch' = {}
Ready == {s \in watch : ready[s]}
EventsFor(fired) == [i \in DOMAIN fired |-> [kind |-> "event", source |-> fired[i]]]
TicksFor(due) == [i \in 1 .. Cardinality(due) |-> [kind |-> "tick", source |-> SetToSeq(due)[i]]]

\* Timers that expire: one event at a time; they stay in their list.
Expire(due, before) ==
  LET first == {t \in due : ~pending[t]}
  IN /\ queue' = before \o TicksFor(first)
     /\ pending' = [t \in Timers |-> pending[t] \/ t \in first]

\* __LibDispatch_SelectHandleCommand.
Inserted(s) == IF s \in ToSet(list) THEN list ELSE Append(list, s)
Without(s) == Sublist(list, {i \in DOMAIN list : list[i] # s})

\* The free follows the events of the source that are queued already.
\* Mutant: only a source that is in a list is freed.
FreeListed(s) == IF s \in ToSet(list) \union timers
                 THEN Append(queue, [kind |-> "free", source |-> s]) ELSE queue
FreeBehindEvents(s) == Append(queue, [kind |-> "free", source |-> s])

Handle(c, s, due) ==
  \/ /\ c = "arm" /\ s \in Sockets
     /\ list' = Inserted(s)
     /\ UNCHANGED timers
     /\ Expire(due, queue)
  \/ /\ c = "arm" /\ s \in Timers
     /\ timers' = timers \union {s}
     /\ UNCHANGED list
     /\ Expire(due, queue)
  \/ /\ c = "disarm"
     /\ list' = Without(s)
     /\ timers' = timers \ {s}
     /\ Expire(due, queue)
  \/ /\ c = "free"
     /\ list' = Without(s)
     /\ timers' = timers \ {s}
     /\ Expire(due, FreeBehindEvents(s))

\* A command is readable: one is handled, the other descriptors wait for the
\* next round, and the timers that are due then expire.
HandleCommand(due) ==
  /\ spc = "select" /\ commands # <<>>
  /\ LET c == Head(commands) IN Handle(c.cmd, c.source, due)
  /\ due \subseteq timers'
  /\ commands' = Tail(commands)
  /\ Rebuild
  /\ UNCHANGED <<suspends, canceled, freed, closed, now, ready, owner>>

\* select() returns with the descriptors that are ready, or at the time of the first
\* timer.  What happens from here on is not in its answer.
Wakes == /\ spc = "select" /\ commands = <<>>
         /\ Ready # {} \/ timers # {}
         /\ watch' = Ready
         /\ spc' = "fire"
         /\ UNCHANGED <<suspends, canceled, freed, closed, commands, list, timers, pending, queue,
                        now, ready, owner>>

\* What is ready leaves the list.
Fire(due) ==
  /\ spc = "fire"
  /\ watch # {} \/ due # {}
  /\ due \subseteq timers
  /\ list' = Sublist(list, {i \in DOMAIN list : list[i] \notin watch})
  /\ Expire(due, queue \o EventsFor(Sublist(list, {i \in DOMAIN list : list[i] \in watch})))
  /\ Rebuild
  /\ UNCHANGED <<suspends, canceled, freed, closed, commands, timers, now, ready, owner>>

\* select() failed: the thread sleeps for a second.
Recover(due) ==
  /\ spc = "failed" /\ due \subseteq timers
  /\ Expire(due, queue)
  /\ Rebuild
  /\ UNCHANGED <<suspends, canceled, freed, closed, commands, list, timers, now, ready, owner>>

SelectRound(due) == HandleCommand(due) \/ Fire(due) \/ Recover(due)

-------------------------------------------------------------------------------
(* The queue of the sources. *)

\* __LibDispatch_SelectHandleReadWriteEvent and ...TimerEvent, up to the handler.
\* Mutant: a cancelled source is still handled.
HandlerStartsResumed(s) == suspends[s] = 0
HandlerStarts(s) == Active(s)

RunEvent == /\ now = Idle /\ queue # <<>>
            /\ Head(queue).kind \in {"event", "tick"}
            /\ LET e == Head(queue) IN
               /\ pending' = [t \in Timers |-> pending[t] /\ ~(e.kind = "tick" /\ t = e.source)]
               /\ now' = IF HandlerStarts(e.source)
                         THEN [kind |-> e.kind, source |-> e.source, at |-> "handler"] ELSE Idle
            /\ queue' = Tail(queue)
            /\ UNCHANGED <<suspends, canceled, freed, closed, commands, thread, ready, owner>>

\* The handler returns; it has read or written what there was, or not.
HandlerReturns == /\ now.at = "handler"
                  /\ now' = IF now.kind = "event" THEN [now EXCEPT !.at = "rearm"] ELSE Idle
                  /\ \/ UNCHANGED ready
                     \/ now.kind = "event" /\ ready' = [ready EXCEPT ![now.source] = FALSE]
                  /\ UNCHANGED <<suspends, canceled, freed, closed, commands, thread, pending, queue, owner>>

\* Mutants: the source is armed whatever its handler did; only if no command waits.
RearmsAlways(s) == TRUE
RearmsUnlessPending(s) == Active(s) /\ commands = <<>>
Rearms(s) == Active(s)
Rearm == /\ now.at = "rearm"
         /\ IF Rearms(now.source) THEN Send("arm", now.source) ELSE UNCHANGED commands
         /\ now' = Idle
         /\ UNCHANGED <<suspends, canceled, freed, closed, thread, pending, queue, ready, owner>>

RunCancel == /\ now = Idle /\ queue # <<>> /\ Head(queue).kind = "cancel"
             /\ closed' = [closed EXCEPT ![Head(queue).source] = TRUE]
             /\ queue' = Tail(queue)
             /\ UNCHANGED <<suspends, canceled, freed, commands, thread, pending, now, ready, owner>>

\* __dispatch_source_free.
RunFree == /\ now = Idle /\ queue # <<>> /\ Head(queue).kind = "free"
           /\ freed' = [freed EXCEPT ![Head(queue).source] = TRUE]
           /\ queue' = Tail(queue)
           /\ UNCHANGED <<suspends, canceled, closed, commands, thread, pending, now, ready, owner>>

QueueStep == RunEvent \/ HandlerReturns \/ Rearm \/ RunCancel \/ RunFree

\* Data arrives, or the socket can take more.
BecomeReady(s) == /\ s \in Sockets /\ ~ready[s] /\ SocketOpen
                  /\ ready' = [ready EXCEPT ![s] = TRUE]
                  /\ UNCHANGED <<suspends, canceled, freed, closed, commands, thread, pending, queue,
                                 now, owner>>

-------------------------------------------------------------------------------
OwnerStep(s) == \/ Suspend(s) \/ Resume(s) \/ SetTimer(s)
                \/ Cancel(s) \/ QueueCancel(s) \/ Release(s)

Next == \/ \E s \in Sources : OwnerStep(s) \/ BecomeReady(s)
        \/ Build \/ SelectFails \/ Wakes
        \/ \E due \in SUBSET Timers : SelectRound(due)
        \/ QueueStep

\* The threads run and handlers return; a call that has begun ends; time passes,
\* so a timer that stays in the list is due in the end.
Fairness == /\ WF_vars(Build \/ Wakes)
            /\ WF_vars(\E due \in SUBSET Timers : SelectRound(due))
            /\ \A t \in Timers : SF_vars(\E due \in SUBSET Timers : t \in due /\ SelectRound(due))
            /\ WF_vars(QueueStep)
            /\ \A s \in Sources : WF_vars(QueueCancel(s))

Spec == Init /\ [][Next]_vars /\ Fairness

-------------------------------------------------------------------------------
\* A freed source is in no list, command or queue and its handler does not run:
\* nothing holds a reference for any of them, only the order of the commands and
\* of the queue keeps the source alive.
NoUseAfterFree == \A s \in Sources : freed[s] =>
                    /\ s \notin ToSet(list) \union timers
                    /\ \A i \in DOMAIN commands : commands[i].source # s
                    /\ \A i \in DOMAIN queue : queue[i].source # s
                    /\ now # Idle => now.source # s

\* A handler that reads or writes finds the socket open, although the cancel
\* handlers that close it are queued by another thread.
SocketOpenInHandler == now.kind = "event" => SocketOpen

\* No readiness is lost: a source that stays resumed and ready gets its handler
\* called, whatever was suspended, resumed and armed again in between, and a timer
\* that stays armed ticks.
Due(s) == Active(s) /\ (s \in Sockets => ready[s])
Handling(s) == now # Idle /\ now.source = s
Served == \A s \in Sources : Due(s) ~> (~Due(s) \/ Handling(s))

\* A source that its owner has released is freed in the end, armed or not.
ReleasedIsFreed == \A s \in Sources : ~held[s] ~> freed[s]

\* dlogassert "select() error": select() is never given a closed descriptor.
\* It does not hold.
NoSelectError == spc # "failed"
===============================================================================
