----------------------------- MODULE SerialQueues -----------------------------
(***************************************************************************)
(* What the dispatch queues promise to the code that uses them: the tasks  *)
(* of a queue start in the order they were submitted, a serial queue runs  *)
(* one of them at a time, and every submitted task is started and ends.    *)
(* Threads, locks, the pool and the reference counts are not visible here. *)
(***************************************************************************)
EXTENDS Sequences

CONSTANTS Serial,   \* the serial queues
          Global,   \* the concurrent queues
          Tasks

VARIABLES waiting,  \* per queue, the tasks submitted and not started
          running,  \* per queue, the tasks started and not ended
          finished  \* the tasks that have ended

vars == <<waiting, running, finished>>

Queues == Serial \union Global

Init == /\ waiting = [q \in Queues |-> <<>>]
        /\ running = [q \in Queues |-> {}]
        /\ finished = {}

\* The tasks that were ever submitted.
Known == finished \union UNION {running[q] \union {waiting[q][i] : i \in DOMAIN waiting[q]} :
                                  q \in Queues}

Submit(t, q) == /\ t \notin Known
                /\ waiting' = [waiting EXCEPT ![q] = Append(@, t)]
                /\ UNCHANGED <<running, finished>>

Start(q) == /\ waiting[q] # <<>>
            /\ q \in Serial => running[q] = {}
            /\ running' = [running EXCEPT ![q] = @ \union {Head(waiting[q])}]
            /\ waiting' = [waiting EXCEPT ![q] = Tail(@)]
            /\ UNCHANGED finished

End(t, q) == /\ t \in running[q]
             /\ running' = [running EXCEPT ![q] = @ \ {t}]
             /\ finished' = finished \union {t}
             /\ UNCHANGED waiting

Progress(q) == Start(q) \/ \E t \in Tasks : End(t, q)

Next == \E q \in Queues : Progress(q) \/ \E t \in Tasks : Submit(t, q)

\* A serial queue either starts or ends a task, never both: each queue that has
\* work goes on with it.
Spec == Init /\ [][Next]_vars /\ \A q \in Queues : WF_vars(Progress(q))
===============================================================================
