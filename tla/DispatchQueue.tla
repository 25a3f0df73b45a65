---------------------------- MODULE DispatchQueue -----------------------------
(***************************************************************************)
(* The queues of DispatchLite.c, which replaces libdispatch where the      *)
(* platform has none: serial queues, the global concurrent queue and the   *)
(* pool of POSIX threads that drains them.  One action is one critical     *)
(* section (of a queue's lock or of the pool's mutex) or one step a thread *)
(* takes outside of them.  A thread that submits to a queue takes the      *)
(* queue's lock and, inside it, the mutex of the pool; nothing takes them  *)
(* in the other order, so dispatch_async_f is one step.                    *)
(*                                                                         *)
(* Queue 0 is the global queue of default priority, the only concurrent    *)
(* one this program uses; it is never freed.  A task may dispatch_sync     *)
(* only to a serial queue with a higher number than its own: that is the   *)
(* rule the program follows (server queue before HTTP queue before the     *)
(* event queue of a session), a cycle of waits deadlocks by its shape.     *)
(* Nothing in the program suspends a queue (it suspends sources), so       *)
(* suspendCount of a queue stays 0.                                        *)
(***************************************************************************)
EXTENDS Naturals, Sequences, FiniteSets

CONSTANTS SerialQueues, \* how many serial queues, numbered from 1
          MaxThreads,   \* gDispatchThreadPool_MaxThreads
          MaxTasks,     \* bound: how many tasks are submitted
          Clients,      \* threads outside the pool
          None          \* no task, no queue

ASSUME SerialAssumption == SerialQueues \in Nat
ASSUME ThreadsAssumption == MaxThreads \in Nat \ {0}
ASSUME TasksAssumption == MaxTasks \in Nat
ASSUME NoneAssumption == None \notin Nat

Serial == 1 .. SerialQueues
Global == {0}
Queues == Serial \union Global
Workers == 1 .. MaxThreads
Tasks == 1 .. MaxTasks   \* numbered as they are submitted

VARIABLES
  items,    \* per queue, the list from itemsHead to itemsNext
  busy,     \* per queue, a thread is draining it
  refs,     \* per queue, base.refCount
  held,     \* per queue, its creator has not released it
  work,     \* gDispatchThreadPool_Items: the queues to drain
  pc,       \* per thread of the pool, where it is
  at,       \* per thread, the queue it drains
  task,     \* per thread, the task it runs
  last,     \* per thread, releaseQueue: the task was the last of the list
  awaits,   \* per thread or client, the task its dispatch_sync_f waits for
  finished  \* the tasks whose function has returned

vars == <<items, busy, refs, held, work, pc, at, task, last, awaits, finished>>
pool == <<at, task, last>>

\* "off": not created; "loop": before the loop of __LibDispatch_WorkThread takes
\* the mutex; "wait", "woken": in pthread_cond_timedwait, not yet or already
\* signalled; the others are inside of a drain.
Draining == {"start", "next", "run", "sync", "rel", "unretain"}
PCs == {"off", "loop", "wait", "woken"} \union Draining

Actors == Workers \union Clients

TypeOK == /\ items \in [Queues -> Seq(Tasks)]
          /\ busy \in [Queues -> BOOLEAN]
          /\ refs \in [Queues -> Nat]
          /\ held \in [Queues -> BOOLEAN]
          /\ work \in Seq(Queues)
          /\ pc \in [Workers -> PCs]
          /\ at \in [Workers -> Queues \union {None}]
          /\ task \in [Workers -> Tasks \union {None}]
          /\ last \in [Workers -> BOOLEAN]
          /\ awaits \in [Actors -> Tasks \union {None}]
          /\ finished \subseteq Tasks

Init == /\ items = [q \in Queues |-> <<>>]
        /\ busy = [q \in Queues |-> FALSE]
        /\ refs = [q \in Queues |-> 1]
        /\ held = [q \in Queues |-> TRUE]
        /\ work = <<>>
        /\ pc = [w \in Workers |-> "off"]
        /\ at = [w \in Workers |-> None]
        /\ task = [w \in Workers |-> None]
        /\ last = [w \in Workers |-> FALSE]
        /\ awaits = [a \in Actors |-> None]
        /\ finished = {}

Running(q) == {task[w] : w \in {v \in Workers : at[v] = q /\ pc[v] \in {"run", "sync"}}}
Queued(q) == {items[q][i] : i \in DOMAIN items[q]}
Submitted == finished \union UNION {Running(q) \union Queued(q) : q \in Queues}

-------------------------------------------------------------------------------
(* The pool. *)

Waiting(p) == {w \in Workers : p[w] = "wait"}
Off(p) == {w \in Workers : p[w] = "off"}
\* gDispatchThreadPool_IdleThreads: a signalled thread counts until it runs.
Idle(p) == Cardinality({w \in Workers : p[w] \in {"wait", "woken"}})

\* One of a set of threads: they are alike, so which one does not matter.
Some(ws) == CHOOSE w \in ws : \A v \in ws : w <= v

\* pthread_cond_signal, if the count says that a thread is idle.
Signalled(p) == IF Waiting(p) = {} THEN p ELSE [p EXCEPT ![Some(Waiting(p))] = "woken"]

\* Mutant: a thread is added only when none is idle.
NeedsFirstThread(p, pending) == Idle(p) = 0
NeedsThread(p, pending) == Idle(p) < pending

\* __LibDispatch_ScheduleWork: where it leaves the threads, with the item added.
AfterSchedule(p, pending) ==
  IF NeedsThread(p, pending) /\ Off(p) # {}
  THEN [Signalled(p) EXCEPT ![Some(Off(p))] = "loop"] ELSE Signalled(p)

\* __LibDispatch_WorkThread takes the first item, or waits for one.  Without one
\* a thread that timed out ends.
TakeWork(w, idle) ==
  IF work # <<>>
  THEN /\ pc' = [pc EXCEPT ![w] = "start"]
       /\ at' = [at EXCEPT ![w] = Head(work)]
       /\ work' = Tail(work)
       /\ UNCHANGED <<task, last>>
  ELSE /\ pc' = [pc EXCEPT ![w] = idle]
       /\ UNCHANGED <<work, pool>>

LoopTop(w) == /\ pc[w] \in {"loop", "woken"}
              /\ TakeWork(w, "wait")
              /\ UNCHANGED <<items, busy, refs, held, awaits, finished>>

TimesOut(w) == /\ pc[w] \in {"wait", "woken"}
               /\ TakeWork(w, "off")
               /\ UNCHANGED <<items, busy, refs, held, awaits, finished>>

-------------------------------------------------------------------------------
(* Submitting a task. *)

Schedules(q) == q \in Global \/ (items[q] = <<>> /\ ~busy[q])
\* Mutant: the list is given a reference only together with the drain.
RetainsIdle(q) == items[q] = <<>> /\ ~busy[q]
Retains(q) == items[q] = <<>>

\* dispatch_async_f, of a thread that leaves the threads at p.
Enqueue(t, q, p) ==
  /\ t = Cardinality(Submitted) + 1
  /\ items' = [items EXCEPT ![q] = Append(@, t)]
  /\ refs' = [refs EXCEPT ![q] = IF Retains(q) THEN @ + 1 ELSE @]
  /\ IF Schedules(q)
     THEN work' = Append(work, q) /\ pc' = AfterSchedule(p, Len(work) + 1)
     ELSE work' = work /\ pc' = p
  /\ UNCHANGED <<busy, held, pool, finished>>

\* A client uses a queue while its creator holds it; a task also uses the queue
\* it runs on.
Usable(a, q) == held[q] \/ (a \in Workers /\ at[a] = q)
Free(a) == IF a \in Workers THEN pc[a] = "run" ELSE awaits[a] = None

Async(a, t, q) == /\ Free(a) /\ Usable(a, q)
                  /\ Enqueue(t, q, pc)
                  /\ UNCHANGED awaits

\* dispatch_sync_f up to its wait.
Sync(a, t, q) == /\ Free(a) /\ Usable(a, q)
                 /\ q \in Serial
                 /\ a \in Workers => at[a] \in Serial /\ at[a] < q
                 /\ Enqueue(t, q, IF a \in Workers THEN [pc EXCEPT ![a] = "sync"] ELSE pc)
                 /\ awaits' = [awaits EXCEPT ![a] = t]

SyncReturns(a) == /\ awaits[a] # None /\ awaits[a] \in finished
                  /\ awaits' = [awaits EXCEPT ![a] = None]
                  /\ pc' = IF a \in Workers THEN [pc EXCEPT ![a] = "run"] ELSE pc
                  /\ UNCHANGED <<items, busy, refs, held, work, pool, finished>>

\* The creator's dispatch_release; the global queue has none.
Release(q) == /\ q \in Serial /\ held[q]
              /\ held' = [held EXCEPT ![q] = FALSE]
              /\ refs' = [refs EXCEPT ![q] = @ - 1]
              /\ UNCHANGED <<items, busy, work, pc, pool, awaits, finished>>

-------------------------------------------------------------------------------
(* Draining a queue. *)

\* releaseQueue: the task taken is the last of the list.
IsLast(q) == Len(items[q]) = 1

\* One turn of the loop of the drains, with the queue's lock held: the first
\* task is taken, or the drain is over.
Turn(w, q) ==
  IF items[q] # <<>>
  THEN /\ task' = [task EXCEPT ![w] = Head(items[q])]
       /\ last' = [last EXCEPT ![w] = IsLast(q)]
       /\ items' = [items EXCEPT ![q] = Tail(@)]
       /\ pc' = [pc EXCEPT ![w] = "run"]
       /\ UNCHANGED at
  ELSE /\ pc' = [pc EXCEPT ![w] = IF q \in Serial THEN "unretain" ELSE "loop"]
       /\ at' = [at EXCEPT ![w] = IF q \in Serial THEN @ ELSE None]
       /\ UNCHANGED <<items, task, last>>

\* A serial queue is busy from its first task until a turn finds none.
\* Mutant: the queue is not busy with its last task.
BusyUntilLast(q) == q \in Serial /\ Len(items[q]) > 1
StaysBusy(q) == q \in Serial /\ items[q] # <<>>

\* Both drains: __dispatch_queue_serial_drain retains the queue, and leaves when
\* another thread drains it.
StartDrain(w) ==
  LET q == at[w] IN
  /\ pc[w] = "start"
  /\ refs' = [refs EXCEPT ![q] = IF q \in Serial THEN @ + 1 ELSE @]
  /\ IF q \in Serial /\ busy[q]
     THEN /\ pc' = [pc EXCEPT ![w] = "unretain"]
          /\ UNCHANGED <<items, busy, pool>>
     ELSE /\ Turn(w, q)
          /\ busy' = [busy EXCEPT ![q] = StaysBusy(q)]
  /\ UNCHANGED <<held, work, awaits, finished>>

\* The function returns; __dispatch_sync_callback tells the waiting thread.
TaskReturns(w) ==
  /\ pc[w] = "run"
  /\ finished' = finished \union {task[w]}
  /\ task' = [task EXCEPT ![w] = None]
  /\ pc' = [pc EXCEPT ![w] = IF last[w] THEN "rel" ELSE "next"]
  /\ UNCHANGED <<items, busy, refs, held, work, at, last, awaits>>

\* dispatch_release of the reference that the non-empty list had.
ReleaseList(w) == /\ pc[w] = "rel"
                  /\ refs' = [refs EXCEPT ![at[w]] = @ - 1]
                  /\ last' = [last EXCEPT ![w] = FALSE]
                  /\ pc' = [pc EXCEPT ![w] = "next"]
                  /\ UNCHANGED <<items, busy, held, work, at, task, awaits, finished>>

NextTurn(w) == LET q == at[w] IN
               /\ pc[w] = "next"
               /\ Turn(w, q)
               /\ busy' = [busy EXCEPT ![q] = StaysBusy(q)]
               /\ UNCHANGED <<refs, held, work, awaits, finished>>

EndDrain(w) == /\ pc[w] = "unretain"
               /\ refs' = [refs EXCEPT ![at[w]] = @ - 1]
               /\ at' = [at EXCEPT ![w] = None]
               /\ pc' = [pc EXCEPT ![w] = "loop"]
               /\ UNCHANGED <<items, busy, held, work, task, last, awaits, finished>>

-------------------------------------------------------------------------------
ThreadSteps(w) == \/ LoopTop(w) \/ StartDrain(w) \/ TaskReturns(w)
                  \/ ReleaseList(w) \/ NextTurn(w) \/ EndDrain(w)

Next == \/ \E w \in Workers : ThreadSteps(w) \/ TimesOut(w)
        \/ \E a \in Actors : \/ SyncReturns(a)
                             \/ \E t \in Tasks, q \in Queues : Async(a, t, q) \/ Sync(a, t, q)
        \/ \E q \in Queues : Release(q)

\* The threads of the pool run and the functions they call return.
Fairness == /\ \A w \in Workers : WF_vars(ThreadSteps(w))
            /\ \A a \in Actors : WF_vars(SyncReturns(a))

Spec == Init /\ [][Next]_vars /\ Fairness

-------------------------------------------------------------------------------
\* The queues keep what SerialQueues promises: first in, first out, one task of a
\* serial queue at a time, and each submitted task starts and ends - a task that waits
\* in dispatch_sync_f too - although the threads that drain are created, signalled and
\* aged out by the pool.
Promise == INSTANCE SerialQueues WITH Serial <- Serial, Global <- Global, Tasks <- Tasks,
             waiting <- items, running <- [q \in Queues |-> Running(q)], finished <- finished
KeepsPromise == Promise!Spec

\* A queue is not freed while a thread drains it or a drain of it is scheduled,
\* although nothing but the list and the drain itself hold references.
QueueAlive == /\ \A w \in Workers : at[w] # None => refs[at[w]] > 0
              /\ \A i \in DOMAIN work : refs[work[i]] > 0

\* Work does not wait while the pool may still grow: for each item that waits there
\* is a thread on its way to it, or the pool has all of its threads.
PoolKeepsUp == \/ Off(pc) = {}
               \/ Len(work) <= Cardinality({w \in Workers : pc[w] \in {"loop", "wait", "woken"}})
===============================================================================
