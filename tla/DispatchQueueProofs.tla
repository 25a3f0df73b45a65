------------------------ MODULE DispatchQueueProofs ------------------------
(***************************************************************************)
(* The safety of the dispatch queues for any number of queues, threads,    *)
(* tasks and clients: a queue is referenced as long as a thread drains it  *)
(* or a drain of it waits, and every step of the pool is a step of         *)
(* SerialQueues or changes nothing there.                                  *)
(***************************************************************************)
EXTENDS DispatchQueue, Integers, FiniteSetTheorems, SequenceTheorems,
        WellFoundedInduction, TLAPS

\* Where a thread is outside of a drain, in a task, in the loop of a serial drain, and
\* where it has retained the serial queue it drains.
Out == {"off", "loop", "wait", "woken"}
InTask == {"run", "sync"}
InLoop == InTask \cup {"rel", "next"}
Retained == InLoop \cup {"unretain"}

\* TypeOK but for the references, which the count bounds from below.
Types ==
    /\ items \in [Queues -> Seq(Tasks)]
    /\ busy \in [Queues -> BOOLEAN]
    /\ refs \in [Queues -> Int]
    /\ held \in [Queues -> BOOLEAN] /\ held[0]
    /\ work \in Seq(Queues)
    /\ pc \in [Workers -> PCs]
    /\ at \in [Workers -> Queues \cup {None}]
    /\ task \in [Workers -> Tasks \cup {None}]
    /\ last \in [Workers -> BOOLEAN]
    /\ awaits \in [Actors -> Tasks \cup {None}]
    /\ finished \subseteq Tasks

\* What a thread remembers belongs to where it is.
Threads ==
    \A w \in Workers :
        /\ at[w] = None <=> pc[w] \in Out
        /\ task[w] = None <=> pc[w] \notin InTask
        /\ last[w] => pc[w] \in InTask \cup {"rel"}
        /\ pc[w] = "rel" => last[w]
        /\ pc[w] = "unretain" => at[w] \in Serial
        /\ awaits[w] # None => pc[w] = "sync"

\* A serial queue is busy exactly while a thread is in the loop of its drain, and at
\* most one is.
Busy ==
    \A q \in Serial : busy[q] <=> \E w \in Workers : at[w] = q /\ pc[w] \in InLoop
OneServes ==
    \A v, w \in Workers :
        at[v] = at[w] /\ at[v] \in Serial /\ pc[v] \in InLoop /\ pc[w] \in InLoop => v = w

\* A drain of a serial queue is due when it has tasks and nobody drains it, and then
\* either one item of the pool or one thread knows of it.
IsDue(q) == items[q] # <<>> /\ ~ busy[q]
Starts(w) == pc[w] = "start" /\ at[w] \in Serial
Due ==
    /\ \A w \in Workers : Starts(w) => IsDue(at[w])
    /\ \A i \in 1 .. Len(work) : work[i] \in Serial => IsDue(work[i])
    /\ \A i, j \in 1 .. Len(work) : work[i] \in Serial /\ work[i] = work[j] => i = j
    /\ \A v, w \in Workers : Starts(v) /\ Starts(w) /\ at[v] = at[w] => v = w
    /\ \A w \in Workers, i \in 1 .. Len(work) : Starts(w) => at[w] # work[i]

Exclusion == Busy /\ OneServes /\ Due

\* Every task is in one place, and they are numbered as they were submitted.
Once ==
    /\ \A v, w \in Workers : task[v] # None /\ task[v] = task[w] => v = w
    /\ \A q \in Queues, w \in Workers : \A i \in 1 .. Len(items[q]) : items[q][i] # task[w]
    /\ \A q, r \in Queues : \A i \in 1 .. Len(items[q]), j \in 1 .. Len(items[r]) :
          items[q][i] = items[r][j] => q = r /\ i = j
InTurn == \E n \in Nat : Submitted = 1 .. n

\* The references of a queue are those of its creator, of its list while that is not
\* empty, of the threads that took the last task of the list and of the serial drains.
Owner(q) == IF held[q] THEN 1 ELSE 0
NonEmpty(q) == IF items[q] = <<>> THEN 0 ELSE 1
OfDrain(q) == IF q \in Serial THEN 1 ELSE 0
Drains(q) == {w \in Workers : at[w] = q /\ q \in Serial /\ pc[w] \in Retained}
Lists(q) == {w \in Workers : at[w] = q /\ last[w]}
CountedOf(q) ==
    refs[q] = Owner(q) + NonEmpty(q) + Cardinality(Drains(q)) + Cardinality(Lists(q))
Counted == \A q \in Queues : CountedOf(q)

Inv == Types /\ Threads /\ Exclusion /\ Once /\ InTurn /\ Counted

----------------------------------------------------------------------------
(* The steps of Next, without the order in which the pool picks its threads *)

\* A thread stays inside or outside of its task and of its drain.
SamePlace(w) == \/ pc'[w] = pc[w]
                \/ pc[w] \in Out /\ pc'[w] \in Out
                \/ pc[w] \in InTask /\ pc'[w] \in InTask
Stays == /\ \A w \in Workers : SamePlace(w)
         /\ UNCHANGED <<items, busy, refs, held, work, at, task, last, finished>>
Takes(w) == /\ work # <<>> /\ pc[w] \in Out
            /\ pc' = [pc EXCEPT ![w] = "start"]
            /\ at' = [at EXCEPT ![w] = Head(work)]
            /\ work' = Tail(work)
            /\ UNCHANGED <<items, busy, refs, held, task, last, finished>>
Submits(t, q) ==
    /\ t = Cardinality(Submitted) + 1
    /\ items' = [items EXCEPT ![q] = Append(@, t)]
    /\ refs' = [refs EXCEPT ![q] = IF items[q] = <<>> THEN @ + 1 ELSE @]
    /\ work' = IF Schedules(q) THEN Append(work, q) ELSE work
    /\ \A w \in Workers : SamePlace(w)
    /\ UNCHANGED <<busy, held, at, task, last, finished>>
Drives(w) == StartDrain(w) \/ TaskReturns(w) \/ ReleaseList(w) \/ NextTurn(w) \/ EndDrain(w)

Step == \/ Stays
        \/ \E w \in Workers : Takes(w) \/ Drives(w)
        \/ \E t \in Tasks, q \in Queues : Submits(t, q)
        \/ \E q \in Queues : Release(q)

LEMMA Constants ==
    /\ 0 \in Queues /\ 0 \notin Serial /\ Queues = Serial \cup {0}
    /\ Queues \subseteq Nat /\ Workers \subseteq Nat /\ Tasks \subseteq Nat
    /\ None \notin Queues /\ None \notin Tasks
BY SerialAssumption, ThreadsAssumption, TasksAssumption, NoneAssumption
   DEF Queues, Serial, Global, Workers, Tasks

LEMMA SomeIsOne ==
    ASSUME NEW ws \in SUBSET Workers, ws # {}
    PROVE  Some(ws) \in ws
<1> DEFINE Less == {ss \in Nat \X Nat : ss[1] < ss[2]}
<1>1. IsWellFoundedOn(Less, Nat)
  BY NatLessThanWellFounded DEF OpToRel
<1>2. PICK x \in ws : \A y \in ws : <<y, x>> \notin Less
  BY <1>1, Constants, WFMin
<1>3. ASSUME NEW y \in ws PROVE x <= y
  <2>1. x \in Nat /\ y \in Nat
    BY Constants
  <2>2. y < x => <<y, x>> \in Less
    BY <2>1
  <2> QED
    BY <1>2, <2>1, <2>2
<1> QED
  BY <1>3 DEF Some

\* Scheduling signals or adds a thread; none that is in a drain is touched.
LEMMA SchedulingKeepsDrains ==
    ASSUME NEW p \in [Workers -> PCs], NEW n
    PROVE  /\ AfterSchedule(p, n) \in [Workers -> PCs]
           /\ \A w \in Workers : \/ AfterSchedule(p, n)[w] = p[w]
                                 \/ p[w] \in Out /\ AfterSchedule(p, n)[w] \in Out
<1>1. /\ Signalled(p) \in [Workers -> PCs]
      /\ \A w \in Workers : \/ Signalled(p)[w] = p[w]
                            \/ p[w] = "wait" /\ Signalled(p)[w] = "woken"
  <2>1. Waiting(p) # {} => Some(Waiting(p)) \in Workers /\ p[Some(Waiting(p))] = "wait"
    BY SomeIsOne DEF Waiting
  <2> QED
    BY <2>1 DEF Signalled, PCs
<1>2. Off(p) # {} => Some(Off(p)) \in Workers /\ p[Some(Off(p))] = "off"
  BY SomeIsOne DEF Off
<1> QED
  BY <1>1, <1>2 DEF AfterSchedule, PCs, Out
----------------------------------------------------------------------------
(* Every step of Next is one of them and keeps the types *)

LEMMA AppendFacts ==
    ASSUME NEW S, NEW s \in Seq(S), NEW x \in S
    PROVE  /\ Append(s, x) \in Seq(S) /\ Len(s) \in Nat /\ Len(Append(s, x)) = Len(s) + 1
           /\ Append(s, x)[Len(s) + 1] = x /\ Append(s, x) # <<>>
           /\ \A i \in 1 .. Len(s) : Append(s, x)[i] = s[i] /\ s[i] \in S
BY AppendProperties, ElementOfSeq

LEMMA TailFacts ==
    ASSUME NEW S, NEW s \in Seq(S), s # <<>>
    PROVE  /\ Tail(s) \in Seq(S) /\ Len(s) \in Nat \ {0} /\ Len(Tail(s)) = Len(s) - 1
           /\ Head(s) = s[1] /\ Head(s) \in S
           /\ \A i \in 1 .. Len(s) - 1 : Tail(s)[i] = s[i + 1] /\ s[i + 1] \in S
OBVIOUS

LEMMA TakingWork ==
    ASSUME Types, Threads, NEW w \in Workers, NEW idle \in {"wait", "off"}, pc[w] \in Out,
           TakeWork(w, idle), UNCHANGED <<items, busy, refs, held, awaits, finished>>
    PROVE  Types' /\ Threads' /\ (Stays \/ Takes(w))
<1>1. CASE work # <<>>
  <2>1. Head(work) \in Queues /\ Tail(work) \in Seq(Queues)
    BY <1>1 DEF Types
  <2>2. Takes(w)
    BY <1>1 DEF TakeWork, Takes, pool
  <2>3. Types'
    BY <2>1, <2>2 DEF Types, Takes, PCs, Draining
  <2>4. Threads'
    BY <2>1, <2>2, Constants DEF Types, Threads, Takes, Out, InTask
  <2> QED
    BY <2>2, <2>3, <2>4
<1>2. CASE work = <<>>
  <2>1. pc' = [pc EXCEPT ![w] = idle] /\ UNCHANGED <<work, at, task, last>>
    BY <1>2 DEF TakeWork, pool
  <2>2. Types'
    BY <2>1 DEF Types, PCs
  <2>3. Threads'
    BY <2>1 DEF Types, Threads, Out, InTask
  <2>4. Stays
    BY <2>1 DEF Types, Stays, SamePlace, Out
  <2> QED
    BY <2>2, <2>3, <2>4
<1> QED
  BY <1>1, <1>2

\* dispatch_async_f by a thread that p leaves in its task, with what it then waits for.
LEMMA EnqueueSubmits ==
    ASSUME Types, Threads, NEW t \in Tasks, NEW q \in Queues, NEW p \in [Workers -> PCs],
           \A w \in Workers : p[w] = pc[w] \/ (pc[w] \in InTask /\ p[w] \in InTask),
           Enqueue(t, q, p), awaits' \in [Actors -> Tasks \cup {None}],
           \A w \in Workers : awaits'[w] # None => p[w] = "sync"
    PROVE  Types' /\ Threads' /\ Submits(t, q)
<1>1. /\ pc' \in [Workers -> PCs]
      /\ \A w \in Workers : pc'[w] = p[w] \/ (p[w] \in Out /\ pc'[w] \in Out)
  BY SchedulingKeepsDrains DEF Enqueue
<1>2. \A w \in Workers : SamePlace(w)
  BY <1>1 DEF SamePlace, Out, InTask
<1>3. Submits(t, q)
  BY <1>2 DEF Enqueue, Submits, Retains, pool
<1>4. items' \in [Queues -> Seq(Tasks)] /\ work' \in Seq(Queues)
  <2>1. Append(items[q], t) \in Seq(Tasks) /\ Append(work, q) \in Seq(Queues)
    BY AppendFacts DEF Types
  <2> QED
    BY <1>3, <2>1 DEF Types, Submits
<1>5. Types'
  BY <1>1, <1>3, <1>4 DEF Types, Submits
<1>6. Threads'
  <2> SUFFICES ASSUME NEW w \in Workers
               PROVE  Threads!(w)'
    BY DEF Threads
  <2>1. UNCHANGED <<at, task, last>> /\ SamePlace(w)
    BY <1>2, <1>3 DEF Submits
  <2>2. awaits'[w] # None => pc'[w] = "sync"
    BY <1>1 DEF Out
  <2> QED
    BY <2>1, <2>2 DEF Threads, SamePlace, Out, InTask
<1> QED
  BY <1>3, <1>5, <1>6

LEMMA Submitting ==
    ASSUME Types, Threads, NEW a \in Actors, NEW t \in Tasks, NEW q \in Queues,
           Async(a, t, q) \/ Sync(a, t, q)
    PROVE  Types' /\ Threads' /\ Submits(t, q)
<1>1. CASE Async(a, t, q)
  <2>1. Enqueue(t, q, pc) /\ UNCHANGED awaits
    BY <1>1 DEF Async
  <2> QED
    BY <2>1, EnqueueSubmits DEF Types, Threads
<1>2. CASE Sync(a, t, q)
  <2> DEFINE p == IF a \in Workers THEN [pc EXCEPT ![a] = "sync"] ELSE pc
  <2>1. Enqueue(t, q, p) /\ awaits' = [awaits EXCEPT ![a] = t]
    BY <1>2 DEF Sync
  <2>2. p \in [Workers -> PCs]
    BY DEF Types, PCs, Draining
  <2>3. \A w \in Workers : p[w] = pc[w] \/ (pc[w] \in InTask /\ p[w] \in InTask)
    BY <1>2 DEF Sync, Free, Types, InTask
  <2>4. awaits' \in [Actors -> Tasks \cup {None}]
    BY <2>1 DEF Types
  <2>5. ASSUME NEW w \in Workers, awaits'[w] # None PROVE p[w] = "sync"
    BY <2>1, <2>5 DEF Types, Threads, Actors
  <2> HIDE DEF p
  <2> QED
    BY <2>1, <2>2, <2>3, <2>4, <2>5, EnqueueSubmits
<1> QED
  BY <1>1, <1>2

LEMMA Returning ==
    ASSUME Types, Threads, NEW a \in Actors, SyncReturns(a)
    PROVE  Types' /\ Threads' /\ Stays
<1>1. /\ awaits[a] # None /\ awaits' = [awaits EXCEPT ![a] = None]
      /\ pc' = IF a \in Workers THEN [pc EXCEPT ![a] = "run"] ELSE pc
      /\ UNCHANGED <<items, busy, refs, held, work, at, task, last, finished>>
  BY DEF SyncReturns, pool
<1>2. a \in Workers => pc[a] = "sync"
  BY <1>1 DEF Threads
<1>3. Types'
  BY <1>1 DEF Types, PCs, Draining
<1>4. Threads'
  BY <1>1, <1>2 DEF Types, Threads, Out, InTask, Actors
<1>5. Stays
  BY <1>1, <1>2 DEF Types, Stays, SamePlace, InTask
<1> QED
  BY <1>3, <1>4, <1>5

LEMMA Releasing ==
    ASSUME Types, Threads, NEW q \in Queues, Release(q)
    PROVE  Types' /\ Threads'
<1>1. /\ q \in Serial /\ held' = [held EXCEPT ![q] = FALSE]
      /\ refs' = [refs EXCEPT ![q] = @ - 1]
      /\ UNCHANGED <<items, busy, work, pc, at, task, last, awaits, finished>>
  BY DEF Release, pool
<1>2. Types'
  BY <1>1, Constants, SMTT(60) DEF Types
<1> QED
  BY <1>1, <1>2 DEF Threads

\* A turn of a drain: what it takes, or that it is over.
LEMMA Turning ==
    ASSUME Types, Threads, NEW w \in Workers, NEW q \in Queues, at[w] = q,
           pc[w] \in {"start", "next"}, Turn(w, q), NEW r, refs' = r, r \in [Queues -> Int],
           busy' = [busy EXCEPT ![q] = StaysBusy(q)], UNCHANGED <<held, work, awaits, finished>>
    PROVE  Types' /\ Threads'
<1>1. last[w] = FALSE /\ task[w] = None
  BY DEF Types, Threads, InTask
<1>2. CASE items[q] # <<>>
  <2>1. Head(items[q]) \in Tasks /\ Tail(items[q]) \in Seq(Tasks)
    BY <1>2, TailFacts DEF Types
  <2>2. /\ task' = [task EXCEPT ![w] = Head(items[q])] /\ pc' = [pc EXCEPT ![w] = "run"]
        /\ last' = [last EXCEPT ![w] = IsLast(q)] /\ items' = [items EXCEPT ![q] = Tail(@)]
        /\ at' = at
    BY <1>2 DEF Turn
  <2>3. Types'
    BY <2>1, <2>2 DEF Types, PCs, Draining, StaysBusy, IsLast
  <2>4. Threads'
    BY <2>1, <2>2, Constants DEF Types, Threads, Out, InTask
  <2> QED
    BY <2>3, <2>4
<1>3. CASE items[q] = <<>>
  <2>1. /\ pc' = [pc EXCEPT ![w] = IF q \in Serial THEN "unretain" ELSE "loop"]
        /\ at' = [at EXCEPT ![w] = IF q \in Serial THEN @ ELSE None]
        /\ UNCHANGED <<items, task, last>>
    BY <1>3 DEF Turn
  <2>2. Types'
    BY <2>1 DEF Types, PCs, Draining, StaysBusy
  <2>3. Threads'
    BY <1>1, <2>1, Constants DEF Types, Threads, Out, InTask
  <2> QED
    BY <2>2, <2>3
<1> QED
  BY <1>2, <1>3

LEMMA Driving ==
    ASSUME Types, Threads, NEW w \in Workers, Drives(w)
    PROVE  Types' /\ Threads'
<1> DEFINE q == at[w]
<1>0. q \in Queues
  BY DEF Types, Threads, Drives, StartDrain, TaskReturns, ReleaseList, NextTurn, EndDrain, Out
<1>1. CASE StartDrain(w)
  <2>1. CASE q \in Serial /\ busy[q]
    <3>1. /\ pc[w] = "start" /\ refs' = [refs EXCEPT ![q] = @ + 1]
          /\ pc' = [pc EXCEPT ![w] = "unretain"]
          /\ UNCHANGED <<items, busy, held, work, at, task, last, awaits, finished>>
      BY <1>1, <2>1 DEF StartDrain, pool
    <3>2. Types'
      BY <1>0, <3>1 DEF Types, PCs, Draining
    <3>3. Threads'
      BY <2>1, <3>1 DEF Types, Threads, Out, InTask
    <3> QED
      BY <3>2, <3>3
  <2>2. CASE ~ (q \in Serial /\ busy[q])
    <3>1. /\ pc[w] = "start" /\ Turn(w, q) /\ busy' = [busy EXCEPT ![q] = StaysBusy(q)]
          /\ UNCHANGED <<held, work, awaits, finished>>
      BY <1>1, <2>2 DEF StartDrain
    <3>2. refs' = [refs EXCEPT ![q] = IF q \in Serial THEN @ + 1 ELSE @]
      BY <1>1 DEF StartDrain
    <3>3. refs' \in [Queues -> Int]
      BY <1>0, <3>2 DEF Types
    <3> QED
      BY <1>0, <3>1, <3>3, Turning
  <2> QED
    BY <2>1, <2>2
<1>2. CASE TaskReturns(w)
  <2>1. task[w] \in Tasks
    BY <1>2, Constants DEF TaskReturns, Types, Threads, InTask
  <2>2. Types'
    BY <1>2, <2>1 DEF TaskReturns, Types, PCs, Draining
  <2>3. Threads'
    BY <1>2 DEF TaskReturns, Types, Threads, Out, InTask
  <2> QED
    BY <2>2, <2>3
<1>3. CASE ReleaseList(w)
  <2>1. Types'
    BY <1>0, <1>3 DEF ReleaseList, Types, PCs, Draining
  <2>2. Threads'
    BY <1>3 DEF ReleaseList, Types, Threads, Out, InTask
  <2> QED
    BY <2>1, <2>2
<1>4. CASE NextTurn(w)
  <2>1. /\ pc[w] = "next" /\ Turn(w, q) /\ busy' = [busy EXCEPT ![q] = StaysBusy(q)]
        /\ UNCHANGED <<refs, held, work, awaits, finished>>
    BY <1>4 DEF NextTurn
  <2>2. refs' \in [Queues -> Int]
    BY <2>1 DEF Types
  <2> QED
    BY <1>0, <2>1, <2>2, Turning
<1>5. CASE EndDrain(w)
  <2>1. Types'
    BY <1>0, <1>5 DEF EndDrain, Types, PCs
  <2>2. Threads'
    BY <1>5, Constants DEF EndDrain, Types, Threads, Out, InTask
  <2> QED
    BY <2>1, <2>2
<1> QED
  BY <1>1, <1>2, <1>3, <1>4, <1>5 DEF Drives

LEMMA NextIsStep ==
    ASSUME Types, Threads, [Next]_vars
    PROVE  Types' /\ Threads' /\ Step
<1>1. ASSUME NEW w \in Workers, LoopTop(w) PROVE Types' /\ Threads' /\ Step
  BY <1>1, TakingWork DEF LoopTop, Step, Out
<1>2. ASSUME NEW w \in Workers, TimesOut(w) PROVE Types' /\ Threads' /\ Step
  BY <1>2, TakingWork DEF TimesOut, Step, Out
<1>3. ASSUME NEW w \in Workers, Drives(w) PROVE Types' /\ Threads' /\ Step
  BY <1>3, Driving DEF Step
<1>4. ASSUME NEW a \in Actors, SyncReturns(a) PROVE Types' /\ Threads' /\ Step
  BY <1>4, Returning DEF Step
<1>5. ASSUME NEW a \in Actors, NEW t \in Tasks, NEW q \in Queues, Async(a, t, q) \/ Sync(a, t, q)
      PROVE  Types' /\ Threads' /\ Step
  BY <1>5, Submitting DEF Step
<1>6. ASSUME NEW q \in Queues, Release(q) PROVE Types' /\ Threads' /\ Step
  BY <1>6, Releasing DEF Step
<1>7. CASE UNCHANGED vars
  <2>1. Stays
    BY <1>7 DEF vars, Stays, SamePlace
  <2> QED
    BY <1>7, <2>1 DEF vars, Types, Threads, Step
<1> QED
  BY <1>1, <1>2, <1>3, <1>4, <1>5, <1>6, <1>7 DEF Next, ThreadSteps, Drives

----------------------------------------------------------------------------
(* One thread drains a serial queue, and one knows that it is to be drained *)

LEMMA StayingExcludes ==
    ASSUME Types, Exclusion, \A w \in Workers : SamePlace(w),
           UNCHANGED <<items, busy, work, at>>
    PROVE  Exclusion'
<1>1. \A w \in Workers : /\ pc'[w] \in InLoop <=> pc[w] \in InLoop
                         /\ pc'[w] = "start" <=> pc[w] = "start"
  BY DEF SamePlace, Out, InTask, InLoop
<1>2. Busy' /\ OneServes'
  BY <1>1 DEF Exclusion, Busy, OneServes
<1>3. Due'
  BY <1>1 DEF Exclusion, Due, Starts, IsDue
<1> QED
  BY <1>2, <1>3 DEF Exclusion

LEMMA TakingExcludes ==
    ASSUME Types, Exclusion, NEW w \in Workers, Takes(w)
    PROVE  Exclusion'
<1>1. /\ Len(work) \in Nat \ {0} /\ Len(work') = Len(work) - 1 /\ Head(work) = work[1]
      /\ \A i \in 1 .. Len(work) - 1 : work'[i] = work[i + 1]
  BY TailFacts DEF Types, Takes
<1>2. /\ pc[w] \in Out /\ pc'[w] = "start" /\ at'[w] = work[1]
      /\ \A v \in Workers \ {w} : pc'[v] = pc[v] /\ at'[v] = at[v]
      /\ UNCHANGED <<items, busy>>
  BY <1>1 DEF Types, Takes
<1>3. Busy' /\ OneServes'
  <2>1. \A v \in Workers : pc'[v] \in InLoop <=> pc[v] \in InLoop /\ v # w
    BY <1>2 DEF InLoop, InTask, Out
  <2>2. pc[w] \notin InLoop
    BY <1>2 DEF InLoop, InTask, Out
  <2> QED
    BY <1>2, <2>1, <2>2 DEF Exclusion, Busy, OneServes
<1>4. Due'
  <2>1. \A v \in Workers : Starts(v)' => \/ v # w /\ Starts(v) /\ at'[v] = at[v]
                                         \/ v = w /\ at'[v] = work[1] /\ work[1] \in Serial
    BY <1>2 DEF Starts
  <2>2. \A i \in 1 .. Len(work') : i + 1 \in 1 .. Len(work) /\ i + 1 # 1 /\ work'[i] = work[i + 1]
    BY <1>1
  <2>3. 1 \in 1 .. Len(work)
    BY <1>1
  <2>4. \A q \in Serial : IsDue(q)' <=> IsDue(q)
    BY <1>2 DEF IsDue
  <2>5. \A v \in Workers : Starts(v)' => IsDue(at[v])'
    BY <1>2, <2>1, <2>3, <2>4 DEF Exclusion, Due, Starts
  <2>6. \A i \in 1 .. Len(work') : work'[i] \in Serial => IsDue(work[i])'
    BY <2>2, <2>4 DEF Exclusion, Due
  <2>7. \A i, j \in 1 .. Len(work') : work'[i] \in Serial /\ work'[i] = work'[j] => i = j
    <3> SUFFICES ASSUME NEW i \in 1 .. Len(work'), NEW j \in 1 .. Len(work'),
                        work'[i] \in Serial, work'[i] = work'[j]
                 PROVE  i = j
      OBVIOUS
    <3>1. i + 1 = j + 1
      BY <2>2 DEF Exclusion, Due
    <3> QED
      BY <1>1, <3>1
  <2>8. \A u, v \in Workers : Starts(u)' /\ Starts(v)' /\ at'[u] = at'[v] => u = v
    BY <2>1, <2>3 DEF Exclusion, Due
  <2>9. \A v \in Workers, i \in 1 .. Len(work') : Starts(v)' => at'[v] # work'[i]
    <3> SUFFICES ASSUME NEW v \in Workers, NEW i \in 1 .. Len(work'), Starts(v)',
                        at'[v] = work'[i]
                 PROVE  FALSE
      OBVIOUS
    <3>1. i + 1 \in 1 .. Len(work) /\ i + 1 # 1 /\ at'[v] = work[i + 1]
      BY <2>2
    <3>2. CASE v # w
      BY <2>1, <3>1, <3>2 DEF Exclusion, Due
    <3>3. CASE v = w
      BY <2>1, <2>3, <3>1, <3>3 DEF Exclusion, Due
    <3> QED
      BY <3>2, <3>3
  <2> QED
    BY <2>5, <2>6, <2>7, <2>8, <2>9 DEF Due
<1> QED
  BY <1>3, <1>4 DEF Exclusion

LEMMA SubmittingExcludes ==
    ASSUME Types, Exclusion, NEW t \in Tasks, NEW q \in Queues, Submits(t, q)
    PROVE  Exclusion'
<1>1. /\ \A w \in Workers : /\ pc'[w] \in InLoop <=> pc[w] \in InLoop
                            /\ pc'[w] = "start" <=> pc[w] = "start"
      /\ UNCHANGED <<busy, at>>
  BY DEF Submits, SamePlace, Out, InTask, InLoop
<1>2. Busy' /\ OneServes'
  BY <1>1 DEF Exclusion, Busy, OneServes
<1>3. \A w \in Workers : Starts(w)' <=> Starts(w)
  BY <1>1 DEF Starts
<1>4. items'[q] # <<>> /\ \A r \in Queues : r # q => items'[r] = items[r]
  BY AppendFacts DEF Types, Submits
<1>5. \A r \in Queues : IsDue(r) => IsDue(r)'
  BY <1>1, <1>4 DEF IsDue
<1>6. CASE q \in Serial /\ Schedules(q)
  <2>1. items[q] = <<>> /\ ~ busy[q]
    BY <1>6, Constants DEF Schedules, Global
  <2>2. IsDue(q)' /\ ~ IsDue(q)
    BY <1>1, <1>4, <2>1 DEF IsDue
  <2>3. /\ Len(work) \in Nat /\ Len(work') = Len(work) + 1 /\ work'[Len(work) + 1] = q
        /\ \A i \in 1 .. Len(work) : work'[i] = work[i]
    BY <1>6, AppendFacts DEF Types, Submits
  <2>4. \A i \in 1 .. Len(work') : \/ i \in 1 .. Len(work) /\ work'[i] = work[i]
                                   \/ i = Len(work) + 1 /\ work'[i] = q
    BY <2>3
  <2>5. \A i \in 1 .. Len(work) : work[i] # q
    BY <1>6, <2>2 DEF Exclusion, Due
  <2>6. \A w \in Workers : Starts(w) => at[w] # q
    BY <2>2 DEF Exclusion, Due
  <2>7. \A w \in Workers : Starts(w)' => IsDue(at[w])'
    BY <1>1, <1>3, <1>5, Constants DEF Exclusion, Due, Starts
  <2>8. \A i \in 1 .. Len(work') : work'[i] \in Serial => IsDue(work[i])'
    <3> SUFFICES ASSUME NEW i \in 1 .. Len(work'), work'[i] \in Serial
                 PROVE  items'[work'[i]] # <<>> /\ ~ busy'[work'[i]]
      BY DEF IsDue
    <3>1. CASE i \in 1 .. Len(work) /\ work'[i] = work[i]
      BY <1>5, <3>1, Constants DEF Exclusion, Due, IsDue
    <3>2. CASE work'[i] = q
      BY <2>2, <3>2 DEF IsDue
    <3> QED
      BY <2>4, <3>1, <3>2
  <2>9. \A i, j \in 1 .. Len(work') : work'[i] \in Serial /\ work'[i] = work'[j] => i = j
    BY <2>4, <2>5 DEF Exclusion, Due
  <2>10. \A w \in Workers, i \in 1 .. Len(work') : Starts(w)' => at'[w] # work'[i]
    BY <1>1, <1>3, <2>4, <2>6 DEF Exclusion, Due
  <2>11. \A v, w \in Workers : Starts(v)' /\ Starts(w)' /\ at'[v] = at'[w] => v = w
    BY <1>1, <1>3 DEF Exclusion, Due
  <2> QED
    BY <1>2, <2>7, <2>8, <2>9, <2>10, <2>11 DEF Exclusion, Due
<1>7. CASE ~ (q \in Serial /\ Schedules(q))
  <2>1. /\ Len(work) \in Nat
        /\ \A i \in 1 .. Len(work') : work'[i] \in Serial =>
              i \in 1 .. Len(work) /\ work'[i] = work[i]
    <3>1. CASE Schedules(q)
      <4>1. /\ Len(work) \in Nat /\ Len(work') = Len(work) + 1 /\ work'[Len(work) + 1] = q
            /\ \A i \in 1 .. Len(work) : work'[i] = work[i]
        BY <3>1, AppendFacts DEF Types, Submits
      <4> QED
        BY <1>7, <3>1, <4>1
    <3>2. CASE ~ Schedules(q)
      BY <3>2 DEF Types, Submits
    <3> QED
      BY <3>1, <3>2
  <2>2. \A w \in Workers : Starts(w)' => IsDue(at[w])'
    BY <1>1, <1>3, <1>5, Constants DEF Exclusion, Due, Starts
  <2>3. \A i \in 1 .. Len(work') : work'[i] \in Serial => IsDue(work[i])'
    <3> SUFFICES ASSUME NEW i \in 1 .. Len(work'), work'[i] \in Serial
                 PROVE  items'[work'[i]] # <<>> /\ ~ busy'[work'[i]]
      BY DEF IsDue
    <3> QED
      BY <1>5, <2>1, Constants DEF Exclusion, Due, IsDue
  <2>4. \A i, j \in 1 .. Len(work') : work'[i] \in Serial /\ work'[i] = work'[j] => i = j
    BY <2>1 DEF Exclusion, Due
  <2>5. \A w \in Workers, i \in 1 .. Len(work') : Starts(w)' => at'[w] # work'[i]
    BY <1>1, <1>3, <2>1 DEF Exclusion, Due, Starts
  <2>6. \A v, w \in Workers : Starts(v)' /\ Starts(w)' /\ at'[v] = at'[w] => v = w
    BY <1>1, <1>3 DEF Exclusion, Due
  <2> QED
    BY <1>2, <2>2, <2>3, <2>4, <2>5, <2>6 DEF Exclusion, Due
<1> QED
  BY <1>6, <1>7

\* A thread that looks at a serial queue has it for itself.
LEMMA Alone ==
    ASSUME Types, Exclusion, NEW w \in Workers, pc[w] \in {"start", "next"}, at[w] \in Serial
    PROVE  /\ \A v \in Workers \ {w} : at[v] = at[w] => pc[v] \notin InLoop /\ pc[v] # "start"
           /\ \A i \in 1 .. Len(work) : work[i] # at[w]
           /\ pc[w] = "start" => IsDue(at[w])
<1>1. CASE pc[w] = "start"
  <2>1. Starts(w) /\ IsDue(at[w])
    BY <1>1 DEF Starts, Exclusion, Due
  <2>2. \A v \in Workers : at[v] = at[w] => pc[v] \notin InLoop
    BY <2>1 DEF Exclusion, Busy, IsDue
  <2> QED
    BY <2>1, <2>2 DEF Starts, Exclusion, Due
<1>2. CASE pc[w] = "next"
  <2>1. pc[w] \in InLoop /\ ~ IsDue(at[w])
    BY <1>2 DEF Exclusion, Busy, IsDue, InLoop
  <2>2. \A v \in Workers : at[v] = at[w] /\ pc[v] \in InLoop => v = w
    BY <2>1 DEF Exclusion, OneServes
  <2>3. \A v \in Workers : at[v] = at[w] => pc[v] # "start"
    BY <2>1 DEF Exclusion, Due, Starts
  <2>4. \A i \in 1 .. Len(work) : work[i] # at[w]
    BY <2>1 DEF Exclusion, Due
  <2> QED
    BY <1>2, <2>2, <2>3, <2>4
<1> QED
  BY <1>1, <1>2

LEMMA TurningExcludes ==
    ASSUME Types, Exclusion, NEW w \in Workers, NEW q \in Queues, at[w] = q,
           pc[w] \in {"start", "next"}, Turn(w, q),
           busy' = [busy EXCEPT ![q] = StaysBusy(q)], work' = work
    PROVE  Exclusion'
<1>1. /\ \A v \in Workers \ {w} : pc'[v] = pc[v] /\ at'[v] = at[v]
      /\ pc'[w] \in {"run", "unretain", "loop"}
      /\ pc'[w] = "run" <=> items[q] # <<>>
      /\ at'[w] \in {q, None} /\ (q \in Serial => at'[w] = q)
      /\ \A r \in Queues \ {q} : items'[r] = items[r]
  BY DEF Turn, Types
<1>2. \A r \in Queues \ {q} : busy'[r] = busy[r] /\ (IsDue(r)' <=> IsDue(r))
  BY <1>1 DEF Types, IsDue
<1>3. Busy'
  <2> SUFFICES ASSUME NEW r \in Serial
               PROVE  busy'[r] <=> \E v \in Workers : at'[v] = r /\ pc'[v] \in InLoop
    BY DEF Busy
  <2>1. CASE r = q
    <3>1. busy'[q] <=> pc'[w] = "run"
      BY <1>1, <2>1 DEF Types, StaysBusy
    <3>2. \A v \in Workers \ {w} : ~ (at'[v] = q /\ pc'[v] \in InLoop)
      BY <1>1, <2>1, Alone
    <3>3. at'[w] = q /\ (pc'[w] \in InLoop <=> pc'[w] = "run")
      BY <1>1, <2>1 DEF InLoop, InTask
    <3> QED
      BY <2>1, <3>1, <3>2, <3>3
  <2>2. CASE r # q
    <3>1. r \in Queues /\ busy'[r] = busy[r] /\ r # None
      BY <1>2, <2>2, Constants
    <3>2. \A v \in Workers : at'[v] = r /\ pc'[v] \in InLoop <=> at[v] = r /\ pc[v] \in InLoop
      BY <1>1, <2>2, <3>1
    <3> QED
      BY <3>1, <3>2 DEF Exclusion, Busy
  <2> QED
    BY <2>1, <2>2
<1>4. OneServes'
  <2> SUFFICES ASSUME NEW u \in Workers, NEW v \in Workers, at'[u] = at'[v],
                      at'[u] \in Serial, pc'[u] \in InLoop, pc'[v] \in InLoop, u # v
               PROVE  FALSE
    BY DEF OneServes
  <2>1. CASE u # w /\ v # w
    BY <1>1, <2>1 DEF Exclusion, OneServes
  <2>2. CASE u = w \/ v = w
    BY <1>1, <2>2, Alone, Constants
  <2> QED
    BY <2>1, <2>2
<1>5. Due'
  <2>1. \A v \in Workers : Starts(v)' => v # w /\ Starts(v) /\ at'[v] = at[v] /\ at[v] # q
    BY <1>1, Alone DEF Starts
  <2>2. \A i \in 1 .. Len(work) : work[i] \in Serial => work[i] # q
    BY Alone
  <2>3. \A v \in Workers : Starts(v)' => IsDue(at[v])'
    <3> SUFFICES ASSUME NEW v \in Workers, Starts(v)'
                 PROVE  items'[at'[v]] # <<>> /\ ~ busy'[at'[v]]
      BY DEF IsDue
    <3>1. at'[v] = at[v] /\ at[v] \in Queues \ {q} /\ IsDue(at[v])
      BY <2>1, Constants DEF Exclusion, Due, Starts
    <3> QED
      BY <1>2, <3>1 DEF IsDue
  <2>4. \A i \in 1 .. Len(work) : work[i] \in Serial => IsDue(work[i])'
    <3> SUFFICES ASSUME NEW i \in 1 .. Len(work), work[i] \in Serial
                 PROVE  items'[work[i]] # <<>> /\ ~ busy'[work[i]]
      BY DEF IsDue
    <3> QED
      BY <1>2, <2>2, Constants DEF Exclusion, Due, IsDue
  <2> QED
    BY <2>1, <2>3, <2>4 DEF Exclusion, Due
<1> QED
  BY <1>3, <1>4, <1>5 DEF Exclusion

LEMMA DrivingExcludes ==
    ASSUME Types, Threads, Exclusion, NEW w \in Workers, Drives(w)
    PROVE  Exclusion'
<1>0. at[w] \in Queues
  BY DEF Types, Threads, Drives, StartDrain, TaskReturns, ReleaseList, NextTurn, EndDrain, Out
<1>1. CASE StartDrain(w)
  <2>1. ~ (at[w] \in Serial /\ busy[at[w]])
    BY <1>1, Alone DEF StartDrain, IsDue
  <2>2. /\ pc[w] = "start" /\ Turn(w, at[w]) /\ work' = work
        /\ busy' = [busy EXCEPT ![at[w]] = StaysBusy(at[w])]
    BY <1>1, <2>1 DEF StartDrain
  <2> QED
    BY <1>0, <2>2, TurningExcludes
<1>2. CASE NextTurn(w)
  BY <1>0, <1>2, TurningExcludes DEF NextTurn
<1>3. CASE TaskReturns(w) \/ ReleaseList(w)
  <2>1. \A v \in Workers : /\ pc'[v] \in InLoop <=> pc[v] \in InLoop
                           /\ pc'[v] = "start" <=> pc[v] = "start"
    BY <1>3 DEF TaskReturns, ReleaseList, Types, InLoop, InTask
  <2>2. UNCHANGED <<items, busy, work, at>>
    BY <1>3 DEF TaskReturns, ReleaseList
  <2>3. Busy' /\ OneServes'
    BY <2>1, <2>2 DEF Exclusion, Busy, OneServes
  <2>4. Due'
    BY <2>1, <2>2 DEF Exclusion, Due, Starts, IsDue
  <2> QED
    BY <2>3, <2>4 DEF Exclusion
<1>4. CASE EndDrain(w)
  <2>1. \A v \in Workers : /\ pc'[v] \in InLoop <=> pc[v] \in InLoop
                           /\ pc'[v] = "start" <=> pc[v] = "start"
                           /\ pc[v] \in InLoop \cup {"start"} => at'[v] = at[v]
    BY <1>4 DEF EndDrain, Types, InLoop, InTask
  <2>2. UNCHANGED <<items, busy, work>>
    BY <1>4 DEF EndDrain
  <2>3. Busy' /\ OneServes'
    BY <2>1, <2>2 DEF Exclusion, Busy, OneServes
  <2>4. Due'
    BY <2>1, <2>2 DEF Exclusion, Due, Starts, IsDue
  <2> QED
    BY <2>3, <2>4 DEF Exclusion
<1> QED
  BY <1>1, <1>2, <1>3, <1>4 DEF Drives

LEMMA StepExcludes ==
    ASSUME Types, Threads, Exclusion, Step
    PROVE  Exclusion'
<1>1. CASE Stays
  BY <1>1, StayingExcludes DEF Stays
<1>2. ASSUME NEW q \in Queues, Release(q) PROVE Exclusion'
  BY <1>2, StayingExcludes DEF Release, SamePlace, pool
<1> QED
  BY <1>1, <1>2, TakingExcludes, SubmittingExcludes, DrivingExcludes DEF Step

----------------------------------------------------------------------------
(* What a step does to the tasks: nothing, or one is submitted, begins or ends *)

SameRunning(qs) == \A q \in qs : Running(q)' = Running(q)
Quiet == /\ UNCHANGED <<items, task, finished>> /\ SameRunning(Queues)
Comes(t, q) == /\ t = Cardinality(Submitted) + 1
               /\ items' = [items EXCEPT ![q] = Append(@, t)]
               /\ UNCHANGED <<task, finished>> /\ SameRunning(Queues)
Begins(w, q) == /\ items[q] # <<>>
                /\ q \in Serial => Running(q) = {}
                /\ items' = [items EXCEPT ![q] = Tail(@)]
                /\ task' = [task EXCEPT ![w] = Head(items[q])]
                /\ finished' = finished
                /\ Running(q)' = Running(q) \cup {Head(items[q])}
                /\ SameRunning(Queues \ {q})
Ends(w, q) == /\ task[w] \in Running(q)
              /\ items' = items
              /\ task' = [task EXCEPT ![w] = None]
              /\ finished' = finished \cup {task[w]}
              /\ Running(q)' = Running(q) \ {task[w]}
              /\ SameRunning(Queues \ {q})
Effect == \/ Quiet
          \/ \E t \in Tasks, q \in Queues : Comes(t, q)
          \/ \E w \in Workers, q \in Queues : Begins(w, q) \/ Ends(w, q)

LEMMA WhoRuns ==
    ASSUME NEW q, NEW t
    PROVE  /\ t \in Running(q) <=> \E w \in Workers : at[w] = q /\ pc[w] \in InTask /\ t = task[w]
           /\ t \in Running(q)' <=>
                \E w \in Workers : at'[w] = q /\ pc'[w] \in InTask /\ t = task'[w]
BY DEF Running, InTask

LEMMA SameTasks ==
    ASSUME NEW qs, task' = task,
           \A w \in Workers : /\ pc'[w] \in InTask <=> pc[w] \in InTask
                              /\ pc[w] \in InTask => at'[w] = at[w]
    PROVE  SameRunning(qs)
<1> SUFFICES ASSUME NEW q \in qs PROVE Running(q)' = Running(q)
  BY DEF SameRunning
<1>1. \A t : t \in Running(q)' <=> t \in Running(q)
  BY WhoRuns
<1> QED
  BY <1>1

LEMMA TurnEffect ==
    ASSUME Types, Threads, Exclusion, NEW w \in Workers, NEW q \in Queues, at[w] = q,
           pc[w] \in {"start", "next"}, Turn(w, q), finished' = finished
    PROVE  Quiet \/ Begins(w, q)
<1>1. CASE items[q] = <<>>
  <2>1. /\ UNCHANGED <<items, task>>
        /\ \A v \in Workers : /\ pc'[v] \in InTask <=> pc[v] \in InTask
                              /\ pc[v] \in InTask => at'[v] = at[v]
    BY <1>1 DEF Turn, Types, InTask
  <2> QED
    BY <2>1, SameTasks DEF Quiet
<1>2. CASE items[q] # <<>>
  <2>1. /\ task' = [task EXCEPT ![w] = Head(items[q])]
        /\ items' = [items EXCEPT ![q] = Tail(@)]
        /\ pc' = [pc EXCEPT ![w] = "run"] /\ at' = at
    BY <1>2 DEF Turn
  <2>2. /\ pc[w] \notin InTask /\ pc'[w] \in InTask /\ task'[w] = Head(items[q])
        /\ \A v \in Workers \ {w} : pc'[v] = pc[v] /\ task'[v] = task[v]
    BY <2>1 DEF Types, InTask
  <2>3. Running(q)' = Running(q) \cup {Head(items[q])}
    <3>1. \A t : t \in Running(q)' <=> t \in Running(q) \/ t = Head(items[q])
      BY <2>1, <2>2, WhoRuns
    <3> QED
      BY <3>1
  <2>4. SameRunning(Queues \ {q})
    <3> SUFFICES ASSUME NEW r \in Queues \ {q} PROVE Running(r)' = Running(r)
      BY DEF SameRunning
    <3>1. \A t : t \in Running(r)' <=> t \in Running(r)
      BY <2>1, <2>2, WhoRuns
    <3> QED
      BY <3>1
  <2>5. ASSUME q \in Serial PROVE Running(q) = {}
    <3>1. \A v \in Workers : at[v] = q => pc[v] \notin InTask
      BY <2>2, <2>5, Alone DEF InLoop
    <3> QED
      BY <3>1, WhoRuns
  <2> QED
    BY <1>2, <2>1, <2>3, <2>4, <2>5 DEF Begins
<1> QED
  BY <1>1, <1>2

LEMMA ReturnEffect ==
    ASSUME Types, Threads, Once, NEW w \in Workers, TaskReturns(w)
    PROVE  at[w] \in Queues /\ Ends(w, at[w])
<1>1. /\ pc[w] \in InTask /\ pc'[w] \notin InTask /\ task'[w] = None /\ task[w] # None
      /\ \A v \in Workers \ {w} : pc'[v] = pc[v] /\ task'[v] = task[v] /\ task[v] # task[w]
      /\ UNCHANGED <<items, at>> /\ finished' = finished \cup {task[w]}
      /\ task' = [task EXCEPT ![w] = None]
  BY DEF TaskReturns, Types, Threads, InTask, Once
<1>2. at[w] \in Queues
  BY <1>1 DEF Types, Threads, InTask, Out
<1>3. task[w] \in Running(at[w])
  BY <1>1, WhoRuns
<1>4. Running(at[w])' = Running(at[w]) \ {task[w]}
  <2>1. \A t : t \in Running(at[w])' <=> t \in Running(at[w]) /\ t # task[w]
    BY <1>1, WhoRuns
  <2> QED
    BY <2>1
<1>5. SameRunning(Queues \ {at[w]})
  <2> SUFFICES ASSUME NEW r \in Queues \ {at[w]} PROVE Running(r)' = Running(r)
    BY DEF SameRunning
  <2>1. \A t : t \in Running(r)' <=> t \in Running(r)
    BY <1>1, WhoRuns
  <2> QED
    BY <2>1
<1> QED
  BY <1>1, <1>2, <1>3, <1>4, <1>5 DEF Ends

LEMMA StepEffect ==
    ASSUME Types, Threads, Exclusion, Once, Step
    PROVE  Effect
<1>1. CASE Stays
  <2>1. \A w \in Workers : pc'[w] \in InTask <=> pc[w] \in InTask
    BY <1>1 DEF Stays, SamePlace, InTask, Out
  <2> QED
    BY <1>1, <2>1, SameTasks DEF Stays, Effect, Quiet
<1>2. ASSUME NEW w \in Workers, Takes(w) PROVE Effect
  <2>1. \A v \in Workers : /\ pc'[v] \in InTask <=> pc[v] \in InTask
                           /\ pc[v] \in InTask => at'[v] = at[v]
    BY <1>2 DEF Takes, Types, InTask, Out
  <2> QED
    BY <1>2, <2>1, SameTasks DEF Takes, Effect, Quiet
<1>3. ASSUME NEW t \in Tasks, NEW q \in Queues, Submits(t, q) PROVE Effect
  <2>1. \A w \in Workers : pc'[w] \in InTask <=> pc[w] \in InTask
    BY <1>3 DEF Submits, SamePlace, InTask, Out
  <2>2. Comes(t, q)
    BY <1>3, <2>1, SameTasks DEF Submits, Comes
  <2> QED
    BY <2>2 DEF Effect
<1>4. ASSUME NEW q \in Queues, Release(q) PROVE Effect
  BY <1>4, SameTasks DEF Release, Effect, Quiet, pool
<1>5. ASSUME NEW w \in Workers, StartDrain(w) PROVE Effect
  <2>1. at[w] \in Queues /\ pc[w] = "start" /\ finished' = finished
    BY <1>5 DEF StartDrain, Types, Threads, Out
  <2>2. CASE at[w] \in Serial /\ busy[at[w]]
    <3>1. /\ UNCHANGED <<items, at, task>> /\ pc' = [pc EXCEPT ![w] = "unretain"]
      BY <1>5, <2>2 DEF StartDrain, pool
    <3>2. \A v \in Workers : pc'[v] \in InTask <=> pc[v] \in InTask
      BY <2>1, <3>1 DEF Types, InTask
    <3> QED
      BY <2>1, <3>1, <3>2, SameTasks DEF Effect, Quiet
  <2>3. CASE ~ (at[w] \in Serial /\ busy[at[w]])
    <3>1. Turn(w, at[w])
      BY <1>5, <2>3 DEF StartDrain
    <3> QED
      BY <2>1, <3>1, TurnEffect DEF Effect
  <2> QED
    BY <2>2, <2>3
<1>6. ASSUME NEW w \in Workers, NextTurn(w) PROVE Effect
  <2>1. at[w] \in Queues
    BY <1>6 DEF NextTurn, Types, Threads, Out
  <2> QED
    BY <1>6, <2>1, TurnEffect DEF NextTurn, Effect
<1>7. ASSUME NEW w \in Workers, TaskReturns(w) PROVE Effect
  BY <1>7, ReturnEffect DEF Effect
<1>8. ASSUME NEW w \in Workers, ReleaseList(w) \/ EndDrain(w) PROVE Effect
  <2>1. \A v \in Workers : /\ pc'[v] \in InTask <=> pc[v] \in InTask
                           /\ pc[v] \in InTask => at'[v] = at[v]
    BY <1>8 DEF ReleaseList, EndDrain, Types, InTask
  <2> QED
    BY <1>8, <2>1, SameTasks DEF ReleaseList, EndDrain, Effect, Quiet
<1> QED
  BY <1>1, <1>2, <1>3, <1>4, <1>5, <1>6, <1>7, <1>8 DEF Step, Drives

----------------------------------------------------------------------------
(* Every task is in one place *)

LEMMA WhoIsSubmitted ==
    ASSUME NEW t
    PROVE  /\ t \in Submitted <=> \/ t \in finished
                                  \/ \E q \in Queues : t \in Running(q) \/ t \in Queued(q)
           /\ t \in Submitted' <=> \/ t \in finished'
                                   \/ \E q \in Queues : t \in Running(q)' \/ t \in Queued(q)'
BY DEF Submitted

LEMMA WhoIsQueued ==
    ASSUME Types, NEW q \in Queues, NEW t
    PROVE  t \in Queued(q) <=> \E i \in 1 .. Len(items[q]) : t = items[q][i]
<1>1. items[q] \in Seq(Tasks)
  BY DEF Types
<1>2. DOMAIN items[q] = 1 .. Len(items[q])
  BY <1>1
<1> QED
  BY <1>2 DEF Queued

LEMMA WhoIsQueuedNext ==
    ASSUME Types', NEW q \in Queues, NEW t
    PROVE  t \in Queued(q)' <=> \E i \in 1 .. Len(items'[q]) : t = items'[q][i]
<1>1. items'[q] \in Seq(Tasks)
  BY DEF Types
<1>2. DOMAIN items'[q] = 1 .. Len(items'[q])
  BY <1>1
<1> QED
  BY <1>2 DEF Queued

LEMMA TaskIsSubmitted ==
    ASSUME Types, Threads, NEW w \in Workers, task[w] # None
    PROVE  task[w] \in Submitted
<1>1. pc[w] \in InTask /\ at[w] \in Queues
  BY DEF Types, Threads, InTask, Out
<1>2. task[w] \in Running(at[w])
  BY <1>1, WhoRuns
<1> QED
  BY <1>1, <1>2, WhoIsSubmitted

LEMMA NewTask ==
    ASSUME InTurn, NEW t, t = Cardinality(Submitted) + 1
    PROVE  t \notin Submitted /\ \E n \in Nat : Submitted = 1 .. n /\ t = n + 1
<1>1. PICK n \in Nat : Submitted = 1 .. n
  BY DEF InTurn
<1>2. Cardinality(1 .. n) = n
  BY FS_Interval
<1> QED
  BY <1>1, <1>2

\* A list loses its first task, or gets one at its end.
Longer(q, t) ==
    /\ \A r \in Queues \ {q} : items'[r] = items[r]
    /\ Len(items[q]) \in Nat
    /\ \A i \in 1 .. Len(items'[q]) : \/ i \in 1 .. Len(items[q]) /\ items'[q][i] = items[q][i]
                                      \/ i = Len(items[q]) + 1 /\ items'[q][i] = t
    /\ \A i \in 1 .. Len(items[q]) : i \in 1 .. Len(items'[q]) /\ items'[q][i] = items[q][i]
    /\ \E i \in 1 .. Len(items'[q]) : items'[q][i] = t
Shorter(q) ==
    /\ \A r \in Queues \ {q} : items'[r] = items[r]
    /\ Len(items[q]) \in Nat /\ 1 \in 1 .. Len(items[q]) /\ items[q][1] = Head(items[q])
    /\ \A i \in 1 .. Len(items'[q]) :
          i + 1 \in 1 .. Len(items[q]) /\ i + 1 # 1 /\ items'[q][i] = items[q][i + 1]
    /\ \A i \in 1 .. Len(items[q]) :
          i # 1 => i - 1 \in 1 .. Len(items'[q]) /\ items'[q][i - 1] = items[q][i]

LEMMA AppendedList ==
    ASSUME Types, NEW q \in Queues, NEW t \in Tasks,
           items' = [items EXCEPT ![q] = Append(@, t)]
    PROVE  Longer(q, t)
<1>1. items[q] \in Seq(Tasks) /\ items'[q] = Append(items[q], t)
  BY DEF Types
<1>2. /\ Len(items[q]) \in Nat /\ Len(items'[q]) = Len(items[q]) + 1
      /\ items'[q][Len(items[q]) + 1] = t
      /\ \A i \in 1 .. Len(items[q]) : items'[q][i] = items[q][i]
  BY <1>1, AppendFacts
<1> QED
  BY <1>2 DEF Types, Longer

LEMMA ShortenedList ==
    ASSUME Types, NEW q \in Queues, items[q] # <<>>, items' = [items EXCEPT ![q] = Tail(@)]
    PROVE  Shorter(q)
<1>1. items[q] \in Seq(Tasks) /\ items'[q] = Tail(items[q])
  BY DEF Types
<1>2. /\ Len(items[q]) \in Nat \ {0} /\ Len(items'[q]) = Len(items[q]) - 1
      /\ Head(items[q]) = items[q][1]
      /\ \A i \in 1 .. Len(items[q]) - 1 : items'[q][i] = items[q][i + 1]
  BY <1>1, TailFacts, ZenonT(60)
<1>3. ASSUME NEW i \in 1 .. Len(items[q]), i # 1
      PROVE  i - 1 \in 1 .. Len(items[q]) - 1 /\ items'[q][i - 1] = items[q][i]
  <2>1. i - 1 \in 1 .. Len(items[q]) - 1 /\ (i - 1) + 1 = i
    BY <1>2, <1>3
  <2> QED
    BY <1>2, <2>1
<1> QED
  BY <1>2, <1>3 DEF Types, Shorter

LEMMA ComingKeeps ==
    ASSUME Types, Types', Threads, Once, InTurn, NEW t \in Tasks, NEW q \in Queues, Comes(t, q)
    PROVE  Once' /\ InTurn'
<1>1. PICK n \in Nat : Submitted = 1 .. n /\ t = n + 1 /\ t \notin Submitted
  BY NewTask DEF Comes
<1>2. \A w \in Workers : task[w] # t
  BY <1>1, TaskIsSubmitted, Constants
<1>3. \A r \in Queues : \A i \in 1 .. Len(items[r]) : items[r][i] # t
  BY <1>1, WhoIsQueued, WhoIsSubmitted
<1>4. Longer(q, t) /\ task' = task
  BY AppendedList DEF Comes
<1>5. Once'
  <2>1. \A r \in Queues, w \in Workers : \A i \in 1 .. Len(items'[r]) : items'[r][i] # task'[w]
    BY <1>2, <1>4 DEF Longer, Once
  <2>2. ASSUME NEW r \in Queues, NEW s \in Queues, NEW i \in 1 .. Len(items'[r]),
               NEW j \in 1 .. Len(items'[s]), items'[r][i] = items'[s][j]
        PROVE  r = s /\ i = j
    <3>1. \/ i \in 1 .. Len(items[r]) /\ items'[r][i] = items[r][i]
          \/ r = q /\ i = Len(items[r]) + 1 /\ items'[r][i] = t
      BY <1>4 DEF Longer
    <3>2. \/ j \in 1 .. Len(items[s]) /\ items'[s][j] = items[s][j]
          \/ s = q /\ j = Len(items[s]) + 1 /\ items'[s][j] = t
      BY <1>4 DEF Longer
    <3> QED
      BY <1>3, <2>2, <3>1, <3>2 DEF Once
  <2> QED
    BY <1>4, <2>1, <2>2 DEF Once
<1>6. Submitted' = Submitted \cup {t}
  <2>1. \A r \in Queues \ {q} : Queued(r)' = Queued(r)
    BY <1>4 DEF Longer, Queued
  <2>2. \A x : x \in Queued(q)' <=> x \in Queued(q) \/ x = t
    <3>1. \A x : x \in Queued(q) <=> \E i \in 1 .. Len(items[q]) : x = items[q][i]
      BY WhoIsQueued
    <3>2. \A x : x \in Queued(q)' <=> \E i \in 1 .. Len(items'[q]) : x = items'[q][i]
      BY WhoIsQueuedNext
    <3>3. /\ \A i \in 1 .. Len(items'[q]) :
                (i \in 1 .. Len(items[q]) /\ items'[q][i] = items[q][i]) \/ items'[q][i] = t
          /\ \A i \in 1 .. Len(items[q]) : i \in 1 .. Len(items'[q]) /\ items'[q][i] = items[q][i]
          /\ \E i \in 1 .. Len(items'[q]) : items'[q][i] = t
      BY <1>4 DEF Longer
    <3> QED
      BY <3>1, <3>2, <3>3
  <2>3. \A x : x \in Submitted' <=> x \in Submitted \/ x = t
    BY <2>1, <2>2, WhoIsSubmitted DEF Comes, SameRunning
  <2> QED
    BY <2>3
<1>7. Submitted' = 1 .. n + 1
  BY <1>1, <1>6
<1> QED
  BY <1>1, <1>5, <1>7 DEF InTurn

LEMMA BeginningKeeps ==
    ASSUME Types, Types', Once, InTurn, NEW w \in Workers, NEW q \in Queues, Begins(w, q)
    PROVE  Once' /\ InTurn'
<1> DEFINE h == Head(items[q])
<1>1. /\ items[q] # <<>> /\ items' = [items EXCEPT ![q] = Tail(@)]
      /\ task' = [task EXCEPT ![w] = h]
  BY DEF Begins
<1>2. Shorter(q) /\ 1 \in 1 .. Len(items[q]) /\ h = items[q][1]
  BY <1>1, ShortenedList DEF Shorter
<1>3. \A r \in Queues : \A i \in 1 .. Len(items'[r]) : items'[r][i] # h
  <2> SUFFICES ASSUME NEW r \in Queues, NEW i \in 1 .. Len(items'[r]), items'[r][i] = h
               PROVE  FALSE
    OBVIOUS
  <2>1. CASE r = q
    <3>1. i + 1 \in 1 .. Len(items[q]) /\ i + 1 # 1 /\ items[q][i + 1] = items[q][1]
      BY <1>2, <2>1 DEF Shorter
    <3> QED
      BY <1>2, <3>1 DEF Once
  <2>2. CASE r # q
    BY <1>2, <2>2 DEF Shorter, Once
  <2> QED
    BY <2>1, <2>2
<1>4. \A r \in Queues : \A i \in 1 .. Len(items'[r]) :
         \E j \in 1 .. Len(items[r]) : items'[r][i] = items[r][j] /\ (r = q => j = i + 1)
                                       /\ (r # q => j = i)
  BY <1>2 DEF Shorter
<1>5. Once'
  <2>1. \A v \in Workers : v # w => task'[v] = task[v] /\ task[v] # h
    BY <1>1, <1>2 DEF Types, Once
  <2>2. task'[w] = h
    BY <1>1 DEF Types
  <2>3. \A u, v \in Workers : task'[u] # None /\ task'[u] = task'[v] => u = v
    BY <2>1, <2>2 DEF Once
  <2>4. \A r \in Queues, v \in Workers : \A i \in 1 .. Len(items'[r]) : items'[r][i] # task'[v]
    BY <1>3, <1>4, <2>1, <2>2 DEF Once
  <2>5. ASSUME NEW r \in Queues, NEW s \in Queues, NEW i \in 1 .. Len(items'[r]),
               NEW j \in 1 .. Len(items'[s]), items'[r][i] = items'[s][j]
        PROVE  r = s /\ i = j
    <3>1. PICK k \in 1 .. Len(items[r]) : items'[r][i] = items[r][k] /\ (r = q => k = i + 1)
                                          /\ (r # q => k = i)
      BY <1>4
    <3>2. PICK l \in 1 .. Len(items[s]) : items'[s][j] = items[s][l] /\ (s = q => l = j + 1)
                                          /\ (s # q => l = j)
      BY <1>4
    <3>3. items[r][k] = items[s][l]
      BY <2>5, <3>1, <3>2
    <3>4. r = s /\ k = l
      BY <3>3 DEF Once
    <3>5. CASE r = q
      <4>1. k = i + 1 /\ l = j + 1 /\ i \in Int /\ j \in Int
        BY <3>1, <3>2, <3>4, <3>5
      <4>2. i + 1 = j + 1
        BY <3>4, <4>1
      <4>3. i = j
        BY <4>1, <4>2
      <4> QED
        BY <3>4, <4>3
    <3>6. CASE r # q
      BY <3>1, <3>2, <3>4, <3>6
    <3> QED
      BY <3>5, <3>6
  <2> QED
    BY <2>3, <2>4, <2>5 DEF Once
<1>6. Submitted' = Submitted
  <2>1. \A r \in Queues \ {q} : Queued(r)' = Queued(r) /\ Running(r)' = Running(r)
    BY <1>2 DEF Shorter, Queued, Begins, SameRunning
  <2>2. \A x : x \in Queued(q) <=> x \in Queued(q)' \/ x = h
    <3>1. \A x : x \in Queued(q) <=> \E i \in 1 .. Len(items[q]) : x = items[q][i]
      BY WhoIsQueued
    <3>2. \A x : x \in Queued(q)' <=> \E i \in 1 .. Len(items'[q]) : x = items'[q][i]
      BY WhoIsQueuedNext
    <3>3. /\ \A i \in 1 .. Len(items'[q]) : i + 1 \in 1 .. Len(items[q])
                                            /\ items'[q][i] = items[q][i + 1]
          /\ \A i \in 1 .. Len(items[q]) :
                i # 1 => i - 1 \in 1 .. Len(items'[q]) /\ items'[q][i - 1] = items[q][i]
      BY <1>2 DEF Shorter
    <3> SUFFICES ASSUME NEW x PROVE x \in Queued(q) <=> x \in Queued(q)' \/ x = h
      OBVIOUS
    <3> HIDE DEF h
    <3>4. ASSUME x \in Queued(q) PROVE x \in Queued(q)' \/ x = h
      <4>1. PICK i \in 1 .. Len(items[q]) : x = items[q][i]
        BY <3>1, <3>4
      <4>2. CASE i = 1
        BY <1>2, <4>1, <4>2
      <4>3. CASE i # 1
        BY <3>2, <3>3, <4>1, <4>3
      <4> QED
        BY <4>2, <4>3
    <3>5. ASSUME x \in Queued(q)' PROVE x \in Queued(q)
      <4>1. PICK i \in 1 .. Len(items'[q]) : x = items'[q][i]
        BY <3>2, <3>5
      <4> QED
        BY <3>1, <3>3, <4>1
    <3>6. ASSUME x = h PROVE x \in Queued(q)
      BY <1>2, <3>1, <3>6
    <3> QED
      BY <3>4, <3>5, <3>6
  <2>3. Running(q)' = Running(q) \cup {h} /\ finished' = finished
    BY DEF Begins
  <2>4. \A x : x \in Submitted' <=> x \in Submitted
    BY <2>1, <2>2, <2>3, WhoIsSubmitted
  <2> QED
    BY <2>4
<1> QED
  BY <1>5, <1>6 DEF InTurn

LEMMA EndingKeeps ==
    ASSUME Types, Once, InTurn, NEW w \in Workers, NEW q \in Queues, Ends(w, q)
    PROVE  Once' /\ InTurn'
<1>1. items' = items /\ task' = [task EXCEPT ![w] = None]
  BY DEF Ends
<1>2. \A r \in Queues : \A i \in 1 .. Len(items[r]) : items[r][i] # None
  BY AppendFacts, ElementOfSeq, Constants DEF Types
<1>3. Once'
  BY <1>1, <1>2 DEF Types, Once
<1>4. \A r \in Queues : Queued(r)' = Queued(r)
  BY <1>1 DEF Queued
<1>5. \A x : x \in Submitted' <=> x \in Submitted
  BY <1>4, WhoIsSubmitted DEF Ends, SameRunning
<1> QED
  BY <1>3, <1>5 DEF InTurn

LEMMA EffectKeeps ==
    ASSUME Types, Types', Threads, Once, InTurn, Effect
    PROVE  Once' /\ InTurn'
<1>1. CASE Quiet
  <2>1. \A r \in Queues : Queued(r)' = Queued(r)
    BY <1>1 DEF Quiet, Queued
  <2>2. \A x : x \in Submitted' <=> x \in Submitted
    BY <1>1, <2>1, WhoIsSubmitted DEF Quiet, SameRunning
  <2>3. InTurn'
    BY <2>2 DEF InTurn
  <2>4. Once'
    BY <1>1 DEF Quiet, Once
  <2> QED
    BY <2>3, <2>4
<1> QED
  BY <1>1, ComingKeeps, BeginningKeeps, EndingKeeps DEF Effect

----------------------------------------------------------------------------
(* The references of a queue *)

LEMMA ThreadsFinite ==
    ASSUME NEW S \in SUBSET Workers
    PROVE  IsFiniteSet(S) /\ Cardinality(S) \in Nat
<1>1. IsFiniteSet(Workers)
  BY FS_Interval, ThreadsAssumption DEF Workers
<1> QED
  BY <1>1, FS_Subset, FS_CardinalityType

LEMMA Subsets ==
    ASSUME NEW q
    PROVE  /\ Drains(q) \in SUBSET Workers /\ Lists(q) \in SUBSET Workers
           /\ Drains(q)' \in SUBSET Workers /\ Lists(q)' \in SUBSET Workers
           /\ Cardinality(Drains(q)) \in Nat /\ Cardinality(Lists(q)) \in Nat
<1>1. /\ Drains(q) \in SUBSET Workers /\ Lists(q) \in SUBSET Workers
      /\ Drains(q)' \in SUBSET Workers /\ Lists(q)' \in SUBSET Workers
  BY DEF Drains, Lists
<1> QED
  BY <1>1, ThreadsFinite

LEMMA OneMore ==
    ASSUME NEW S \in SUBSET Workers, NEW w \in Workers, w \notin S
    PROVE  Cardinality(S \cup {w}) = Cardinality(S) + 1
BY ThreadsFinite, FS_AddElement

LEMMA OneLess ==
    ASSUME NEW S \in SUBSET Workers, NEW w \in S
    PROVE  Cardinality(S \ {w}) = Cardinality(S) - 1
BY ThreadsFinite, FS_RemoveElement

LEMMA Numbers ==
    ASSUME NEW q
    PROVE  /\ Owner(q) \in Nat /\ NonEmpty(q) \in Nat /\ NonEmpty(q)' \in Nat /\ OfDrain(q) \in Nat
BY DEF Owner, NonEmpty, OfDrain

\* Nothing that counts for q changes.
Undisturbed(q) ==
    /\ Drains(q)' = Drains(q) /\ Lists(q)' = Lists(q)
    /\ refs'[q] = refs[q] /\ held'[q] = held[q]
    /\ items'[q] = <<>> <=> items[q] = <<>>

LEMMA UndisturbedCounts ==
    ASSUME NEW q, CountedOf(q), Undisturbed(q)
    PROVE  CountedOf(q)'
BY DEF CountedOf, Undisturbed, Owner, NonEmpty, OfDrain

LEMMA SameThreads ==
    ASSUME NEW q \in Queues, NEW w \in Workers, q # at[w], q # at'[w],
           \A v \in Workers \ {w} : pc'[v] = pc[v] /\ at'[v] = at[v] /\ last'[v] = last[v]
    PROVE  Drains(q)' = Drains(q) /\ Lists(q)' = Lists(q)
BY DEF Drains, Lists

LEMMA StayingCounts ==
    ASSUME Types, Threads, Counted, \A w \in Workers : SamePlace(w),
           UNCHANGED <<at, last>>
    PROVE  \A q \in Queues : Drains(q)' = Drains(q) /\ Lists(q)' = Lists(q)
<1>1. \A w \in Workers : pc'[w] \in Retained <=> pc[w] \in Retained
  BY DEF SamePlace, Retained, InLoop, InTask, Out
<1> QED
  BY <1>1 DEF Drains, Lists

LEMMA TakingCounts ==
    ASSUME Types, Threads, Counted, NEW w \in Workers, Takes(w)
    PROVE  Counted'
<1> SUFFICES ASSUME NEW q \in Queues PROVE CountedOf(q)'
  BY DEF Counted
<1>1. /\ w \notin Drains(q) /\ w \notin Lists(q)
      /\ w \notin Drains(q)' /\ w \notin Lists(q)'
      /\ \A v \in Workers \ {w} : pc'[v] = pc[v] /\ at'[v] = at[v] /\ last'[v] = last[v]
      /\ UNCHANGED <<items, refs, held>>
  BY DEF Takes, Types, Threads, Drains, Lists, Out, InTask, InLoop, Retained
<1>2. Drains(q)' = Drains(q) /\ Lists(q)' = Lists(q)
  <2>1. \A v : v \in Drains(q)' <=> v \in Drains(q)
    BY <1>1 DEF Drains
  <2>2. \A v : v \in Lists(q)' <=> v \in Lists(q)
    BY <1>1 DEF Lists
  <2> QED
    BY <2>1, <2>2
<1> QED
  BY <1>1, <1>2, UndisturbedCounts DEF Counted, Undisturbed

LEMMA SubmittingCounts ==
    ASSUME Types, Threads, Counted, NEW t \in Tasks, NEW q \in Queues, Submits(t, q)
    PROVE  Counted'
<1> SUFFICES ASSUME NEW r \in Queues PROVE CountedOf(r)'
  BY DEF Counted
<1>1. Drains(r)' = Drains(r) /\ Lists(r)' = Lists(r) /\ held'[r] = held[r]
  BY StayingCounts DEF Submits
<1>2. CASE r # q
  BY <1>1, <1>2, UndisturbedCounts DEF Submits, Types, Counted, Undisturbed
<1>3. CASE r = q
  <2>1. items'[q] # <<>>
    BY AppendFacts DEF Types, Submits
  <2>2. refs'[q] = IF items[q] = <<>> THEN refs[q] + 1 ELSE refs[q]
    BY DEF Types, Submits
  <2>3. CountedOf(q) /\ refs[q] \in Int
    BY DEF Counted, Types
  <2> QED
    BY <1>1, <1>3, <2>1, <2>2, <2>3, Subsets DEF CountedOf, Owner, NonEmpty, OfDrain
<1> QED
  BY <1>2, <1>3

LEMMA ReleasingCounts ==
    ASSUME Types, Threads, Counted, NEW q \in Queues, Release(q)
    PROVE  Counted'
<1> SUFFICES ASSUME NEW r \in Queues PROVE CountedOf(r)'
  BY DEF Counted
<1>1. Drains(r)' = Drains(r) /\ Lists(r)' = Lists(r) /\ items' = items
  BY DEF Release, Drains, Lists, pool
<1>2. CASE r # q
  BY <1>1, <1>2, UndisturbedCounts DEF Release, Types, Counted, Undisturbed
<1>3. CASE r = q
  <2>1. held[q] /\ ~ held'[q] /\ refs'[q] = refs[q] - 1
    BY DEF Release, Types
  <2>2. CountedOf(q) /\ refs[q] \in Int
    BY DEF Counted, Types
  <2> QED
    BY <1>1, <1>3, <2>1, <2>2, Subsets DEF CountedOf, Owner, NonEmpty, OfDrain
<1> QED
  BY <1>2, <1>3

\* A turn moves the reference of a list to the thread that takes its last task.
LEMMA TurningCounts ==
    ASSUME Types, Threads, NEW w \in Workers, NEW q \in Queues, at[w] = q,
           pc[w] \in {"start", "next"}, Turn(w, q)
    PROVE  /\ NonEmpty(q)' + Cardinality(Lists(q)')
                = NonEmpty(q) + Cardinality(Lists(q))
           /\ Drains(q)' = IF q \in Serial THEN Drains(q) \cup {w} ELSE Drains(q)
           /\ \A r \in Queues \ {q} : Drains(r)' = Drains(r) /\ Lists(r)' = Lists(r)
                                      /\ items'[r] = items[r]
<1>1. /\ \A v \in Workers \ {w} : pc'[v] = pc[v] /\ at'[v] = at[v] /\ last'[v] = last[v]
      /\ pc'[w] \in {"run", "unretain", "loop"} /\ at'[w] \in {q, None}
      /\ q \in Serial => at'[w] = q /\ pc'[w] \in Retained
      /\ ~ last[w]
      /\ \A r \in Queues \ {q} : items'[r] = items[r]
  BY ZenonT(60) DEF Turn, Types, Threads, Retained, InLoop, InTask
<1>2. \A r \in Queues \ {q} : Drains(r)' = Drains(r) /\ Lists(r)' = Lists(r)
  BY <1>1, SameThreads, Constants
<1>3. Drains(q)' = IF q \in Serial THEN Drains(q) \cup {w} ELSE Drains(q)
  BY <1>1 DEF Drains
<1>4. NonEmpty(q)' + Cardinality(Lists(q)') = NonEmpty(q) + Cardinality(Lists(q))
  <2>1. CASE items[q] = <<>>
    <3>1. items' = items /\ last' = last
      BY <2>1 DEF Turn
    <3>2. Lists(q)' = Lists(q)
      BY <1>1, <3>1 DEF Lists
    <3> QED
      BY <3>1, <3>2 DEF NonEmpty
  <2>2. CASE items[q] # <<>>
    <3>1. /\ items'[q] = Tail(items[q]) /\ at' = at
          /\ last' = [last EXCEPT ![w] = IsLast(q)]
      BY <2>2 DEF Turn, Types
    <3>2. /\ Len(items[q]) \in Nat \ {0} /\ Len(items'[q]) = Len(items[q]) - 1
          /\ items'[q] \in Seq(Tasks)
      BY <2>2, <3>1, TailFacts DEF Types
    <3>3. items'[q] = <<>> <=> IsLast(q)
      <4>1. items'[q] = <<>> <=> Len(items'[q]) = 0
        BY <3>2, EmptySeq
      <4> QED
        BY <3>2, <4>1 DEF IsLast
    <3>4. CASE IsLast(q)
      <4>1. Lists(q)' = Lists(q) \cup {w} /\ w \notin Lists(q)
        BY <1>1, <3>1, <3>4 DEF Lists, Types
      <4> QED
        BY <2>2, <3>3, <3>4, <4>1, OneMore, Subsets DEF Owner, NonEmpty, OfDrain
    <3>5. CASE ~ IsLast(q)
      <4>1. Lists(q)' = Lists(q)
        BY <1>1, <3>1, <3>5 DEF Lists, Types
      <4> QED
        BY <2>2, <3>3, <3>5, <4>1 DEF Owner, NonEmpty, OfDrain
    <3> QED
      BY <3>4, <3>5
  <2> QED
    BY <2>1, <2>2
<1> QED
  BY <1>1, <1>2, <1>3, <1>4

LEMMA DrivingCounts ==
    ASSUME Types, Threads, Exclusion, Counted, NEW w \in Workers, Drives(w)
    PROVE  Counted'
<1> SUFFICES ASSUME NEW r \in Queues PROVE CountedOf(r)'
  BY DEF Counted
<1>q. PICK q \in Queues : q = at[w]
  BY DEF Types, Threads, Drives, StartDrain, TaskReturns, ReleaseList, NextTurn, EndDrain, Out
<1>0. CountedOf(q) /\ CountedOf(r) /\ refs[q] \in Int /\ at[w] = q
  BY <1>q DEF Types, Counted
<1>1. CASE StartDrain(w)
  <2>1. /\ pc[w] = "start" /\ Turn(w, q) /\ held' = held
        /\ refs' = [refs EXCEPT ![q] = IF q \in Serial THEN @ + 1 ELSE @]
    BY <1>0, <1>1, Alone DEF StartDrain, IsDue
  <2>2. CASE r # q
    BY <1>0, <2>1, <2>2, TurningCounts, UndisturbedCounts, ZenonT(60) DEF Undisturbed, Types
  <2>3. CASE r = q
    <3>1. w \notin Drains(q)
      BY <1>0, <2>1 DEF Drains, Retained, InLoop, InTask
    <3>2. Cardinality(Drains(q)') = Cardinality(Drains(q)) + OfDrain(q)
      <4>1. Drains(q)' = IF q \in Serial THEN Drains(q) \cup {w} ELSE Drains(q)
        BY <1>0, <2>1, TurningCounts
      <4>2. Cardinality(Drains(q) \cup {w}) = Cardinality(Drains(q)) + 1
        BY <3>1, OneMore, Subsets
      <4>3. CASE q \in Serial
        BY <4>1, <4>2, <4>3 DEF Owner, NonEmpty, OfDrain
      <4>4. CASE q \notin Serial
        BY <4>1, <4>4, Subsets DEF Owner, NonEmpty, OfDrain
      <4> QED
        BY <4>3, <4>4
    <3>3. NonEmpty(q)' + Cardinality(Lists(q)') = NonEmpty(q) + Cardinality(Lists(q))
      BY <1>0, <2>1, TurningCounts
    <3>4. refs'[q] = refs[q] + OfDrain(q) /\ held'[q] = held[q]
      BY <1>0, <2>1 DEF Types, Owner, NonEmpty, OfDrain
    <3>5. Cardinality(Lists(q)') \in Nat
      BY Subsets, ThreadsFinite
    <3>6. CountedOf(q)'
      <4>1. /\ refs[q] = Owner(q) + NonEmpty(q) + Cardinality(Drains(q))
                         + Cardinality(Lists(q))
            /\ Owner(q)' = Owner(q)
        BY <1>0, <3>4 DEF CountedOf, Owner
      <4>t. /\ Owner(q) \in Nat /\ NonEmpty(q) \in Nat /\ NonEmpty(q)' \in Nat /\ OfDrain(q) \in Nat
            /\ Cardinality(Drains(q)) \in Nat /\ Cardinality(Lists(q)) \in Nat
        BY Numbers, Subsets
      <4>2. refs'[q] = Owner(q)' + NonEmpty(q)' + Cardinality(Drains(q)')
                       + Cardinality(Lists(q)')
        BY <3>2, <3>3, <3>4, <3>5, <4>1, <4>t
      <4> QED
        BY <4>2 DEF CountedOf
    <3> QED
      BY <2>3, <3>6
  <2> QED
    BY <2>2, <2>3
<1>2. CASE NextTurn(w)
  <2>1. /\ pc[w] = "next" /\ Turn(w, q) /\ held' = held /\ refs' = refs
    BY <1>0, <1>2 DEF NextTurn
  <2>2. CASE r # q
    BY <1>0, <2>1, <2>2, TurningCounts, UndisturbedCounts, ZenonT(60) DEF Undisturbed, Types
  <2>3. CASE r = q
    <3>1. q \in Serial => w \in Drains(q)
      BY <1>0, <2>1 DEF Drains, Retained, InLoop, InTask
    <3>2. Drains(q)' = Drains(q)
      <4>1. Drains(q)' = IF q \in Serial THEN Drains(q) \cup {w} ELSE Drains(q)
        BY <1>0, <2>1, TurningCounts
      <4>2. w \in Drains(q) => Drains(q) \cup {w} = Drains(q)
        OBVIOUS
      <4> QED
        BY <3>1, <4>1, <4>2
    <3>3. NonEmpty(q)' + Cardinality(Lists(q)') = NonEmpty(q) + Cardinality(Lists(q))
      BY <1>0, <2>1, TurningCounts
    <3>4. Cardinality(Lists(q)') \in Nat
      BY Subsets, ThreadsFinite
    <3>5. CountedOf(q)'
      <4>1. /\ refs[q] = Owner(q) + NonEmpty(q) + Cardinality(Drains(q))
                         + Cardinality(Lists(q))
            /\ Owner(q)' = Owner(q) /\ refs'[q] = refs[q]
            /\ Cardinality(Drains(q)') = Cardinality(Drains(q))
        BY <1>0, <2>1, <3>2 DEF CountedOf, Owner
      <4>t. /\ Owner(q) \in Nat /\ NonEmpty(q) \in Nat /\ NonEmpty(q)' \in Nat /\ OfDrain(q) \in Nat
            /\ Cardinality(Drains(q)) \in Nat /\ Cardinality(Lists(q)) \in Nat
        BY Numbers, Subsets
      <4>2. refs'[q] = Owner(q)' + NonEmpty(q)' + Cardinality(Drains(q)')
                       + Cardinality(Lists(q)')
        BY <3>3, <3>4, <4>1, <4>t
      <4> QED
        BY <4>2 DEF CountedOf
    <3> QED
      BY <2>3, <3>5
  <2> QED
    BY <2>2, <2>3
<1>3. CASE TaskReturns(w)
  <2>1. Drains(r)' = Drains(r) /\ Lists(r)' = Lists(r)
    BY <1>3 DEF TaskReturns, Types, Drains, Lists, Retained, InLoop, InTask
  <2> QED
    BY <1>0, <1>3, <2>1, UndisturbedCounts DEF TaskReturns, Undisturbed
<1>4. CASE ReleaseList(w)
  <2>1. /\ pc[w] = "rel" /\ refs' = [refs EXCEPT ![q] = @ - 1]
        /\ last' = [last EXCEPT ![w] = FALSE] /\ pc' = [pc EXCEPT ![w] = "next"]
        /\ UNCHANGED <<items, held, at>>
    BY <1>0, <1>4 DEF ReleaseList
  <2>2. Drains(r)' = Drains(r)
    BY <2>1 DEF Types, Drains, Retained, InLoop, InTask
  <2>3. CASE r # q
    <3>1. Lists(r)' = Lists(r)
      BY <1>0, <2>1, <2>3 DEF Types, Lists
    <3> QED
      BY <1>0, <2>1, <2>2, <2>3, <3>1, UndisturbedCounts DEF Undisturbed, Types
  <2>4. CASE r = q
    <3>1. w \in Lists(q) /\ Lists(q)' = Lists(q) \ {w}
      BY <1>0, <2>1 DEF Types, Threads, Lists
    <3>2. Cardinality(Lists(q)') = Cardinality(Lists(q)) - 1
      BY <3>1, OneLess, Subsets
    <3>3. refs'[q] = refs[q] - 1
      BY <1>0, <2>1 DEF Types
    <3>4. CountedOf(q)'
      BY <1>0, <2>1, <2>2, <2>4, <3>2, <3>3, Subsets DEF CountedOf, Owner, NonEmpty, OfDrain
    <3> QED
      BY <2>4, <3>4
  <2> QED
    BY <2>3, <2>4
<1>5. CASE EndDrain(w)
  <2>1. /\ pc[w] = "unretain" /\ refs' = [refs EXCEPT ![q] = @ - 1]
        /\ at' = [at EXCEPT ![w] = None] /\ pc' = [pc EXCEPT ![w] = "loop"]
        /\ UNCHANGED <<items, held, last>> /\ ~ last[w] /\ q \in Serial
    BY <1>0, <1>5 DEF EndDrain, Threads, InTask
  <2>2. Lists(r)' = Lists(r)
    BY <2>1 DEF Types, Lists
  <2>3. CASE r # q
    <3>1. Drains(r)' = Drains(r)
      BY <1>0, <2>1, <2>3, Constants DEF Types, Drains
    <3> QED
      BY <1>0, <2>1, <2>2, <2>3, <3>1, UndisturbedCounts DEF Undisturbed, Types
  <2>4. CASE r = q
    <3>1. w \in Drains(q) /\ Drains(q)' = Drains(q) \ {w}
      BY <1>0, <2>1, Constants DEF Types, Drains, Retained
    <3>2. Cardinality(Drains(q)') = Cardinality(Drains(q)) - 1
      BY <3>1, OneLess, Subsets
    <3>3. refs'[q] = refs[q] - 1
      BY <1>0, <2>1 DEF Types
    <3>4. CountedOf(q)'
      BY <1>0, <2>1, <2>2, <2>4, <3>2, <3>3, Subsets DEF CountedOf, Owner, NonEmpty, OfDrain
    <3> QED
      BY <2>4, <3>4
  <2> QED
    BY <2>3, <2>4
<1> QED
  BY <1>1, <1>2, <1>3, <1>4, <1>5 DEF Drives

LEMMA StepCounts ==
    ASSUME Types, Threads, Exclusion, Counted, Step
    PROVE  Counted'
<1>1. CASE Stays
  <2> SUFFICES ASSUME NEW q \in Queues PROVE CountedOf(q)'
    BY DEF Counted
  <2> QED
    BY <1>1, StayingCounts, UndisturbedCounts DEF Stays, Undisturbed, Counted
<1> QED
  BY <1>1, TakingCounts, SubmittingCounts, ReleasingCounts, DrivingCounts DEF Step

----------------------------------------------------------------------------
(* The invariant *)

LEMMA InitInv == Init => Inv
<1> SUFFICES ASSUME Init PROVE Inv
  OBVIOUS
<1>1. Types
  BY Constants DEF Init, Types, PCs
<1>2. Threads
  BY Constants DEF Init, Threads, Out, InTask, Actors
<1>3. Exclusion
  BY Constants DEF Init, Exclusion, Busy, OneServes, Due, Starts, InLoop, InTask
<1>4. Once
  <2>1. \A q \in Queues : Len(items[q]) = 0
    BY DEF Init
  <2> QED
    BY <2>1 DEF Init, Once
<1>5. InTurn
  <2>1. \A q \in Queues : Running(q) = {} /\ Queued(q) = {}
    BY DEF Init, Running, Queued
  <2>2. Submitted = {}
    BY <2>1 DEF Init, Submitted
  <2> QED
    BY <2>2 DEF InTurn
<1>6. Counted
  <2> SUFFICES ASSUME NEW q \in Queues PROVE CountedOf(q)
    BY DEF Counted
  <2>1. Drains(q) = {} /\ Lists(q) = {}
    BY Constants DEF Init, Drains, Lists
  <2>2. Cardinality({}) = 0
    BY FS_EmptySet
  <2> QED
    BY <2>1, <2>2 DEF Init, CountedOf, Owner, NonEmpty
<1> QED
  BY <1>1, <1>2, <1>3, <1>4, <1>5, <1>6 DEF Inv

LEMMA NextKeepsInv == Inv /\ [Next]_vars => Inv'
<1> SUFFICES ASSUME Inv, [Next]_vars PROVE Inv'
  OBVIOUS
<1>1. Types' /\ Threads' /\ Step
  BY NextIsStep DEF Inv
<1>2. Exclusion' /\ Counted'
  BY <1>1, StepExcludes, StepCounts DEF Inv
<1>3. Once' /\ InTurn'
  BY <1>1, StepEffect, EffectKeeps DEF Inv
<1> QED
  BY <1>1, <1>2, <1>3 DEF Inv

LEMMA Invariance == Spec => []Inv
BY InitInv, NextKeepsInv, PTL DEF Spec

\* A queue that is due to be drained, or drained, has a reference that keeps it.
LEMMA ReferencesKeep ==
    ASSUME Inv, NEW q \in Queues
    PROVE  /\ refs[q] \in Nat
           /\ held[q] \/ items[q] # <<>> \/ Drains(q) # {} => refs[q] > 0
<1>1. /\ refs[q] = Owner(q) + NonEmpty(q) + Cardinality(Drains(q)) + Cardinality(Lists(q))
      /\ Cardinality(Drains(q)) \in Nat /\ Cardinality(Lists(q)) \in Nat
      /\ Owner(q) \in Nat /\ NonEmpty(q) \in Nat
  BY Subsets, Numbers DEF Inv, Counted, CountedOf
<1>2. held[q] => Owner(q) = 1
  BY DEF Owner
<1>3. items[q] # <<>> => NonEmpty(q) = 1
  BY DEF NonEmpty
<1>4. Drains(q) # {} => Cardinality(Drains(q)) # 0
  BY Subsets, ThreadsFinite, FS_EmptySet
<1> QED
  BY <1>1, <1>2, <1>3, <1>4

LEMMA InvAlive == Inv => QueueAlive
<1> SUFFICES ASSUME Inv PROVE QueueAlive
  OBVIOUS
<1>1. ASSUME NEW w \in Workers, at[w] # None PROVE refs[at[w]] > 0
  <2>1. at[w] \in Queues /\ pc[w] \notin Out /\ pc[w] \in PCs
    BY <1>1 DEF Inv, Types, Threads
  <2>2. CASE at[w] \notin Serial
    <3>1. held[at[w]]
      BY <2>1, <2>2, Constants DEF Inv, Types
    <3> QED
      BY <2>1, <3>1, ReferencesKeep
  <2>3. CASE at[w] \in Serial /\ pc[w] = "start"
    <3>1. items[at[w]] # <<>>
      BY <2>3 DEF Inv, Exclusion, Due, Starts, IsDue
    <3> QED
      BY <2>1, <3>1, ReferencesKeep
  <2>4. CASE at[w] \in Serial /\ pc[w] # "start"
    <3>1. w \in Drains(at[w])
      BY <2>1, <2>4 DEF Drains, Retained, InLoop, InTask, PCs, Draining, Out
    <3> QED
      BY <2>1, <3>1, ReferencesKeep
  <2> QED
    BY <2>2, <2>3, <2>4
<1>2. ASSUME NEW i \in DOMAIN work PROVE refs[work[i]] > 0
  <2>1. i \in 1 .. Len(work) /\ work[i] \in Queues
    BY <1>2 DEF Inv, Types
  <2>2. CASE work[i] \notin Serial
    <3>1. held[work[i]]
      BY <2>1, <2>2, Constants DEF Inv, Types
    <3> QED
      BY <2>1, <3>1, ReferencesKeep
  <2>3. CASE work[i] \in Serial
    <3>1. items[work[i]] # <<>>
      BY <2>1, <2>3 DEF Inv, Exclusion, Due, IsDue
    <3> QED
      BY <2>1, <3>1, ReferencesKeep
  <2> QED
    BY <2>2, <2>3
<1> QED
  BY <1>1, <1>2 DEF QueueAlive

\* The reference count of dispatch_retain and dispatch_release keeps every queue that a
\* thread drains or that is in the list of the pool, for any number of queues, threads
\* and tasks, although its creator may release it at any time.
THEOREM QueuesStayAlive == Spec => []QueueAlive
BY Invariance, InvAlive, PTL

----------------------------------------------------------------------------
(* The pool implements the queues it promises *)

LEMMA PromisedQueues == Promise!Queues = Queues
BY DEF Promise!Queues, Queues

LEMMA PromisedKnown == Promise!Known = Submitted
<1>1. \A q \in Queues : [r \in Queues |-> Running(r)][q] = Running(q)
  OBVIOUS
<1>2. \A t : t \in Promise!Known <=> \/ t \in finished
                                     \/ \E q \in Queues : t \in Running(q) \/ t \in Queued(q)
  BY <1>1, PromisedQueues DEF Promise!Known, Queued
<1>3. \A t : t \in Promise!Known <=> t \in Submitted
  BY <1>2, WhoIsSubmitted
<1> QED
  BY <1>3

LEMMA EffectIsPromised ==
    ASSUME Inv, Effect
    PROVE  [Promise!Next]_(Promise!vars)
<1>1. CASE Quiet
  <2>1. [q \in Queues |-> Running(q)]' = [q \in Queues |-> Running(q)]
    BY <1>1 DEF Quiet, SameRunning
  <2> QED
    BY <1>1, <2>1 DEF Quiet, Promise!vars
<1>2. ASSUME NEW t \in Tasks, NEW q \in Queues, Comes(t, q) PROVE Promise!Next
  <2>1. t \notin Promise!Known
    BY <1>2, NewTask, PromisedKnown DEF Comes, Inv
  <2>2. [r \in Queues |-> Running(r)]' = [r \in Queues |-> Running(r)]
    BY <1>2 DEF Comes, SameRunning
  <2>3. Promise!Submit(t, q)
    BY <1>2, <2>1, <2>2 DEF Comes, Promise!Submit
  <2> QED
    BY <2>3, PromisedQueues DEF Promise!Next
<1>3. ASSUME NEW w \in Workers, NEW q \in Queues, Begins(w, q) PROVE Promise!Next
  <2>1. [r \in Queues |-> Running(r)]'
          = [[r \in Queues |-> Running(r)] EXCEPT ![q] = @ \cup {Head(items[q])}]
    BY <1>3 DEF Begins, SameRunning
  <2>2. Promise!Start(q)
    BY <1>3, <2>1 DEF Begins, Promise!Start
  <2> QED
    BY <2>2, PromisedQueues DEF Promise!Next, Promise!Progress
<1>4. ASSUME NEW w \in Workers, NEW q \in Queues, Ends(w, q) PROVE Promise!Next
  <2>1. task[w] \in Tasks
    <3>1. task[w] # None
      BY <1>4, WhoRuns DEF Ends, Inv, Threads
    <3> QED
      BY <3>1 DEF Inv, Types
  <2>2. [r \in Queues |-> Running(r)]'
          = [[r \in Queues |-> Running(r)] EXCEPT ![q] = @ \ {task[w]}]
    BY <1>4 DEF Ends, SameRunning
  <2>3. Promise!End(task[w], q)
    BY <1>4, <2>2 DEF Ends, Promise!End
  <2> QED
    BY <2>1, <2>3, PromisedQueues DEF Promise!Next, Promise!Progress
<1> QED
  BY <1>1, <1>2, <1>3, <1>4 DEF Effect

LEMMA InitIsPromised == Init => Promise!Init
<1> SUFFICES ASSUME Init PROVE Promise!Init
  OBVIOUS
<1>1. [q \in Queues |-> Running(q)] = [q \in Queues |-> {}]
  BY DEF Init, Running
<1> QED
  BY <1>1, PromisedQueues DEF Init, Promise!Init

\* The safety part of KeepsPromise: whatever the threads of the pool do, each step is a
\* task that is submitted, started in its turn, alone on a serial queue, or ended, or
\* is none of the queues' users' business.
THEOREM PoolImplementsQueues == Spec => Promise!Init /\ [][Promise!Next]_(Promise!vars)
<1>1. Inv /\ [Next]_vars => [Promise!Next]_(Promise!vars)
  <2> SUFFICES ASSUME Inv, [Next]_vars PROVE [Promise!Next]_(Promise!vars)
    OBVIOUS
  <2>1. Effect
    BY NextIsStep, StepEffect DEF Inv
  <2> QED
    BY <2>1, EffectIsPromised
<1> QED
  BY <1>1, Invariance, InitIsPromised, PTL DEF Spec

----------------------------------------------------------------------------
(* The pool keeps up with its work *)

\* The threads that are on their way to the list of the pool.
Ready(p) == {w \in Workers : p[w] \in {"loop", "wait", "woken"}}

LEMMA ReadyIsNumber ==
    ASSUME NEW p
    PROVE  /\ Ready(p) \in SUBSET Workers /\ IsFiniteSet(Ready(p))
           /\ Cardinality(Ready(p)) \in Nat
           /\ Idle(p) \in Nat /\ Idle(p) <= Cardinality(Ready(p))
<1> DEFINE Waits == {w \in Workers : p[w] \in {"wait", "woken"}}
<1>1. Ready(p) \in SUBSET Workers /\ Waits \in SUBSET Ready(p)
  BY DEF Ready
<1>2. IsFiniteSet(Ready(p)) /\ Cardinality(Ready(p)) \in Nat
  BY <1>1, ThreadsFinite
<1>3. Cardinality(Waits) \in Nat /\ Cardinality(Waits) <= Cardinality(Ready(p))
  BY <1>1, <1>2, FS_Subset, FS_CardinalityType
<1> QED
  BY <1>1, <1>2, <1>3 DEF Idle

LEMMA KeepsUpByReady ==
    /\ PoolKeepsUp <=> Off(pc) = {} \/ Len(work) <= Cardinality(Ready(pc))
    /\ PoolKeepsUp' <=> Off(pc') = {} \/ Len(work') <= Cardinality(Ready(pc'))
    /\ Cardinality(Ready(pc)) \in Nat /\ Cardinality(Ready(pc')) \in Nat
<1>1. Cardinality(Ready(pc)) \in Nat /\ Cardinality(Ready(pc')) \in Nat
  BY ReadyIsNumber
<1> QED
  BY <1>1 DEF PoolKeepsUp, Ready, Off

LEMMA SignallingKeepsReady ==
    ASSUME NEW p \in [Workers -> PCs]
    PROVE  /\ Signalled(p) \in [Workers -> PCs]
           /\ Ready(Signalled(p)) = Ready(p)
           /\ Off(Signalled(p)) = Off(p)
<1>1. Waiting(p) # {} => Some(Waiting(p)) \in Workers /\ p[Some(Waiting(p))] = "wait"
  BY SomeIsOne DEF Waiting
<1> QED
  BY <1>1 DEF Signalled, Ready, Off, PCs

LEMMA SchedulingKeepsUp ==
    ASSUME NEW p \in [Workers -> PCs], NEW n \in Nat, Off(p) = {} \/ n <= Cardinality(Ready(p))
    PROVE  \/ Off(AfterSchedule(p, n + 1)) = {}
           \/ n + 1 <= Cardinality(Ready(AfterSchedule(p, n + 1)))
<1>1. CASE NeedsThread(p, n + 1) /\ Off(p) # {}
  <2> DEFINE w == Some(Off(p))
  <2>1. w \in Workers /\ p[w] = "off"
    BY <1>1, SomeIsOne DEF Off
  <2>2. AfterSchedule(p, n + 1) = [Signalled(p) EXCEPT ![w] = "loop"]
    BY <1>1 DEF AfterSchedule
  <2>3. Ready(AfterSchedule(p, n + 1)) = Ready(p) \cup {w} /\ w \notin Ready(p)
    <3> HIDE DEF w
    <3>1. Ready([Signalled(p) EXCEPT ![w] = "loop"]) = Ready(Signalled(p)) \cup {w}
      BY <2>1, SignallingKeepsReady DEF Ready
    <3> QED
      BY <2>1, <2>2, <3>1, SignallingKeepsReady DEF Ready
  <2>4. Cardinality(Ready(p) \cup {w}) = Cardinality(Ready(p)) + 1
    BY <2>1, <2>3, OneMore, ReadyIsNumber
  <2> QED
    BY <1>1, <2>3, <2>4, ReadyIsNumber
<1>2. CASE ~ NeedsThread(p, n + 1) /\ Off(p) # {}
  <2>1. n + 1 <= Idle(p)
    BY <1>2, ReadyIsNumber DEF NeedsThread
  <2>2. n + 1 <= Cardinality(Ready(p))
    BY <2>1, ReadyIsNumber
  <2> QED
    BY <1>2, <2>2, SignallingKeepsReady DEF AfterSchedule
<1>3. CASE Off(p) = {}
  BY <1>3, SignallingKeepsReady DEF AfterSchedule
<1> QED
  BY <1>1, <1>2, <1>3

LEMMA EnqueueKeepsUp ==
    ASSUME Types, PoolKeepsUp, NEW t, NEW q, NEW p \in [Workers -> PCs],
           Ready(p) = Ready(pc), Off(p) = Off(pc), Enqueue(t, q, p), work' \in Seq(Queues)
    PROVE  PoolKeepsUp'
<1>0. Len(work) \in Nat
  BY DEF Types
<1>1. Off(p) = {} \/ Len(work) <= Cardinality(Ready(p))
  BY DEF PoolKeepsUp, Ready
<1>2. CASE Schedules(q)
  <2>1. pc' = AfterSchedule(p, Len(work) + 1) /\ work' = Append(work, q)
    BY <1>2 DEF Enqueue
  <2>2. Len(work') = Len(work) + 1
    BY <2>1 DEF Types
  <2> QED
    BY <1>0, <1>1, <2>1, <2>2, SchedulingKeepsUp DEF PoolKeepsUp, Ready
<1>3. CASE ~ Schedules(q)
  <2>1. pc' = p /\ work' = work
    BY <1>3 DEF Enqueue
  <2> QED
    BY <1>1, <2>1 DEF PoolKeepsUp, Ready
<1> QED
  BY <1>2, <1>3

LEMMA TakingKeepsUp ==
    ASSUME Types, PoolKeepsUp, NEW w \in Workers, NEW idle, pc[w] \in {"loop", "wait", "woken"},
           TakeWork(w, idle)
    PROVE  PoolKeepsUp'
<1>1. CASE work # <<>>
  <2>1. Len(work) \in Nat \ {0} /\ Len(work') = Len(work) - 1
    BY <1>1, TailFacts DEF TakeWork, Types
  <2>2. /\ Off(pc') = Off(pc) /\ Ready(pc') = Ready(pc) \ {w} /\ w \in Ready(pc)
    BY <1>1 DEF TakeWork, Types, Off, Ready
  <2>3. Cardinality(Ready(pc')) = Cardinality(Ready(pc)) - 1
    BY <2>2, OneLess, ReadyIsNumber
  <2> QED
    BY <2>1, <2>2, <2>3, KeepsUpByReady
<1>2. CASE work = <<>>
  <2>1. work' = <<>>
    BY <1>2 DEF TakeWork
  <2>2. Len(work') = 0
    BY <2>1
  <2> QED
    BY <2>2, KeepsUpByReady
<1> QED
  BY <1>1, <1>2

\* More threads are ready, and none has been lost.
LEMMA OthersKeepUp ==
    ASSUME Types, PoolKeepsUp, work' = work, Ready(pc) \subseteq Ready(pc'), Off(pc') = Off(pc)
    PROVE  PoolKeepsUp'
<1>1. Cardinality(Ready(pc)) <= Cardinality(Ready(pc'))
  BY ReadyIsNumber, FS_Subset
<1>2. Len(work) \in Nat
  BY DEF Types
<1> QED
  BY <1>1, <1>2, KeepsUpByReady

LEMMA NextKeepsUp ==
    ASSUME Inv, PoolKeepsUp, [Next]_vars
    PROVE  PoolKeepsUp'
<1>0. Types /\ Threads /\ Types'
  BY NextIsStep DEF Inv
<1>1. ASSUME NEW w \in Workers, LoopTop(w) \/ TimesOut(w) PROVE PoolKeepsUp'
  BY <1>0, <1>1, TakingKeepsUp DEF LoopTop, TimesOut
<1>2. ASSUME NEW w \in Workers, Drives(w) PROVE PoolKeepsUp'
  <2>1. work' = work
    BY <1>2 DEF Drives, StartDrain, TaskReturns, ReleaseList, NextTurn, EndDrain
  <2>2. /\ pc[w] \notin Out
        /\ \E at1 \in PCs \ {"off"} : pc' = [pc EXCEPT ![w] = at1]
    BY <1>2 DEF Drives, StartDrain, TaskReturns, ReleaseList, NextTurn, EndDrain, Turn, PCs,
                Draining, Out
  <2>3. Ready(pc) \subseteq Ready(pc') /\ Off(pc') = Off(pc)
    BY <1>0, <2>2 DEF Types, Ready, Off, Out
  <2> QED
    BY <1>0, <2>1, <2>3, OthersKeepUp
<1>3. ASSUME NEW a \in Actors, SyncReturns(a) PROVE PoolKeepsUp'
  <2>1. a \in Workers => pc[a] = "sync"
    BY <1>0, <1>3 DEF SyncReturns, Threads
  <2>2. Ready(pc') = Ready(pc) /\ Off(pc') = Off(pc) /\ work' = work
    BY <1>0, <1>3, <2>1 DEF SyncReturns, Types, Ready, Off
  <2> QED
    BY <1>0, <2>2, OthersKeepUp
<1>4. ASSUME NEW a \in Actors, NEW t \in Tasks, NEW q \in Queues, Async(a, t, q)
      PROVE  PoolKeepsUp'
  BY <1>0, <1>4, EnqueueKeepsUp DEF Async, Types
<1>5. ASSUME NEW a \in Actors, NEW t \in Tasks, NEW q \in Queues, Sync(a, t, q)
      PROVE  PoolKeepsUp'
  <2> DEFINE p == IF a \in Workers THEN [pc EXCEPT ![a] = "sync"] ELSE pc
  <2>1. Enqueue(t, q, p) /\ (a \in Workers => pc[a] = "run")
    BY <1>5 DEF Sync, Free
  <2>2. p \in [Workers -> PCs] /\ Ready(p) = Ready(pc) /\ Off(p) = Off(pc)
    BY <1>0, <2>1 DEF Types, PCs, Draining, Ready, Off
  <2>3. work' \in Seq(Queues)
    BY <1>0 DEF Types
  <2> HIDE DEF p
  <2> QED
    BY <1>0, <2>1, <2>2, <2>3, EnqueueKeepsUp
<1>6. ASSUME NEW q \in Queues, Release(q) PROVE PoolKeepsUp'
  BY <1>6 DEF Release, PoolKeepsUp
<1>7. CASE UNCHANGED vars
  BY <1>7 DEF vars, PoolKeepsUp, Off
<1> QED
  BY <1>1, <1>2, <1>3, <1>4, <1>5, <1>6, <1>7 DEF Next, ThreadSteps, Drives

\* dispatch_async_f adds a thread to the pool whenever fewer are idle than items wait: as
\* long as threads may be added, each item has one on its way, although a signalled
\* thread still counts as idle and any of them may time out.
THEOREM PoolNeverFallsBehind == Spec => []PoolKeepsUp
<1>1. Init => PoolKeepsUp
  <2> SUFFICES ASSUME Init PROVE PoolKeepsUp
    OBVIOUS
  <2>1. Len(work) = 0
    BY DEF Init
  <2> QED
    BY <2>1, KeepsUpByReady
<1>2. Inv /\ PoolKeepsUp /\ [Next]_vars => PoolKeepsUp'
  BY NextKeepsUp
<1> QED
  BY <1>1, <1>2, Invariance, PTL DEF Spec
============================================================================
