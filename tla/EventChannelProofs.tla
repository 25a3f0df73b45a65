------------------------- MODULE EventChannelProofs -------------------------
(***************************************************************************)
(* Commands of a session complete in order and at most once, the count and *)
(* the timer follow those without a reply, and the session is held exactly *)
(* as long as the connection, a caller or a command needs it: for any      *)
(* commands and notices.                                                   *)
(***************************************************************************)
EXTENDS EventChannel, FiniteSetTheorems, SequenceTheorems, TLAPS

Types ==
    /\ conn \in {"new", "open", "timer", "timerDone", "client", "clientDone", "released"}
    /\ caller \in [All -> {"new", "waiting", "signalled", "returned"}]
    /\ refs \in Int /\ eventPendingMessageCount \in Int
    /\ eventReplyTimer \in {"off", "armed", "fired", "gone"}
    /\ messageList \in Seq(All)
    /\ accepted \in Seq(Commands) /\ completed \in Seq([cmd : Commands, told : Outcome])

\* A task is what to do and, for two kinds, with which command.
Plain == {"forgetTimer", "forgetClient", "invalidate", "finalSync"}
Tasks == ({"send", "http"} \X All) \cup {<<op>> : op \in Plain}
TaskTypes == tasks \in Seq(Tasks)

IsSend(j) == tasks[j][1] = "send"
IsHTTP(j) == tasks[j][1] = "http"

\* A caller waits for the one task that it gave to the queue.
Sends ==
    /\ \A j \in 1 .. Len(tasks) : IsSend(j) => caller[tasks[j][2]] = "waiting"
    /\ \A i, j \in 1 .. Len(tasks) :
          IsSend(i) /\ IsSend(j) /\ tasks[i][2] = tasks[j][2] => i = j
    /\ \A k \in 1 .. Len(accepted) : caller[accepted[k]] \in {"signalled", "returned"}

\* The commands between being accepted and completed are in the list of messages or
\* in a task that puts them there, and nothing else is.
Left == Len(completed) + 1 .. Len(accepted)
AllThere ==
    \A k \in Left : \/ \E i \in 1 .. Len(messageList) : messageList[i] = accepted[k]
                    \/ \E j \in 1 .. Len(tasks) : IsHTTP(j) /\ tasks[j][2] = accepted[k]
NoneElse ==
    /\ \A i \in 1 .. Len(messageList) :
          messageList[i] \in Commands => \E k \in Left : messageList[i] = accepted[k]
    /\ \A j \in 1 .. Len(tasks) :
          IsHTTP(j) /\ tasks[j][2] \in Commands => \E k \in Left : tasks[j][2] = accepted[k]

\* They are there in the order in which they were accepted.
ListInOrder ==
    \A i, j \in 1 .. Len(messageList), k, l \in 1 .. Len(accepted) :
        i < j /\ messageList[i] = accepted[k] /\ messageList[j] = accepted[l] => k < l
ListFirst ==
    \A i \in 1 .. Len(messageList), j \in 1 .. Len(tasks), k, l \in 1 .. Len(accepted) :
        IsHTTP(j) /\ messageList[i] = accepted[k] /\ tasks[j][2] = accepted[l] => k < l
TasksInOrder ==
    \A i, j \in 1 .. Len(tasks), k, l \in 1 .. Len(accepted) :
        i < j /\ IsHTTP(i) /\ IsHTTP(j) /\ tasks[i][2] = accepted[k] /\ tasks[j][2] = accepted[l]
        => k < l
AcceptedOnce ==
    \A k, l \in 1 .. Len(accepted) : accepted[k] = accepted[l] => k = l

InOrder == AllThere /\ NoneElse /\ ListInOrder /\ ListFirst /\ TasksInOrder /\ AcceptedOnce

\* The connection waits for the one task that it gave to the queue.
ConnWaits(op, at) ==
    /\ \A j \in 1 .. Len(tasks) : tasks[j][1] = op => conn = at
    /\ \A i, j \in 1 .. Len(tasks) : tasks[i][1] = op /\ tasks[j][1] = op => i = j
Waits == ConnWaits("forgetTimer", "timer") /\ ConnWaits("forgetClient", "client")

\* The client has a message in hand, and fails only when its connection has; nothing
\* happens before the session starts.
Client ==
    /\ http \in {"writing", "reading"} => messageList # <<>>
    /\ running = "failing" => http = "error"
    /\ conn = "new" => /\ tasks = <<>> /\ http = "none"
                       /\ \A c \in All : caller[c] = "new"

Inv ==
    /\ Types /\ TaskTypes /\ Sends /\ Waits /\ InOrder
    /\ CompletedInOrder /\ PendingIsUnanswered /\ RefsBalanced
----------------------------------------------------------------------------
(* Tasks that are added and taken *)

\* The tasks of the kind op are the same in both lists, d places nearer in the new.
Kept(old, new, op, d) ==
    /\ \A j \in 1 .. Len(new) : new[j][1] = op =>
          j + d \in 1 .. Len(old) /\ old[j + d][1] = op /\ new[j][2] = old[j + d][2]
    /\ \A j \in 1 .. Len(old) : old[j][1] = op =>
          j - d \in 1 .. Len(new) /\ new[j - d][1] = op /\ new[j - d][2] = old[j][2]

LEMMA SameKeeps == ASSUME NEW s \in Seq(Tasks), NEW op PROVE Kept(s, s, op, 0)
BY DEF Kept

LEMMA AppendKeeps ==
    ASSUME NEW s \in Seq(Tasks), NEW x \in Tasks, NEW op, x[1] # op
    PROVE  Append(s, x) \in Seq(Tasks) /\ Kept(s, Append(s, x), op, 0)
<1>1. /\ Append(s, x) \in Seq(Tasks) /\ Len(s) \in Nat /\ Len(Append(s, x)) = Len(s) + 1
      /\ Append(s, x)[Len(s) + 1] = x /\ \A j \in 1 .. Len(s) : Append(s, x)[j] = s[j]
  OBVIOUS
<1>2. \A j \in 1 .. Len(s) : j + 0 = j /\ j - 0 = j
  BY <1>1
<1> QED
  BY <1>1, <1>2 DEF Kept

LEMMA TailKeeps ==
    ASSUME NEW s \in Seq(Tasks), s # <<>>, NEW op, Head(s)[1] # op
    PROVE  Tail(s) \in Seq(Tasks) /\ Kept(s, Tail(s), op, 1)
<1>1. /\ Tail(s) \in Seq(Tasks) /\ Len(s) \in Nat \ {0} /\ Len(Tail(s)) = Len(s) - 1
      /\ s[1] = Head(s) /\ \A j \in 1 .. Len(s) - 1 : Tail(s)[j] = s[j + 1]
  OBVIOUS
<1>2. ASSUME NEW j \in 1 .. Len(s), s[j][1] = op
      PROVE  j - 1 \in 1 .. Len(s) - 1 /\ Tail(s)[j - 1] = s[j]
  <2>1. j # 1
    BY <1>1, <1>2
  <2>2. j - 1 \in 1 .. Len(s) - 1 /\ (j - 1) + 1 = j
    BY <1>1, <2>1
  <2> QED
    BY <1>1, <2>2
<1> QED
  BY <1>1, <1>2 DEF Kept

LEMMA KeptThenKept ==
    ASSUME NEW r, NEW s, NEW t, NEW op, Len(r) \in Nat, Len(s) \in Nat, Len(t) \in Nat,
           Kept(r, s, op, 1), Kept(s, t, op, 0)
    PROVE  Kept(r, t, op, 1)
<1>1. \A j \in 1 .. Len(t) : t[j][1] = op =>
         j \in 1 .. Len(s) /\ s[j][1] = op /\ t[j][2] = s[j][2]
  BY DEF Kept
<1>2. \A j \in 1 .. Len(s) : s[j][1] = op =>
         j \in 1 .. Len(t) /\ t[j][1] = op /\ t[j][2] = s[j][2]
  BY DEF Kept
<1> QED
  BY <1>1, <1>2 DEF Kept

\* Most tasks go, and may leave another one.
LEMMA TakenKeeps ==
    ASSUME NEW s \in Seq(Tasks), s # <<>>, NEW x \in Tasks, NEW op, Head(s)[1] # op, x[1] # op
    PROVE  Append(Tail(s), x) \in Seq(Tasks) /\ Kept(s, Append(Tail(s), x), op, 1)
<1>1. Tail(s) \in Seq(Tasks) /\ Kept(s, Tail(s), op, 1)
  BY TailKeeps
<1>2. Append(Tail(s), x) \in Seq(Tasks) /\ Kept(Tail(s), Append(Tail(s), x), op, 0)
  BY <1>1, AppendKeeps
<1> QED
  BY <1>1, <1>2, KeptThenKept

LEMMA PlainTasks ==
    \A op \in Plain : <<op>> \in Tasks /\ <<op>>[1] = op /\ op \notin {"send", "http"}
BY DEF Tasks, Plain

LEMMA NamedTasks ==
    \A c \in All, op \in {"send", "http"} :
        <<op, c>> \in Tasks /\ <<op, c>>[1] = op /\ <<op, c>>[2] = c
BY DEF Tasks

LEMMA TaskOfCommand ==
    ASSUME NEW t \in Tasks, t[1] \in {"send", "http"} PROVE t[2] \in All
BY DEF Tasks, Plain
----------------------------------------------------------------------------
(* What the steps leave of the parts *)

\* The commands on their way stay where they are; notices do not matter.
LEMMA KeptInOrder ==
    ASSUME Types, InOrder, NEW d \in {0, 1}, UNCHANGED <<messageList, accepted, completed>>,
           \A j \in 1 .. Len(tasks') : IsHTTP(j)' /\ tasks'[j][2] \in Commands =>
              j + d \in 1 .. Len(tasks) /\ IsHTTP(j + d) /\ tasks'[j][2] = tasks[j + d][2],
           \A j \in 1 .. Len(tasks) : IsHTTP(j) /\ tasks[j][2] \in Commands =>
              j - d \in 1 .. Len(tasks') /\ IsHTTP(j - d)' /\ tasks'[j - d][2] = tasks[j][2]
    PROVE  InOrder'
<1>1. \A k \in 1 .. Len(accepted) : accepted[k] \in Commands
  BY DEF Types
<1>2. UNCHANGED Left
  BY DEF Left
<1>3. AllThere'
  <2>1. Left \subseteq 1 .. Len(accepted)
    BY DEF Left, Types
  <2> QED
    BY <1>1, <1>2, <2>1 DEF InOrder, AllThere
<1>4. NoneElse'
  BY <1>1, <1>2 DEF InOrder, NoneElse
<1>5. ListInOrder' /\ AcceptedOnce'
  <2>1. messageList' = messageList /\ accepted' = accepted
    OBVIOUS
  <2> QED
    BY <2>1 DEF InOrder, ListInOrder, AcceptedOnce
<1>6. ListFirst'
  BY <1>1 DEF InOrder, ListFirst
<1>7. TasksInOrder'
  <2>1. SUFFICES ASSUME NEW i \in 1 .. Len(tasks'), NEW j \in 1 .. Len(tasks'),
                        NEW k \in 1 .. Len(accepted), NEW l \in 1 .. Len(accepted),
                        i < j, IsHTTP(i)', IsHTTP(j)',
                        tasks'[i][2] = accepted[k], tasks'[j][2] = accepted[l]
                 PROVE  k < l
    BY DEF TasksInOrder
  <2>2. /\ i + d \in 1 .. Len(tasks) /\ IsHTTP(i + d) /\ tasks[i + d][2] = accepted[k]
        /\ j + d \in 1 .. Len(tasks) /\ IsHTTP(j + d) /\ tasks[j + d][2] = accepted[l]
    BY <1>1, <2>1
  <2>3. i + d < j + d
    BY <2>1
  <2> QED
    BY <2>2, <2>3 DEF InOrder, TasksInOrder
<1> QED
  BY <1>3, <1>4, <1>5, <1>6, <1>7 DEF InOrder

\* Callers go on waiting for their tasks.
LEMMA KeptSends ==
    ASSUME Types, TaskTypes, Sends, tasks' \in Seq(Tasks), NEW d \in {0, 1},
           Kept(tasks, tasks', "send", d), UNCHANGED accepted,
           \A c \in All : /\ caller[c] = "waiting" => caller'[c] = "waiting"
                          /\ caller[c] \in {"signalled", "returned"} =>
                               caller'[c] \in {"signalled", "returned"}
    PROVE  Sends'
<1>1. \A j \in 1 .. Len(tasks') : IsSend(j)' =>
            /\ j + d \in 1 .. Len(tasks) /\ IsSend(j + d) /\ tasks'[j][2] = tasks[j + d][2]
            /\ tasks'[j][2] \in All
  <2>1. \A j \in 1 .. Len(tasks') : tasks'[j] \in Tasks
    OBVIOUS
  <2> QED
    BY <2>1, TaskOfCommand DEF Kept, IsSend
<1>2. \A j \in 1 .. Len(tasks') : IsSend(j)' => caller'[tasks'[j][2]] = "waiting"
  <2> SUFFICES ASSUME NEW j \in 1 .. Len(tasks'), IsSend(j)'
               PROVE  caller'[tasks'[j][2]] = "waiting"
    OBVIOUS
  <2>1. caller[tasks[j + d][2]] = "waiting" /\ tasks'[j][2] = tasks[j + d][2]
    BY <1>1 DEF Sends
  <2> QED
    BY <1>1, <2>1
<1>3. \A i, j \in 1 .. Len(tasks') :
         IsSend(i)' /\ IsSend(j)' /\ tasks'[i][2] = tasks'[j][2] => i = j
  <2> SUFFICES ASSUME NEW i \in 1 .. Len(tasks'), NEW j \in 1 .. Len(tasks'),
                      IsSend(i)', IsSend(j)', tasks'[i][2] = tasks'[j][2]
               PROVE  i = j
    OBVIOUS
  <2>1. i + d = j + d
    BY <1>1 DEF Sends
  <2> QED
    BY <2>1
<1>4. \A k \in 1 .. Len(accepted') : caller'[accepted'[k]] \in {"signalled", "returned"}
  <2>1. \A k \in 1 .. Len(accepted) : accepted[k] \in All
    BY DEF Types, All
  <2> QED
    BY <2>1 DEF Sends
<1> QED
  BY <1>2, <1>3, <1>4 DEF Sends

\* A command that is accepted is the last one.
LEMMA LastInOrder ==
    ASSUME Types, Sends, InOrder, NEW c \in Commands, ~IsHTTP(1),
           UNCHANGED <<messageList, completed>>,
           NEW n \in Nat, n = Len(accepted), Len(accepted') = n + 1, accepted'[n + 1] = c,
           \A k \in 1 .. n : accepted'[k] = accepted[k] /\ accepted[k] # c,
           NEW t \in Nat \ {0}, t = Len(tasks), Len(tasks') = t,
           tasks'[t][1] = "http", tasks'[t][2] = c,
           \A j \in 1 .. t - 1 : /\ (tasks'[j][1] = "http" <=> IsHTTP(j + 1))
                                 /\ tasks'[j][2] = tasks[j + 1][2] /\ j + 1 \in 1 .. t,
           Len(completed) <= n
    PROVE  InOrder'
<1>4. \A j \in 1 .. t : IsHTTP(j) =>
         /\ j - 1 \in 1 .. t - 1 /\ j - 1 \in 1 .. t
         /\ tasks'[j - 1][1] = "http" /\ tasks'[j - 1][2] = tasks[j][2]
  <2> SUFFICES ASSUME NEW j \in 1 .. t, IsHTTP(j)
               PROVE  /\ j - 1 \in 1 .. t - 1 /\ j - 1 \in 1 .. t /\ tasks'[j - 1][1] = "http"
                      /\ tasks'[j - 1][2] = tasks[j][2]
    OBVIOUS
  <2>1. j # 1
    OBVIOUS
  <2>2. j - 1 \in 1 .. t - 1 /\ j - 1 \in 1 .. t /\ (j - 1) + 1 = j
    BY <2>1
  <2> QED
    BY <2>2
<1>6. Left' = Left \cup {n + 1} /\ Left \subseteq 1 .. n
  BY DEF Left, Types
<1>7. AllThere'
  <2>1. ASSUME NEW k \in Left
        PROVE  \/ \E i \in 1 .. Len(messageList) : messageList[i] = accepted[k]
               \/ \E j \in 1 .. t : tasks'[j][1] = "http" /\ tasks'[j][2] = accepted[k]
    <3>1. CASE \E i \in 1 .. Len(messageList) : messageList[i] = accepted[k]
      BY <3>1
    <3>2. CASE \E j \in 1 .. Len(tasks) : IsHTTP(j) /\ tasks[j][2] = accepted[k]
      <4>1. PICK j \in 1 .. t : IsHTTP(j) /\ tasks[j][2] = accepted[k]
        BY <3>2
      <4>2. j - 1 \in 1 .. t /\ tasks'[j - 1][1] = "http" /\ tasks'[j - 1][2] = accepted[k]
        BY <1>4, <4>1
      <4> QED
        BY <4>2
    <3> QED
      BY <3>1, <3>2 DEF InOrder, AllThere
  <2>2. ASSUME NEW k \in Left'
        PROVE  \/ \E i \in 1 .. Len(messageList') : messageList'[i] = accepted'[k]
               \/ \E j \in 1 .. Len(tasks') : IsHTTP(j)' /\ tasks'[j][2] = accepted'[k]
    <3>1. CASE k = n + 1
      BY <3>1 DEF IsHTTP
    <3>2. CASE k # n + 1
      <4>1. k \in Left /\ accepted'[k] = accepted[k]
        BY <1>6, <3>2
      <4> QED
        BY <2>1, <4>1 DEF IsHTTP
    <3> QED
      BY <3>1, <3>2
  <2> QED
    BY <2>2 DEF AllThere
<1>8. NoneElse'
  <2>1. \A i \in 1 .. Len(messageList) : messageList[i] \in Commands =>
           \E k \in Left' : messageList[i] = accepted'[k]
    BY <1>6 DEF InOrder, NoneElse
  <2>2. ASSUME NEW j \in 1 .. t, tasks'[j][1] = "http", tasks'[j][2] \in Commands
        PROVE  \E k \in Left' : tasks'[j][2] = accepted'[k]
    <3>1. CASE j = t
      BY <1>6, <3>1
    <3>2. CASE j # t
      <4>1. j \in 1 .. t - 1
        BY <3>2
      <4>2. PICK k \in Left : tasks[j + 1][2] = accepted[k]
        BY <2>2, <4>1 DEF InOrder, NoneElse
      <4> QED
        BY <1>6, <4>1, <4>2
    <3> QED
      BY <3>1, <3>2
  <2>3. ASSUME NEW j \in 1 .. Len(tasks'), IsHTTP(j)', tasks'[j][2] \in Commands
        PROVE  \E k \in Left' : tasks'[j][2] = accepted'[k]
    BY <2>2, <2>3 DEF IsHTTP
  <2> QED
    BY <2>1, <2>3 DEF NoneElse
<1>9. \A x, k \in 1 .. n + 1 : accepted'[k] = accepted'[x] => k = x
  BY DEF InOrder, AcceptedOnce
<1>10. \A i \in 1 .. Len(messageList) : messageList[i] # c
  <2>1. \A i \in 1 .. Len(messageList) : messageList[i] \in Commands =>
           \E k \in Left : messageList[i] = accepted[k]
    BY DEF InOrder, NoneElse
  <2>2. \A k \in Left : accepted[k] # c
    BY <1>6
  <2> QED
    BY <2>1, <2>2, SMTT(60)
<1>11. \A j \in 1 .. t : IsHTTP(j) => tasks[j][2] # c
  BY <1>6 DEF InOrder, NoneElse
<1>a. \A k \in 1 .. n + 1 : accepted'[k] # c => k \in 1 .. n /\ accepted[k] = accepted'[k]
  OBVIOUS
<1>12. ListInOrder'
  <2>1. ASSUME NEW i \in 1 .. Len(messageList), NEW j \in 1 .. Len(messageList),
               NEW k \in 1 .. n + 1, NEW l \in 1 .. n + 1, i < j,
               messageList[i] = accepted'[k], messageList[j] = accepted'[l]
        PROVE  k < l
    <3>1. /\ k \in 1 .. n /\ accepted[k] = messageList[i]
          /\ l \in 1 .. n /\ accepted[l] = messageList[j]
      BY <1>a, <1>10, <2>1
    <3> QED
      BY <2>1, <3>1 DEF InOrder, ListInOrder
  <2>2. messageList' = messageList /\ Len(accepted') = n + 1
    OBVIOUS
  <2> QED
    BY <2>1, <2>2, SMTT(60) DEF ListInOrder
<1>13. ListFirst'
  <2> SUFFICES ASSUME NEW i \in 1 .. Len(messageList), NEW j \in 1 .. t,
                        NEW k \in 1 .. n + 1, NEW l \in 1 .. n + 1, tasks'[j][1] = "http",
                        messageList[i] = accepted'[k], tasks'[j][2] = accepted'[l]
                 PROVE  k < l
    BY DEF ListFirst, IsHTTP
  <2>2. k \in 1 .. n /\ accepted[k] = messageList[i]
    BY <1>10
  <2>3. CASE j = t
    BY <2>2, <2>3, SMTT(60)
  <2>4. CASE j # t
    <3>1. j \in 1 .. t - 1 /\ j + 1 \in 1 .. t /\ IsHTTP(j + 1) /\ tasks[j + 1][2] = accepted'[l]
      BY <2>4, SMTT(60)
    <3>2. l \in 1 .. n /\ accepted[l] = tasks[j + 1][2]
      BY <1>11, <3>1, SMTT(60)
    <3> QED
      BY <2>2, <3>1, <3>2 DEF InOrder, ListFirst
  <2> QED
    BY <2>3, <2>4
<1>14. TasksInOrder'
  <2> SUFFICES ASSUME NEW i \in 1 .. t, NEW j \in 1 .. t,
                        NEW k \in 1 .. n + 1, NEW l \in 1 .. n + 1, i < j,
                        tasks'[i][1] = "http", tasks'[j][1] = "http",
                        tasks'[i][2] = accepted'[k], tasks'[j][2] = accepted'[l]
                 PROVE  k < l
    BY DEF TasksInOrder, IsHTTP
  <2>2. i \in 1 .. t - 1 /\ i + 1 \in 1 .. t /\ IsHTTP(i + 1) /\ tasks[i + 1][2] = accepted'[k]
    BY SMTT(60)
  <2>3. k \in 1 .. n /\ accepted[k] = tasks[i + 1][2]
    BY <1>11, <2>2, SMTT(60)
  <2>4. CASE j = t
    BY <2>3, <2>4, SMTT(60)
  <2>5. CASE j # t
    <3>1. j \in 1 .. t - 1 /\ i + 1 < j + 1
      BY <2>5
    <3>3. j + 1 \in 1 .. t /\ IsHTTP(j + 1) /\ tasks[j + 1][2] = accepted'[l]
      BY <3>1
    <3>2. l \in 1 .. n /\ accepted[l] = tasks[j + 1][2]
      BY <1>a, <1>11, <3>3
    <3> QED
      BY <2>2, <2>3, <3>1, <3>2, <3>3 DEF InOrder, TasksInOrder
  <2> QED
    BY <2>4, <2>5
<1> QED
  BY <1>7, <1>8, <1>9, <1>12, <1>13, <1>14 DEF InOrder, AcceptedOnce

LEMMA AcceptedInOrder ==
    ASSUME Types, TaskTypes, Sends, InOrder, tasks # <<>>, IsSend(1), NEW c \in Commands,
           c = tasks[1][2], tasks' = Append(Tail(tasks), <<"http", c>>),
           accepted' = Append(accepted, c), UNCHANGED <<messageList, completed>>,
           Len(completed) <= Len(accepted)
    PROVE  InOrder'
<1>1. PICK n \in Nat, t \in Nat \ {0} : n = Len(accepted) /\ t = Len(tasks)
  BY DEF Types, TaskTypes
<1>2. /\ Len(accepted') = n + 1 /\ accepted'[n + 1] = c
      /\ \A k \in 1 .. n : accepted'[k] = accepted[k]
  BY <1>1 DEF Types
<1>3. /\ Len(tasks') = t /\ tasks'[t] = <<"http", c>>
      /\ \A j \in 1 .. t - 1 : tasks'[j] = tasks[j + 1] /\ j + 1 \in 1 .. t
  BY <1>1 DEF TaskTypes
<1>4. /\ tasks'[t][1] = "http" /\ tasks'[t][2] = c
      /\ \A j \in 1 .. t - 1 : /\ (tasks'[j][1] = "http" <=> IsHTTP(j + 1))
                               /\ tasks'[j][2] = tasks[j + 1][2]
                               /\ j + 1 \in 1 .. t
  BY <1>3 DEF IsHTTP
<1>5. \A k \in 1 .. n : accepted[k] # c
  BY <1>1 DEF Sends
<1>6. ~IsHTTP(1)
  BY DEF IsHTTP, IsSend
<1>7. Len(completed) <= n
  BY <1>1
<1> QED
  BY <1>1, <1>2, <1>3, <1>4, <1>5, <1>6, <1>7, LastInOrder

\* The first task moves its command to the end of the list.
LEMMA MovedInOrder ==
    ASSUME Types, InOrder, IsHTTP(1), UNCHANGED <<accepted, completed>>,
           NEW m \in Nat, m = Len(messageList), Len(messageList') = m + 1,
           messageList'[m + 1] = tasks[1][2],
           \A i \in 1 .. m : messageList'[i] = messageList[i],
           NEW t \in Nat, t + 1 = Len(tasks), Len(tasks') = t,
           \A j \in 1 .. t : /\ (tasks'[j][1] = "http" <=> IsHTTP(j + 1))
                             /\ tasks'[j][2] = tasks[j + 1][2] /\ j + 1 \in 1 .. t + 1
    PROVE  InOrder'
<1>1. UNCHANGED Left
  BY DEF Left
<1>2. 1 \in 1 .. t + 1 /\ \A j \in 1 .. t : 1 < j + 1
  OBVIOUS
<1>3. AllThere'
  <2>1. ASSUME NEW k \in Left
        PROVE  \/ \E i \in 1 .. m + 1 : messageList'[i] = accepted[k]
               \/ \E j \in 1 .. t : tasks'[j][1] = "http" /\ tasks'[j][2] = accepted[k]
    <3>1. CASE \E i \in 1 .. m : messageList[i] = accepted[k]
      BY <3>1
    <3>2. CASE \E j \in 1 .. t + 1 : IsHTTP(j) /\ tasks[j][2] = accepted[k]
      <4>1. PICK j \in 1 .. t + 1 : IsHTTP(j) /\ tasks[j][2] = accepted[k]
        BY <3>2
      <4>2. CASE j = 1
        BY <4>1, <4>2
      <4>3. CASE j # 1
        <5>1. PICK i \in 1 .. t : i + 1 = j
          <6>1. j - 1 \in 1 .. t /\ (j - 1) + 1 = j
            BY <4>3
          <6> QED
            BY <6>1
        <5>2. /\ tasks'[i][1] = "http" <=> IsHTTP(i + 1)
              /\ tasks'[i][2] = tasks[i + 1][2]
          OBVIOUS
        <5>3. tasks'[i][1] = "http" /\ tasks'[i][2] = accepted[k]
          BY <4>1, <5>1, <5>2, Zenon
        <5> QED
          BY <5>3, Zenon
      <4> QED
        BY <4>2, <4>3
    <3> QED
      BY <3>1, <3>2 DEF InOrder, AllThere
  <2> QED
    BY <1>1, <2>1 DEF AllThere, IsHTTP
<1>4. NoneElse'
  <2>1. ASSUME NEW i \in 1 .. m + 1, messageList'[i] \in Commands
        PROVE  \E k \in Left : messageList'[i] = accepted[k]
    <3>1. CASE i = m + 1
      BY <1>2, <2>1, <3>1 DEF InOrder, NoneElse
    <3>2. CASE i # m + 1
      BY <2>1, <3>2 DEF InOrder, NoneElse
    <3> QED
      BY <3>1, <3>2
  <2>2. ASSUME NEW j \in 1 .. t, tasks'[j][1] = "http", tasks'[j][2] \in Commands
        PROVE  \E k \in Left : tasks'[j][2] = accepted[k]
    <3>1. j + 1 \in 1 .. Len(tasks) /\ IsHTTP(j + 1) /\ tasks[j + 1][2] = tasks'[j][2]
      BY <2>2
    <3> QED
      BY <2>2, <3>1 DEF InOrder, NoneElse
  <2> QED
    BY <1>1, <2>1, <2>2 DEF NoneElse, IsHTTP
<1>5. ListInOrder'
  <2>1. ASSUME NEW i \in 1 .. m + 1, NEW j \in 1 .. m + 1,
               NEW k \in 1 .. Len(accepted), NEW l \in 1 .. Len(accepted),
               i < j, messageList'[i] = accepted[k], messageList'[j] = accepted[l]
        PROVE  k < l
    <3>1. i \in 1 .. m /\ messageList[i] = accepted[k]
      BY <2>1
    <3>2. CASE j = m + 1
      BY <1>2, <2>1, <3>1, <3>2 DEF InOrder, ListFirst
    <3>3. CASE j # m + 1
      <4>1. j \in 1 .. m /\ messageList[j] = accepted[l]
        BY <2>1, <3>3
      <4> QED
        BY <2>1, <3>1, <4>1 DEF InOrder, ListInOrder
    <3> QED
      BY <3>2, <3>3
  <2> QED
    BY <2>1 DEF ListInOrder
<1>6. ListFirst'
  <2>1. ASSUME NEW i \in 1 .. m + 1, NEW j \in 1 .. t,
               NEW k \in 1 .. Len(accepted), NEW l \in 1 .. Len(accepted),
               tasks'[j][1] = "http", messageList'[i] = accepted[k], tasks'[j][2] = accepted[l]
        PROVE  k < l
    <3>1. j + 1 \in 1 .. t + 1 /\ IsHTTP(j + 1) /\ tasks[j + 1][2] = accepted[l]
      BY <2>1
    <3>2. CASE i = m + 1
      <4>1. tasks[1][2] = accepted[k]
        BY <2>1, <3>2
      <4> QED
        BY <1>2, <3>1, <4>1 DEF InOrder, TasksInOrder
    <3>3. CASE i # m + 1
      <4>1. i \in 1 .. m /\ messageList[i] = accepted[k]
        BY <2>1, <3>3, SMTT(60)
      <4> QED
        BY <3>1, <4>1, SMTT(60) DEF InOrder, ListFirst
    <3> QED
      BY <3>2, <3>3
  <2> QED
    BY <2>1 DEF ListFirst, IsHTTP
<1>7. TasksInOrder'
  <2>1. ASSUME NEW i \in 1 .. t, NEW j \in 1 .. t,
               NEW k \in 1 .. Len(accepted), NEW l \in 1 .. Len(accepted), i < j,
               tasks'[i][1] = "http", tasks'[j][1] = "http",
               tasks'[i][2] = accepted[k], tasks'[j][2] = accepted[l]
        PROVE  k < l
    <3>1. /\ i + 1 \in 1 .. t + 1 /\ IsHTTP(i + 1) /\ tasks[i + 1][2] = accepted[k]
          /\ j + 1 \in 1 .. t + 1 /\ IsHTTP(j + 1) /\ tasks[j + 1][2] = accepted[l]
      BY <2>1
    <3>2. i + 1 < j + 1
      BY <2>1
    <3> QED
      BY <3>1, <3>2 DEF InOrder, TasksInOrder
  <2> QED
    BY <2>1 DEF TasksInOrder, IsHTTP
<1>8. AcceptedOnce'
  BY DEF InOrder, AcceptedOnce
<1> QED
  BY <1>3, <1>4, <1>5, <1>6, <1>7, <1>8 DEF InOrder

\* The first command of the list is the one that was accepted first of those left.
LEMMA FirstIsNext ==
    ASSUME Types, InOrder, messageList # <<>>, messageList[1] \in Commands
    PROVE  Len(completed) < Len(accepted) /\ messageList[1] = accepted[Len(completed) + 1]
<1>1. PICK d \in Nat, n \in Nat, m \in Nat \ {0} :
         d = Len(completed) /\ n = Len(accepted) /\ m = Len(messageList)
  BY DEF Types
<1>2. PICK k \in d + 1 .. n : messageList[1] = accepted[k]
  BY <1>1 DEF InOrder, NoneElse, Left
<1>3. d + 1 \in d + 1 .. n /\ d + 1 \in 1 .. n /\ k \in 1 .. n /\ d < n
  BY <1>1, <1>2
<1>4. CASE \E i \in 1 .. m : messageList[i] = accepted[d + 1]
  <2>1. PICK i \in 1 .. m : messageList[i] = accepted[d + 1]
    BY <1>4
  <2>2. CASE i = 1
    BY <1>1, <1>3, <2>1, <2>2
  <2>3. CASE i # 1
    <3>1. 1 < i /\ 1 \in 1 .. m
      BY <1>1, <2>3
    <3>2. k < d + 1
      BY <1>1, <1>2, <1>3, <2>1, <3>1 DEF InOrder, ListInOrder
    <3> QED
      BY <1>1, <1>2, <3>2
  <2> QED
    BY <2>2, <2>3
<1>5. CASE \E j \in 1 .. Len(tasks) : IsHTTP(j) /\ tasks[j][2] = accepted[d + 1]
  <2>1. k < d + 1
    BY <1>1, <1>2, <1>3, <1>5 DEF InOrder, ListFirst
  <2> QED
    BY <1>1, <1>2, <2>1
<1> QED
  BY <1>1, <1>3, <1>4, <1>5 DEF InOrder, AllThere, Left

\* The first message goes.
LEMMA TakenInOrder ==
    ASSUME Types, InOrder, UNCHANGED <<accepted, tasks>>,
           Left' = {k \in Left : accepted[k] # messageList[1]},
           NEW m \in Nat, m + 1 = Len(messageList), Len(messageList') = m,
           \A i \in 1 .. m : messageList'[i] = messageList[i + 1] /\ i + 1 \in 1 .. m + 1
    PROVE  InOrder'
<1>1. /\ \A k \in Left : k \in 1 .. Len(accepted)
      /\ 1 \in 1 .. m + 1 /\ \A i \in 1 .. m : 1 < i + 1
  BY DEF Left, Types
<1>2. \A j : IsHTTP(j)' <=> IsHTTP(j)
  BY DEF IsHTTP
<1>3. AllThere'
  <2>1. ASSUME NEW k \in Left, accepted[k] # messageList[1]
        PROVE  \/ \E i \in 1 .. m : messageList'[i] = accepted[k]
               \/ \E j \in 1 .. Len(tasks) : IsHTTP(j) /\ tasks[j][2] = accepted[k]
    <3>1. CASE \E i \in 1 .. m + 1 : messageList[i] = accepted[k]
      <4>1. PICK i \in 1 .. m + 1 : messageList[i] = accepted[k]
        BY <3>1
      <4>2. i - 1 \in 1 .. m /\ (i - 1) + 1 = i
        BY <2>1, <4>1
      <4> QED
        BY <4>1, <4>2
    <3> QED
      BY <3>1 DEF InOrder, AllThere
  <2> QED
    BY <1>2, <2>1 DEF AllThere
<1>4. NoneElse'
  <2>1. ASSUME NEW i \in 1 .. m, messageList'[i] \in Commands
        PROVE  \E k \in Left' : messageList'[i] = accepted[k]
    <3>1. PICK k \in Left : messageList[i + 1] = accepted[k]
      BY <2>1 DEF InOrder, NoneElse
    <3>2. accepted[k] # messageList[1]
      BY <1>1, <3>1 DEF InOrder, ListInOrder
    <3> QED
      BY <3>1, <3>2
  <2>2. ASSUME NEW j \in 1 .. Len(tasks), IsHTTP(j), tasks[j][2] \in Commands
        PROVE  \E k \in Left' : tasks[j][2] = accepted[k]
    <3>1. PICK k \in Left : tasks[j][2] = accepted[k]
      BY <2>2 DEF InOrder, NoneElse
    <3>2. accepted[k] # messageList[1]
      BY <1>1, <2>2, <3>1, SMTT(60) DEF InOrder, ListFirst
    <3> QED
      BY <3>1, <3>2
  <2> QED
    BY <1>2, <2>1, <2>2 DEF NoneElse
<1>5. ListInOrder'
  <2>1. ASSUME NEW i \in 1 .. m, NEW j \in 1 .. m,
               NEW k \in 1 .. Len(accepted), NEW l \in 1 .. Len(accepted),
               i < j, messageList'[i] = accepted[k], messageList'[j] = accepted[l]
        PROVE  k < l
    <3>1. i + 1 \in 1 .. m + 1 /\ j + 1 \in 1 .. m + 1 /\ i + 1 < j + 1
      BY <2>1
    <3> QED
      BY <2>1, <3>1, ZenonT(60) DEF InOrder, ListInOrder
  <2> QED
    BY <2>1 DEF ListInOrder
<1>6. ListFirst'
  <2>1. ASSUME NEW i \in 1 .. m, NEW j \in 1 .. Len(tasks),
               NEW k \in 1 .. Len(accepted), NEW l \in 1 .. Len(accepted),
               IsHTTP(j), messageList'[i] = accepted[k], tasks[j][2] = accepted[l]
        PROVE  k < l
    <3>1. i + 1 \in 1 .. m + 1 /\ messageList[i + 1] = accepted[k]
      BY <2>1
    <3> QED
      BY <2>1, <3>1 DEF InOrder, ListFirst
  <2> QED
    BY <2>1 DEF ListFirst, IsHTTP
<1>7. TasksInOrder' /\ AcceptedOnce'
  BY <1>2 DEF InOrder, TasksInOrder, AcceptedOnce
<1> QED
  BY <1>3, <1>4, <1>5, <1>6, <1>7 DEF InOrder

\* A caller puts its task at the end and waits for it.
LEMMA SentSends ==
    ASSUME Types, TaskTypes, Sends, NEW c \in All, caller[c] = "new",
           caller' = [caller EXCEPT ![c] = "waiting"],
           tasks' = Append(tasks, <<"send", c>>), UNCHANGED accepted
    PROVE  Sends'
<1>1. PICK t \in Nat : t = Len(tasks)
  BY DEF TaskTypes
<1>2. /\ Len(tasks') = t + 1 /\ tasks'[t + 1][2] = c
      /\ \A j \in 1 .. t : tasks'[j] = tasks[j] /\ tasks[j] \in Tasks
  BY <1>1, NamedTasks DEF TaskTypes
<1>3. \A j \in 1 .. t : IsSend(j) => tasks[j][2] \in All
  BY <1>2, TaskOfCommand DEF IsSend
<1>4. \A j \in 1 .. t : IsSend(j) => caller[tasks[j][2]] = "waiting" /\ tasks[j][2] # c
  BY <1>1 DEF Sends
<1>5. /\ \A b \in All : b # c => caller'[b] = caller[b]
      /\ caller'[c] = "waiting"
  BY DEF Types
<1>6. ASSUME NEW j \in 1 .. t + 1, tasks'[j][1] = "send"
      PROVE  /\ caller'[tasks'[j][2]] = "waiting"
             /\ tasks'[j][2] = c <=> j = t + 1
             /\ j # t + 1 => j \in 1 .. t /\ IsSend(j) /\ tasks'[j][2] = tasks[j][2]
  <2>1. CASE j = t + 1
    BY <1>2, <1>5, <2>1
  <2>2. CASE j # t + 1
    <3>1. j \in 1 .. t
      BY <2>2
    <3>2. IsSend(j) /\ tasks'[j][2] = tasks[j][2]
      BY <1>2, <1>6, <3>1 DEF IsSend
    <3> QED
      BY <1>3, <1>4, <1>5, <2>2, <3>1, <3>2
  <2> QED
    BY <2>1, <2>2
<1>7. ASSUME NEW i \in 1 .. t + 1, NEW j \in 1 .. t + 1,
             tasks'[i][1] = "send", tasks'[j][1] = "send", tasks'[i][2] = tasks'[j][2]
      PROVE  i = j
  BY <1>1, <1>6, <1>7 DEF Sends
<1>8. \A k \in 1 .. Len(accepted) : caller'[accepted[k]] \in {"signalled", "returned"}
  <2>1. \A k \in 1 .. Len(accepted) :
           accepted[k] \in All /\ caller[accepted[k]] \in {"signalled", "returned"}
    BY DEF Types, All, Sends
  <2> QED
    BY <1>5, <2>1
<1> QED
  BY <1>2, <1>6, <1>7, <1>8 DEF Sends, IsSend

\* The task of a caller runs and signals it.
LEMMA RunSends ==
    ASSUME Types, TaskTypes, Sends, tasks # <<>>, IsSend(1), NEW c \in All, c = tasks[1][2],
           caller' = [caller EXCEPT ![c] = "signalled"], tasks' \in Seq(Tasks),
           Kept(Tail(tasks), tasks', "send", 0),
           \/ UNCHANGED accepted
           \/ c \in Commands /\ accepted' = Append(accepted, c)
    PROVE  Sends'
<1>1. PICK t \in Nat \ {0} : t = Len(tasks)
  BY DEF TaskTypes
<1>2. Len(Tail(tasks)) = t - 1 /\ \A j \in 1 .. t - 1 : Tail(tasks)[j] = tasks[j + 1]
  BY <1>1 DEF TaskTypes
<1>3. \A j \in 1 .. t : IsSend(j) => tasks[j][2] \in All
  BY <1>1, TaskOfCommand DEF IsSend, TaskTypes
<1>4. \A j \in 1 .. t : IsSend(j) => /\ caller[tasks[j][2]] = "waiting"
                                     /\ tasks[j][2] = c => j = 1
  BY <1>1 DEF Sends
<1>5. /\ \A b \in All : b # c => caller'[b] = caller[b]
      /\ caller'[c] = "signalled"
  BY DEF Types
<1>6. ASSUME NEW j \in 1 .. Len(tasks'), tasks'[j][1] = "send"
      PROVE  /\ j + 1 \in 1 .. t /\ IsSend(j + 1) /\ tasks'[j][2] = tasks[j + 1][2]
             /\ caller'[tasks'[j][2]] = "waiting"
  <2>1. j \in Nat /\ j + 0 = j
    BY <1>6
  <2>2. j \in 1 .. t - 1 /\ Tail(tasks)[j][1] = "send" /\ tasks'[j][2] = Tail(tasks)[j][2]
    BY <1>2, <1>6, <2>1 DEF Kept
  <2>3. j + 1 \in 1 .. t /\ j + 1 # 1
    BY <2>2
  <2>4. IsSend(j + 1) /\ tasks'[j][2] = tasks[j + 1][2]
    BY <1>2, <2>2 DEF IsSend
  <2> QED
    BY <1>3, <1>4, <1>5, <2>3, <2>4
<1>7. ASSUME NEW i \in 1 .. Len(tasks'), NEW j \in 1 .. Len(tasks'),
             tasks'[i][1] = "send", tasks'[j][1] = "send", tasks'[i][2] = tasks'[j][2]
      PROVE  i = j
  <2>1. i + 1 = j + 1
    BY <1>1, <1>6, <1>7 DEF Sends
  <2> QED
    BY <2>1
<1>8. \A k \in 1 .. Len(accepted') : caller'[accepted'[k]] \in {"signalled", "returned"}
  <2>1. \A k \in 1 .. Len(accepted) :
           accepted[k] \in All /\ caller[accepted[k]] \in {"signalled", "returned"}
    BY DEF Types, All, Sends
  <2>2. \A k \in 1 .. Len(accepted) : caller'[accepted[k]] \in {"signalled", "returned"}
    BY <1>5, <2>1
  <2>3. CASE UNCHANGED accepted
    BY <2>2, <2>3
  <2>4. CASE accepted' = Append(accepted, c)
    <3>1. \A k \in 1 .. Len(accepted') : 
            \/ accepted'[k] = c
            \/ k \in 1 .. Len(accepted) /\ accepted'[k] = accepted[k]
      BY <2>4 DEF Types
    <3> QED
      BY <1>5, <2>2, <3>1
  <2> QED
    BY <2>3, <2>4
<1> QED
  BY <1>6, <1>7, <1>8 DEF Sends, IsSend

\* Callers stay where they are, or return.
CallersGoOn ==
    \A c \in All : /\ caller[c] = "waiting" => caller'[c] = "waiting"
                   /\ caller[c] \in {"signalled", "returned"} =>
                        caller'[c] \in {"signalled", "returned"}

\* Steps that add and take tasks without a command.
LEMMA PlainStep ==
    ASSUME Types, TaskTypes, Sends, InOrder, UNCHANGED <<messageList, accepted, completed>>,
           CallersGoOn,
           \/ UNCHANGED tasks
           \/ \E op \in Plain : tasks' = Append(tasks, <<op>>)
           \/ /\ tasks # <<>> /\ Head(tasks)[1] \in Plain
              /\ \/ tasks' = Tail(tasks)
                 \/ \E op \in Plain : tasks' = Append(Tail(tasks), <<op>>)
    PROVE  TaskTypes' /\ Sends' /\ InOrder'
<1>1. ASSUME NEW d \in {0, 1}, tasks' \in Seq(Tasks),
             Kept(tasks, tasks', "http", d), Kept(tasks, tasks', "send", d)
      PROVE  TaskTypes' /\ Sends' /\ InOrder'
  <2>1. Sends'
    BY <1>1, KeptSends DEF CallersGoOn
  <2>2. /\ \A j \in 1 .. Len(tasks') : IsHTTP(j)' =>
              j + d \in 1 .. Len(tasks) /\ IsHTTP(j + d) /\ tasks'[j][2] = tasks[j + d][2]
        /\ \A j \in 1 .. Len(tasks) : IsHTTP(j) =>
              j - d \in 1 .. Len(tasks') /\ IsHTTP(j - d)' /\ tasks'[j - d][2] = tasks[j][2]
    BY <1>1 DEF Kept, IsHTTP
  <2>3. InOrder'
    BY <2>2, KeptInOrder
  <2> QED
    BY <1>1, <2>1, <2>3 DEF TaskTypes
<1>2. \A x \in Plain : x # "http" /\ x # "send"
  BY DEF Plain
<1>3. CASE UNCHANGED tasks
  <2>1. Kept(tasks, tasks, "http", 0) /\ Kept(tasks, tasks, "send", 0)
    BY SameKeeps DEF TaskTypes
  <2> QED
    BY <1>1, <1>3, <2>1 DEF TaskTypes
<1>4. ASSUME NEW op \in Plain, tasks' = Append(tasks, <<op>>)
      PROVE  TaskTypes' /\ Sends' /\ InOrder'
  <2>1. <<op>> \in Tasks /\ <<op>>[1] # "http" /\ <<op>>[1] # "send"
    BY PlainTasks
  <2>2. /\ Append(tasks, <<op>>) \in Seq(Tasks)
        /\ Kept(tasks, Append(tasks, <<op>>), "http", 0)
        /\ Kept(tasks, Append(tasks, <<op>>), "send", 0)
    BY <2>1, AppendKeeps DEF TaskTypes
  <2> QED
    BY <1>1, <1>4, <2>2
<1>5. ASSUME tasks # <<>>, Head(tasks)[1] \in Plain, tasks' = Tail(tasks)
      PROVE  TaskTypes' /\ Sends' /\ InOrder'
  <2>1. /\ Tail(tasks) \in Seq(Tasks)
        /\ Kept(tasks, Tail(tasks), "http", 1) /\ Kept(tasks, Tail(tasks), "send", 1)
    BY <1>2, <1>5, TailKeeps DEF TaskTypes
  <2> QED
    BY <1>1, <1>5, <2>1
<1>6. ASSUME tasks # <<>>, Head(tasks)[1] \in Plain, NEW op \in Plain,
             tasks' = Append(Tail(tasks), <<op>>)
      PROVE  TaskTypes' /\ Sends' /\ InOrder'
  <2>1. <<op>> \in Tasks /\ <<op>>[1] # "http" /\ <<op>>[1] # "send"
    BY PlainTasks
  <2>2. /\ Append(Tail(tasks), <<op>>) \in Seq(Tasks)
        /\ Kept(tasks, Append(Tail(tasks), <<op>>), "http", 1)
        /\ Kept(tasks, Append(Tail(tasks), <<op>>), "send", 1)
    BY <1>2, <1>6, <2>1, TakenKeeps DEF TaskTypes
  <2> QED
    BY <1>1, <1>6, <2>2
<1> QED
  BY <1>3, <1>4, <1>5, <1>6

LEMMA KeptWaits ==
    ASSUME TaskTypes, NEW op, NEW at, ConnWaits(op, at), conn = at => conn' = at,
           tasks' \in Seq(Tasks), NEW d \in {0, 1}, Kept(tasks, tasks', op, d)
    PROVE  ConnWaits(op, at)'
<1>1. \A j \in 1 .. Len(tasks') : tasks'[j][1] = op =>
         j + d \in 1 .. Len(tasks) /\ tasks[j + d][1] = op
  BY DEF Kept
<1>2. \A j \in 1 .. Len(tasks') : tasks'[j][1] = op => conn' = at
  BY <1>1 DEF ConnWaits
<1>3. ASSUME NEW i \in 1 .. Len(tasks'), NEW j \in 1 .. Len(tasks'),
             tasks'[i][1] = op, tasks'[j][1] = op
      PROVE  i = j
  <2>1. i + d = j + d
    BY <1>1, <1>3 DEF ConnWaits
  <2> QED
    BY <2>1
<1> QED
  BY <1>2, <1>3 DEF ConnWaits

LEMMA AddedWaits ==
    ASSUME TaskTypes, NEW op \in Plain, NEW at, ConnWaits(op, at), conn # at, conn' = at,
           tasks' = Append(tasks, <<op>>)
    PROVE  ConnWaits(op, at)'
<1>1. PICK t \in Nat : t = Len(tasks)
  BY DEF TaskTypes
<1>2. Len(tasks') = t + 1 /\ \A j \in 1 .. t : tasks'[j] = tasks[j] /\ tasks[j][1] # op
  BY <1>1 DEF TaskTypes, ConnWaits
<1>3. ASSUME NEW j \in 1 .. t + 1, tasks'[j][1] = op PROVE j = t + 1
  BY <1>2, <1>3
<1> QED
  BY <1>2, <1>3 DEF ConnWaits

LEMMA TakenWaits ==
    ASSUME TaskTypes, tasks # <<>>, NEW op, Head(tasks)[1] = op, NEW at, ConnWaits(op, at),
           tasks' \in Seq(Tasks), Kept(Tail(tasks), tasks', op, 0)
    PROVE  conn = at /\ ConnWaits(op, at)'
<1>1. PICK t \in Nat \ {0} : t = Len(tasks)
  BY DEF TaskTypes
<1>2. /\ tasks[1] = Head(tasks) /\ Len(Tail(tasks)) = t - 1
      /\ \A j \in 1 .. t - 1 : Tail(tasks)[j] = tasks[j + 1]
  BY <1>1 DEF TaskTypes
<1>3. \A j \in 1 .. Len(tasks') : tasks'[j][1] = op => j \in 1 .. t - 1 /\ Tail(tasks)[j][1] = op
  BY <1>2 DEF Kept
<1>4. \A j \in 1 .. t - 1 : j + 1 \in 1 .. t /\ j + 1 # 1
  BY <1>1
<1>5. 1 \in 1 .. t /\ \A j \in 1 .. t : tasks[j][1] = op => j = 1
  BY <1>1, <1>2 DEF ConnWaits
<1>6. \A j \in 1 .. Len(tasks') : tasks'[j][1] # op
  BY <1>2, <1>3, <1>4, <1>5
<1> QED
  BY <1>1, <1>2, <1>5, <1>6 DEF ConnWaits

\* Steps of the others do not disturb it.
Forgets == {"forgetTimer", "forgetClient"}
LEMMA OthersWait ==
    ASSUME TaskTypes, NEW op \in Forgets, NEW at, ConnWaits(op, at), conn = at => conn' = at,
           \/ UNCHANGED tasks
           \/ \E x \in Tasks : x[1] # op /\ tasks' = Append(tasks, x)
           \/ /\ tasks # <<>> /\ Head(tasks)[1] # op
              /\ \/ tasks' = Tail(tasks)
                 \/ \E x \in Tasks : x[1] # op /\ tasks' = Append(Tail(tasks), x)
    PROVE  ConnWaits(op, at)'
<1>1. tasks' \in Seq(Tasks) /\ \E d \in {0, 1} : Kept(tasks, tasks', op, d)
  <2>1. CASE UNCHANGED tasks
    BY <2>1, SameKeeps DEF TaskTypes
  <2>2. CASE \E x \in Tasks : x[1] # op /\ tasks' = Append(tasks, x)
    BY <2>2, AppendKeeps DEF TaskTypes
  <2>3. CASE tasks # <<>> /\ Head(tasks)[1] # op /\ tasks' = Tail(tasks)
    BY <2>3, TailKeeps DEF TaskTypes
  <2>4. CASE /\ tasks # <<>> /\ Head(tasks)[1] # op
             /\ \E x \in Tasks : x[1] # op /\ tasks' = Append(Tail(tasks), x)
    BY <2>4, TakenKeeps DEF TaskTypes
  <2> QED
    BY <2>1, <2>2, <2>3, <2>4
<1> QED
  BY <1>1, KeptWaits
----------------------------------------------------------------------------
(* References *)

\* Calls in progress.
Calls == {c \in All : caller[c] \in {"waiting", "signalled"}}

LEMMA CallsFinite == IsFiniteSet(Calls) /\ Cardinality(Calls) \in Nat
<1>1. IsFiniteSet(All)
  BY CommandSets, FS_Union DEF All
<1>2. Calls \subseteq All
  BY DEF Calls
<1> QED
  BY <1>1, <1>2, FS_Subset, FS_CardinalityType

LEMMA CallBegins ==
    ASSUME Types, NEW c \in All, caller[c] = "new", caller' = [caller EXCEPT ![c] = "waiting"]
    PROVE  Cardinality(Calls') = Cardinality(Calls) + 1
<1>1. Calls' = Calls \cup {c} /\ c \notin Calls
  BY DEF Calls, Types
<1> QED
  BY <1>1, CallsFinite, FS_AddElement

LEMMA CallEnds ==
    ASSUME Types, NEW c \in All, caller[c] = "signalled",
           caller' = [caller EXCEPT ![c] = "returned"]
    PROVE  Cardinality(Calls') = Cardinality(Calls) - 1
<1>1. Calls' = Calls \ {c} /\ c \in Calls
  BY DEF Calls, Types
<1> QED
  BY <1>1, CallsFinite, FS_RemoveElement

LEMMA CallGoesOn ==
    ASSUME Types, NEW c \in All, caller[c] = "waiting",
           caller' = [caller EXCEPT ![c] = "signalled"]
    PROVE  Cardinality(Calls') = Cardinality(Calls)
<1>1. Calls' = Calls
  BY DEF Calls, Types
<1> QED
  BY <1>1
----------------------------------------------------------------------------
(* The steps *)

Balanced == CompletedInOrder /\ PendingIsUnanswered /\ RefsBalanced

LEMMA Numbers ==
    ASSUME Types
    PROVE  Len(accepted) \in Nat /\ Len(completed) \in Nat /\ Unanswered \in Int
BY DEF Types, Unanswered

LEMMA InitInv == Init => Inv
<1> SUFFICES ASSUME Init PROVE Inv
  OBVIOUS
<1>1. Types /\ TaskTypes
  BY DEF Init, Types, TaskTypes
<1>2. Sends /\ Waits /\ InOrder
  BY DEF Init, Sends, Waits, ConnWaits, InOrder, Left, AllThere, NoneElse,
         ListInOrder, ListFirst, TasksInOrder, AcceptedOnce
<1>3. CompletedInOrder /\ PendingIsUnanswered
  BY DEF Init, CompletedInOrder, PendingIsUnanswered, Unanswered
<1>4. RefsBalanced
  <2>1. Calls = {}
    BY DEF Init, Calls
  <2> QED
    BY <2>1, FS_EmptySet DEF Init, RefsBalanced, Unanswered, Calls
<1> QED
  BY <1>1, <1>2, <1>3, <1>4 DEF Inv

\* References of others than the connection.
Others == refs - (IF conn = "released" THEN 0 ELSE 1)

\* Steps that leave the callers and the logs alone.
LEMMA QuietStep ==
    ASSUME Inv, UNCHANGED <<caller, accepted, completed, eventPendingMessageCount>>,
           Others' = Others,
           eventReplyTimer' # "gone" => /\ eventReplyTimer # "gone"
                                        /\ eventReplyTimer' = "off" <=> eventReplyTimer = "off",
           refs' \in Int
    PROVE  Balanced'
<1>1. UNCHANGED Unanswered /\ UNCHANGED Calls
  BY DEF Unanswered, Calls
<1>2. Cardinality(Calls) \in Nat /\ Unanswered \in Int
  BY CallsFinite, Numbers DEF Inv
<1>3. CompletedInOrder'
  BY DEF Inv, CompletedInOrder
<1>4. PendingIsUnanswered'
  BY <1>1 DEF Inv, PendingIsUnanswered
<1>5. RefsBalanced'
  BY <1>1, <1>2 DEF Inv, RefsBalanced, Calls, Types, Others
<1> QED
  BY <1>3, <1>4, <1>5 DEF Balanced

\* The task that the connection waits for does not find it released.
LEMMA ForgetRuns ==
    ASSUME Inv
    PROVE  /\ RunForgetTimer => conn = "timer" /\ Waits'
           /\ RunForgetClient => conn = "client" /\ Waits'
<1>1. ASSUME NEW op \in Forgets, tasks # <<>>, Head(tasks)[1] = op,
             \/ tasks' = Tail(tasks)
             \/ tasks' = Append(Tail(tasks), <<"invalidate">>)
      PROVE  tasks' \in Seq(Tasks) /\ Kept(Tail(tasks), tasks', op, 0)
  <2>1. Tail(tasks) \in Seq(Tasks)
    BY <1>1 DEF Inv, TaskTypes
  <2>2. <<"invalidate">> \in Tasks /\ <<"invalidate">>[1] # op
    BY PlainTasks DEF Plain, Forgets
  <2> QED
    BY <1>1, <2>1, <2>2, SameKeeps, AppendKeeps
<1>2. <<"invalidate">> \in Tasks /\ \A op \in Forgets : <<"invalidate">>[1] # op
  BY PlainTasks DEF Plain, Forgets
<1>3. ASSUME RunForgetTimer PROVE conn = "timer" /\ Waits'
  <2>1. /\ tasks # <<>> /\ Head(tasks)[1] = "forgetTimer" /\ tasks' = Tail(tasks)
        /\ conn' = "timerDone"
    BY <1>3 DEF RunForgetTimer, Task
  <2>2. conn = "timer" /\ ConnWaits("forgetTimer", "timer")'
    BY <1>1, <2>1, TakenWaits DEF Inv, Waits, Forgets
  <2>3. ConnWaits("forgetClient", "client")'
    BY <2>1, <2>2, OthersWait DEF Inv, Waits, Forgets
  <2> QED
    BY <2>2, <2>3 DEF Waits
<1>4. ASSUME RunForgetClient PROVE conn = "client" /\ Waits'
  <2>1. /\ tasks # <<>> /\ Head(tasks)[1] = "forgetClient" /\ conn' = "clientDone"
        /\ tasks' = Tail(tasks) \/ tasks' = Append(Tail(tasks), <<"invalidate">>)
    BY <1>4 DEF RunForgetClient, Task
  <2>2. conn = "client" /\ ConnWaits("forgetClient", "client")'
    BY <1>1, <2>1, TakenWaits DEF Inv, Waits, Forgets
  <2>3. ConnWaits("forgetTimer", "timer")'
    BY <1>2, <2>1, <2>2, OthersWait DEF Inv, Waits, Forgets
  <2> QED
    BY <2>2, <2>3 DEF Waits
<1> QED
  BY <1>3, <1>4

LEMMA TearDownKeepsWaits == ASSUME Inv, TearDownStep PROVE Waits'
<1>1. CASE conn \in {"new", "open"}
  <2>1. conn' = "timer" /\ tasks' = Append(tasks, <<"forgetTimer">>)
    BY <1>1 DEF TearDownStep, TearDown
  <2>2. /\ <<"forgetTimer">> \in Tasks /\ <<"forgetTimer">>[1] # "forgetClient"
        /\ "forgetTimer" \in Plain
    BY PlainTasks DEF Plain
  <2>3. ConnWaits("forgetTimer", "timer")'
    BY <1>1, <2>1, <2>2, AddedWaits DEF Inv, Waits
  <2>4. ConnWaits("forgetClient", "client")'
    BY <1>1, <2>1, <2>2, OthersWait DEF Inv, Waits, Forgets
  <2> QED
    BY <2>3, <2>4 DEF Waits
<1>2. CASE conn = "timerDone"
  <2>1. conn' = "client" /\ tasks' = Append(tasks, <<"forgetClient">>)
    BY <1>2 DEF TearDownStep, TearDown
  <2>2. /\ <<"forgetClient">> \in Tasks /\ <<"forgetClient">>[1] # "forgetTimer"
        /\ "forgetClient" \in Plain
    BY PlainTasks DEF Plain
  <2>3. ConnWaits("forgetClient", "client")'
    BY <1>2, <2>1, <2>2, AddedWaits DEF Inv, Waits
  <2>4. ConnWaits("forgetTimer", "timer")'
    BY <1>2, <2>1, <2>2, OthersWait DEF Inv, Waits, Forgets
  <2> QED
    BY <2>3, <2>4 DEF Waits
<1>3. CASE conn = "clientDone"
  <2>1. UNCHANGED tasks \/ tasks' = Append(tasks, <<"finalSync">>)
    BY <1>3 DEF TearDownStep, TearDown, ReleaseElsewhere
  <2>2. <<"finalSync">> \in Tasks /\ \A op \in Forgets : <<"finalSync">>[1] # op
    BY PlainTasks DEF Plain, Forgets
  <2> QED
    BY <1>3, <2>1, <2>2, OthersWait DEF Inv, Waits, Forgets
<1> QED
  BY <1>1, <1>2, <1>3 DEF TearDownStep, TearDown

\* Steps with which the connection has nothing to do.
LEMMA WaitsOn ==
    ASSUME Inv, conn \in {"timer", "client"} => UNCHANGED conn,
           \/ UNCHANGED tasks
           \/ \E x \in Tasks : x[1] \notin Forgets /\ tasks' = Append(tasks, x)
           \/ /\ tasks # <<>> /\ Head(tasks)[1] \notin Forgets
              /\ \/ tasks' = Tail(tasks)
                 \/ \E x \in Tasks : x[1] \notin Forgets /\ tasks' = Append(Tail(tasks), x)
    PROVE  Waits'
<1>1. ConnWaits("forgetTimer", "timer")'
  BY OthersWait DEF Inv, Waits, Forgets
<1>2. ConnWaits("forgetClient", "client")'
  BY OthersWait DEF Inv, Waits, Forgets
<1> QED
  BY <1>1, <1>2 DEF Waits

\* Everything that runs no command, answers none and lets no caller go on.
OtherStep ==
    \/ Start \/ TearDownStep \/ RunForgetTimer \/ RunForgetClient \/ RunInvalidate
    \/ RunFinalSync \/ TimerFires \/ WriteDone \/ FailDone \/ UNCHANGED vars

LEMMA OtherStepWaits == ASSUME Inv, OtherStep PROVE Waits'
<1> USE DEF Forgets, Task, timerVars, httpVars, logVars, sessionVars
<1>1. CASE Start
  BY <1>1, WaitsOn DEF Start
<1>2. CASE TearDownStep
  BY <1>2, TearDownKeepsWaits
<1>3. CASE RunForgetTimer \/ RunForgetClient
  BY <1>3, ForgetRuns
<1>4. CASE RunInvalidate
  BY <1>4, WaitsOn DEF RunInvalidate
<1>5. CASE RunFinalSync
  BY <1>5, WaitsOn DEF RunFinalSync
<1>6. CASE TimerFires \/ WriteDone \/ FailDone \/ UNCHANGED vars
  BY <1>6, WaitsOn DEF TimerFires, WriteDone, FailDone, vars
<1> QED
  BY <1>1, <1>2, <1>3, <1>4, <1>5, <1>6 DEF OtherStep

LEMMA OtherStepKeepsInv == ASSUME Inv, OtherStep PROVE Inv'
<1>1. /\ Types' /\ UNCHANGED <<messageList, accepted, completed, caller, eventPendingMessageCount>>
      /\ Others' = Others
      /\ eventReplyTimer' # "gone" => /\ eventReplyTimer # "gone"
                                      /\ eventReplyTimer' = "off" <=> eventReplyTimer = "off"
      /\ \/ UNCHANGED tasks
         \/ \E op \in Plain : tasks' = Append(tasks, <<op>>)
         \/ /\ tasks # <<>> /\ Head(tasks)[1] \in Plain
            /\ \/ tasks' = Tail(tasks)
               \/ \E op \in Plain : tasks' = Append(Tail(tasks), <<op>>)
  <2> USE DEF Inv, Types, Others, Plain, Task, timerVars, httpVars, logVars, sessionVars
  <2>1. CASE Start
    BY <2>1 DEF Start
  <2>2. CASE TearDownStep
    BY <2>2 DEF TearDownStep, TearDown, ReleaseElsewhere
  <2>3. CASE RunForgetTimer
    <3>1. conn = "timer"
      BY <2>3, ForgetRuns
    <3> QED
      BY <2>3, <3>1 DEF RunForgetTimer
  <2>4. CASE RunForgetClient
    <3>1. conn = "client"
      BY <2>4, ForgetRuns
    <3> QED
      BY <2>4, <3>1 DEF RunForgetClient
  <2>5. CASE RunInvalidate
    BY <2>5 DEF RunInvalidate
  <2>6. CASE RunFinalSync
    BY <2>6 DEF RunFinalSync
  <2>7. CASE TimerFires
    BY <2>7 DEF TimerFires
  <2>8. CASE WriteDone
    BY <2>8 DEF WriteDone
  <2>9. CASE FailDone
    BY <2>9 DEF FailDone
  <2>10. CASE UNCHANGED vars
    BY <2>10 DEF vars
  <2> QED
    BY <2>1, <2>2, <2>3, <2>4, <2>5, <2>6, <2>7, <2>8, <2>9, <2>10 DEF OtherStep
<1>2. CallersGoOn
  BY <1>1 DEF CallersGoOn
<1>3. TaskTypes' /\ Sends' /\ InOrder'
  BY <1>1, <1>2, PlainStep DEF Inv
<1>4. Balanced'
  BY <1>1, QuietStep DEF Types
<1> QED
  BY <1>1, <1>3, <1>4, OtherStepWaits DEF Inv, Balanced

LEMMA SendCommandKeepsInv == ASSUME Inv, NEW c \in All, SendCommand(c) PROVE Inv'
<1> USE DEF timerVars, httpVars, logVars
<1>1. <<"send", c>> \in Tasks /\ <<"send", c>>[1] # "http"
  BY NamedTasks
<1>2. /\ tasks' \in Seq(Tasks) /\ Kept(tasks, tasks', "http", 0)
  BY <1>1, AppendKeeps DEF SendCommand, Inv, TaskTypes
<1>3. Types'
  BY DEF Inv, Types, SendCommand
<1>4. Sends'
  BY SentSends DEF Inv, SendCommand
<1>5. InOrder'
  <2>1. /\ \A j \in 1 .. Len(tasks') : IsHTTP(j)' =>
              j + 0 \in 1 .. Len(tasks) /\ IsHTTP(j + 0) /\ tasks'[j][2] = tasks[j + 0][2]
        /\ \A j \in 1 .. Len(tasks) : IsHTTP(j) =>
              j - 0 \in 1 .. Len(tasks') /\ IsHTTP(j - 0)' /\ tasks'[j - 0][2] = tasks[j][2]
    BY <1>2 DEF Kept, IsHTTP
  <2> QED
    BY <2>1, KeptInOrder DEF Inv, SendCommand
<1>8. Waits'
  <2>1. <<"send", c>>[1] \notin Forgets /\ tasks' = Append(tasks, <<"send", c>>) /\ conn' = conn
    BY NamedTasks DEF Forgets, SendCommand
  <2> QED
    BY <1>1, <2>1, WaitsOn
<1>6. CompletedInOrder' /\ PendingIsUnanswered'
  BY DEF Inv, SendCommand, CompletedInOrder, PendingIsUnanswered, Unanswered
<1>7. RefsBalanced'
  <2>1. Cardinality(Calls') = Cardinality(Calls) + 1 /\ Cardinality(Calls) \in Nat
    BY CallBegins, CallsFinite DEF Inv, SendCommand
  <2>2. refs' = refs + 1 /\ conn' = conn /\ Unanswered' = Unanswered
    BY DEF SendCommand, Unanswered
  <2> QED
    BY <2>1, <2>2, Numbers DEF Inv, RefsBalanced, Calls, Types
<1> QED
  BY <1>2, <1>3, <1>4, <1>5, <1>6, <1>7, <1>8 DEF Inv, TaskTypes

LEMMA ReturnKeepsInv == ASSUME Inv, NEW c \in All, SendCommandReturns(c) PROVE Inv'
<1> USE DEF timerVars, httpVars, logVars
<1>1. Types'
  BY DEF Inv, Types, SendCommandReturns, ReleaseElsewhere
<1>2. CallersGoOn
  BY DEF CallersGoOn, Inv, Types, SendCommandReturns
<1>3. UNCHANGED tasks \/ \E op \in Plain : tasks' = Append(tasks, <<op>>)
  BY DEF SendCommandReturns, ReleaseElsewhere, Plain
<1>4. TaskTypes' /\ Sends' /\ InOrder'
  BY <1>2, <1>3, PlainStep DEF Inv, SendCommandReturns
<1>7. Waits'
  <2>1. \A op \in Plain : <<op>> \in Tasks /\ <<op>>[1] = op
    BY PlainTasks
  <2>2. conn' = conn /\ (UNCHANGED tasks \/ tasks' = Append(tasks, <<"finalSync">>))
    BY DEF SendCommandReturns, ReleaseElsewhere
  <2>3. <<"finalSync">> \in Tasks /\ <<"finalSync">>[1] \notin Forgets
    BY <2>1 DEF Plain, Forgets
  <2> QED
    BY <2>2, <2>3, WaitsOn
<1>5. CompletedInOrder' /\ PendingIsUnanswered'
  BY DEF Inv, SendCommandReturns, CompletedInOrder, PendingIsUnanswered, Unanswered
<1>6. RefsBalanced'
  <2>1. Cardinality(Calls') = Cardinality(Calls) - 1 /\ Cardinality(Calls) \in Nat
    BY CallEnds, CallsFinite DEF Inv, SendCommandReturns
  <2>2. refs' = refs - 1 /\ conn' = conn /\ Unanswered' = Unanswered
    BY DEF SendCommandReturns, ReleaseElsewhere, Unanswered
  <2> QED
    BY <2>1, <2>2, Numbers, SMTT(60) DEF Inv, RefsBalanced, Calls, Types
<1> QED
  BY <1>1, <1>4, <1>5, <1>6, <1>7 DEF Inv

LEMMA RunSendKeepsInv == ASSUME Inv, RunSend PROVE Inv'
<1> USE DEF timerVars, httpVars, logVars
<1>1. PICK c : c = Head(tasks)[2]
  OBVIOUS
<1>2. /\ tasks # <<>> /\ Head(tasks)[1] = "send" /\ Head(tasks) = tasks[1]
      /\ tasks[1] \in Tasks /\ 1 \in 1 .. Len(tasks)
  BY DEF RunSend, Task, Inv, TaskTypes
<1>3. c \in All /\ IsSend(1) /\ c = tasks[1][2] /\ caller[c] = "waiting"
  BY <1>1, <1>2, TaskOfCommand DEF IsSend, Inv, Sends
<1>4. /\ <<"http", c>> \in Tasks /\ <<"http", c>>[1] = "http" /\ <<"http", c>>[2] = c
  BY <1>3, NamedTasks
<1>5. /\ caller' = [caller EXCEPT ![c] = "signalled"]
      /\ UNCHANGED <<conn, messageList, completed>>
      /\ \/ tasks' = Tail(tasks) /\ UNCHANGED <<refs, timerVars, accepted>>
         \/ /\ c \in Notices /\ tasks' = Append(Tail(tasks), <<"http", c>>)
            /\ UNCHANGED <<refs, timerVars, accepted>>
         \/ /\ c \in Commands /\ tasks' = Append(Tail(tasks), <<"http", c>>)
            /\ eventReplyTimer # "gone"
            /\ refs' = refs + 1 /\ accepted' = Append(accepted, c)
            /\ eventPendingMessageCount' = eventPendingMessageCount + 1
            /\ eventReplyTimer' = IF eventPendingMessageCount = 0 THEN "armed"
                                  ELSE eventReplyTimer
  BY <1>1, <1>3 DEF RunSend, Signal, All
<1>6. Tail(tasks) \in Seq(Tasks) /\ tasks' \in Seq(Tasks) /\ Kept(Tail(tasks), tasks', "send", 0)
  <2>1. Tail(tasks) \in Seq(Tasks)
    BY <1>2 DEF Inv, TaskTypes
  <2>2. CASE tasks' = Tail(tasks)
    BY <2>1, <2>2, SameKeeps
  <2>3. CASE tasks' = Append(Tail(tasks), <<"http", c>>)
    <3>1. <<"http", c>>[1] # "send"
      BY <1>4
    <3> QED
      BY <1>4, <2>1, <2>3, <3>1, AppendKeeps
  <2> QED
    BY <1>5, <2>1, <2>2, <2>3
<1>7. Types'
  <2>1. caller' \in [All -> {"new", "waiting", "signalled", "returned"}]
    BY <1>5 DEF Inv, Types
  <2>2. /\ refs' \in Int /\ eventPendingMessageCount' \in Int
        /\ eventReplyTimer' \in {"off", "armed", "fired", "gone"}
        /\ accepted' \in Seq(Commands)
    <3>1. CASE UNCHANGED <<refs, timerVars, accepted>>
      BY <3>1 DEF Inv, Types
    <3>2. CASE /\ c \in Commands
               /\ refs' = refs + 1 /\ accepted' = Append(accepted, c)
               /\ eventPendingMessageCount' = eventPendingMessageCount + 1
               /\ eventReplyTimer' = IF eventPendingMessageCount = 0 THEN "armed"
                                     ELSE eventReplyTimer
      BY <3>2 DEF Inv, Types
    <3> QED
      BY <1>5, <3>1, <3>2
  <2> QED
    BY <1>5, <2>1, <2>2 DEF Inv, Types
<1>8. Sends'
  <2>1. UNCHANGED accepted \/ (c \in Commands /\ accepted' = Append(accepted, c))
    BY <1>5
  <2> QED
    BY <1>2, <1>3, <1>5, <1>6, <2>1, RunSends DEF Inv
<1>9. Waits'
  BY <1>2, <1>4, <1>5, WaitsOn DEF Forgets
<1>10. InOrder'
  <2>1. CASE tasks' = Tail(tasks) /\ UNCHANGED accepted
    <3>1. Kept(tasks, Tail(tasks), "http", 1)
      BY <1>2, TailKeeps DEF Inv, TaskTypes
    <3>2. /\ \A j \in 1 .. Len(tasks') : IsHTTP(j)' =>
                j + 1 \in 1 .. Len(tasks) /\ IsHTTP(j + 1) /\ tasks'[j][2] = tasks[j + 1][2]
          /\ \A j \in 1 .. Len(tasks) : IsHTTP(j) =>
                j - 1 \in 1 .. Len(tasks') /\ IsHTTP(j - 1)' /\ tasks'[j - 1][2] = tasks[j][2]
      BY <2>1, <3>1 DEF Kept, IsHTTP
    <3> QED
      BY <1>5, <2>1, <3>2, KeptInOrder DEF Inv
  <2>2. CASE c \in Notices /\ tasks' = Append(Tail(tasks), <<"http", c>>) /\ UNCHANGED accepted
    <3>1. PICK t \in Nat \ {0} : t = Len(tasks)
      BY <1>2 DEF Inv, TaskTypes
    <3>2. /\ Len(tasks') = t /\ tasks'[t][2] = c
          /\ \A j \in 1 .. t - 1 : tasks'[j] = tasks[j + 1]
      BY <1>2, <1>4, <2>2, <3>1 DEF Inv, TaskTypes
    <3>3. c \notin Commands
      BY <2>2, CommandSets
    <3>4. \A j \in 1 .. t : IsHTTP(j)' /\ tasks'[j][2] \in Commands =>
             j + 1 \in 1 .. t /\ IsHTTP(j + 1) /\ tasks'[j][2] = tasks[j + 1][2]
      BY <3>2, <3>3 DEF IsHTTP
    <3>5. ASSUME NEW j \in 1 .. t, IsHTTP(j)
          PROVE  j - 1 \in 1 .. t /\ IsHTTP(j - 1)' /\ tasks'[j - 1][2] = tasks[j][2]
      <4>1. j # 1
        BY <1>2, <3>5 DEF IsHTTP
      <4>2. j - 1 \in 1 .. t - 1 /\ (j - 1) + 1 = j
        BY <4>1
      <4> QED
        BY <3>2, <3>5, <4>2 DEF IsHTTP
    <3> QED
      BY <1>5, <2>2, <3>1, <3>2, <3>4, <3>5, KeptInOrder DEF Inv
  <2>3. CASE /\ c \in Commands /\ tasks' = Append(Tail(tasks), <<"http", c>>)
             /\ accepted' = Append(accepted, c)
    BY <1>2, <1>3, <1>5, <2>3, AcceptedInOrder DEF Inv, CompletedInOrder
  <2> QED
    BY <1>5, <2>1, <2>2, <2>3
<1>11. CompletedInOrder'
  <2>1. /\ Len(accepted) <= Len(accepted')
        /\ \A i \in 1 .. Len(accepted) : accepted'[i] = accepted[i]
    <3>1. CASE UNCHANGED accepted
      BY <3>1, Numbers DEF Inv
    <3>2. CASE c \in Commands /\ accepted' = Append(accepted, c)
      BY <3>2 DEF Inv, Types
    <3> QED
      BY <1>5, <3>1, <3>2
  <2> QED
    BY <1>5, <1>7, <2>1, Numbers DEF Inv, Types, CompletedInOrder
<1>12. Len(accepted) \in Nat /\ Len(completed) \in Nat /\ Len(completed) <= Len(accepted)
  BY Numbers DEF Inv, CompletedInOrder
<1>13. CASE UNCHANGED <<refs, timerVars, accepted>>
  <2>1. Unanswered' = Unanswered
    BY <1>5, <1>13 DEF Unanswered
  <2>2. PendingIsUnanswered'
    BY <1>5, <1>13, <2>1 DEF Inv, PendingIsUnanswered
  <2>3. RefsBalanced'
    <3>1. Cardinality(Calls') = Cardinality(Calls)
      BY <1>3, <1>5, CallGoesOn DEF Inv
    <3> QED
      BY <1>5, <1>13, <2>1, <3>1 DEF Inv, RefsBalanced, Calls
  <2> QED
    BY <1>6, <1>7, <1>8, <1>9, <1>10, <1>11, <2>2, <2>3 DEF Inv, TaskTypes
<1>14. CASE /\ eventReplyTimer # "gone"
            /\ refs' = refs + 1 /\ accepted' = Append(accepted, c)
            /\ eventPendingMessageCount' = eventPendingMessageCount + 1
            /\ eventReplyTimer' = IF eventPendingMessageCount = 0 THEN "armed"
                                  ELSE eventReplyTimer
  <2>1. Unanswered' = Unanswered + 1 /\ Unanswered \in Nat
    <3>1. Len(accepted') = Len(accepted) + 1
      BY <1>14 DEF Inv, Types
    <3> QED
      BY <1>5, <1>12, <3>1 DEF Unanswered
  <2>2. PendingIsUnanswered'
    <3>1. /\ eventPendingMessageCount = Unanswered
          /\ (eventReplyTimer = "off") <=> (Unanswered = 0)
      BY <1>14, <2>1 DEF Inv, PendingIsUnanswered
    <3>2. /\ eventPendingMessageCount' = Unanswered'
          /\ eventReplyTimer' # "off" /\ Unanswered' # 0
      BY <1>14, <2>1, <3>1
    <3> QED
      BY <3>2 DEF PendingIsUnanswered
  <2>3. RefsBalanced'
    <3>1. Cardinality(Calls') = Cardinality(Calls) /\ Cardinality(Calls) \in Nat
      BY <1>3, <1>5, CallGoesOn, CallsFinite DEF Inv
    <3> QED
      BY <1>5, <1>14, <2>1, <3>1 DEF Inv, RefsBalanced, Calls
  <2> QED
    BY <1>6, <1>7, <1>8, <1>9, <1>10, <1>11, <2>2, <2>3 DEF Inv, TaskTypes
<1> QED
  BY <1>5, <1>13, <1>14

LEMMA RunHTTPSendKeepsInv == ASSUME Inv, RunHTTPSend PROVE Inv'
<1> USE DEF timerVars, httpVars, logVars, sessionVars
<1>1. /\ tasks # <<>> /\ Head(tasks)[1] = "http" /\ Head(tasks) = tasks[1]
      /\ tasks[1] \in Tasks /\ tasks' = Tail(tasks)
      /\ messageList' = Append(messageList, tasks[1][2])
      /\ UNCHANGED <<conn, refs, eventReplyTimer, eventPendingMessageCount, accepted, completed,
                     caller>>
  BY DEF RunHTTPSend, Task, Listed, Inv, TaskTypes
<1>2. tasks[1][2] \in All
  BY <1>1, TaskOfCommand
<1>3. Types' /\ tasks' \in Seq(Tasks)
  BY <1>1, <1>2 DEF Inv, Types, TaskTypes
<1>4. Sends'
  <2>1. Kept(tasks, tasks', "send", 1)
    BY <1>1, TailKeeps DEF Inv, TaskTypes
  <2> QED
    BY <1>1, <1>3, <2>1, KeptSends DEF Inv
<1>5. Waits'
  BY <1>1, WaitsOn DEF Forgets
<1>6. InOrder'
  <2>1. PICK t \in Nat, m \in Nat : t + 1 = Len(tasks) /\ m = Len(messageList)
    <3>1. Len(tasks) - 1 \in Nat /\ (Len(tasks) - 1) + 1 = Len(tasks) /\ Len(messageList) \in Nat
      BY <1>1 DEF Inv, Types, TaskTypes
    <3> QED
      BY <3>1
  <2>2. /\ Len(tasks') = t
        /\ \A j \in 1 .. t : tasks'[j] = tasks[j + 1] /\ j + 1 \in 1 .. t + 1
    BY <1>1, <2>1 DEF Inv, TaskTypes
  <2>3. \A j \in 1 .. t : /\ (tasks'[j][1] = "http" <=> IsHTTP(j + 1))
                          /\ tasks'[j][2] = tasks[j + 1][2] /\ j + 1 \in 1 .. t + 1
    BY <2>2 DEF IsHTTP
  <2>4. /\ Len(messageList') = m + 1 /\ messageList'[m + 1] = tasks[1][2]
        /\ \A i \in 1 .. m : messageList'[i] = messageList[i]
    BY <1>1, <1>2, <2>1 DEF Inv, Types
  <2>5. IsHTTP(1)
    BY <1>1 DEF IsHTTP
  <2> QED
    BY <1>1, <2>1, <2>2, <2>3, <2>4, <2>5, MovedInOrder DEF Inv
<1>7. Balanced'
  BY <1>1, QuietStep DEF Inv, Types, Others
<1> QED
  BY <1>3, <1>4, <1>5, <1>6, <1>7 DEF Inv, Balanced, TaskTypes

\* A completion: of a notice, or of the command that was accepted first.
LEMMA CompleteFirstKeepsInv ==
    ASSUME Inv, messageList # <<>>, NEW body \in Outcome, NEW next, CompleteFirst(body, next)
    PROVE  Inv'
<1> USE DEF timerVars
<1>1. PICK c : c = Head(messageList)
  OBVIOUS
<1>2. PICK m \in Nat, n \in Nat, d \in Nat :
         m + 1 = Len(messageList) /\ n = Len(accepted) /\ d = Len(completed) /\ d <= n
  <2>1. Len(messageList) - 1 \in Nat /\ (Len(messageList) - 1) + 1 = Len(messageList)
    BY DEF Inv, Types
  <2> QED
    BY <2>1, Numbers DEF Inv, CompletedInOrder
<1>3. /\ messageList' = Tail(messageList) /\ messageList' \in Seq(All)
      /\ c = messageList[1] /\ c \in All /\ Len(messageList') = m
      /\ \A i \in 1 .. m : messageList'[i] = messageList[i + 1] /\ i + 1 \in 1 .. m + 1
  BY <1>1, <1>2 DEF CompleteFirst, Inv, Types
<1>4. /\ UNCHANGED <<conn, accepted, caller, tasks>>
      /\ \/ c \in Notices /\ UNCHANGED <<refs, timerVars, completed>>
         \/ /\ c \in Commands
            /\ completed' = Append(completed, [cmd |-> c, told |-> Told(body)])
            /\ eventPendingMessageCount' = CountAfter
            /\ eventReplyTimer' = IF eventReplyTimer = "gone" THEN "gone" ELSE TimerAfter
            /\ refs' = refs - 1
  BY <1>1, <1>3 DEF CompleteFirst, All
<1>5. TaskTypes' /\ Sends' /\ Waits'
  <2>1. Kept(tasks, tasks, "send", 0)
    BY SameKeeps DEF Inv, TaskTypes
  <2>2. Sends'
    BY <1>4, <2>1, KeptSends DEF Inv, TaskTypes
  <2> QED
    BY <1>4, <2>2, WaitsOn DEF Inv, TaskTypes
<1>6. Calls' = Calls /\ Cardinality(Calls) \in Nat
  BY <1>4, CallsFinite DEF Calls
<1>7. CASE c \in Notices /\ UNCHANGED <<refs, timerVars, completed>>
  <2>1. UNCHANGED <<Unanswered, Left>>
    BY <1>4, <1>7 DEF Unanswered, Left
  <2>2. c \notin Commands /\ \A k \in Left : accepted[k] \in Commands
    BY <1>7, CommandSets DEF Left, Inv, Types
  <2>3. InOrder'
    BY <1>2, <1>3, <1>4, <2>1, <2>2, TakenInOrder DEF Inv
  <2>4. CompletedInOrder' /\ PendingIsUnanswered' /\ RefsBalanced'
    BY <1>4, <1>6, <1>7, <2>1 DEF Inv, CompletedInOrder, PendingIsUnanswered, RefsBalanced, Calls
  <2>5. Types'
    BY <1>3, <1>4, <1>7 DEF Inv, Types
  <2> QED
    BY <1>5, <2>3, <2>4, <2>5 DEF Inv
<1>8. CASE /\ c \in Commands
           /\ completed' = Append(completed, [cmd |-> c, told |-> Told(body)])
           /\ eventPendingMessageCount' = CountAfter
           /\ eventReplyTimer' = IF eventReplyTimer = "gone" THEN "gone" ELSE TimerAfter
           /\ refs' = refs - 1
  <2>1. d < n /\ c = accepted[d + 1]
    BY <1>2, <1>3, <1>8, FirstIsNext DEF Inv
  <2>2. Types'
    <3>1. Told(body) \in Outcome
      BY DEF Told, Outcome
    <3>2. completed' \in Seq([cmd : Commands, told : Outcome])
      BY <1>8, <3>1 DEF Inv, Types
    <3>3. /\ eventPendingMessageCount' \in Int /\ refs' \in Int
          /\ eventReplyTimer' \in {"off", "armed", "fired", "gone"}
      BY <1>8 DEF Inv, Types, CountAfter, TimerAfter
    <3> QED
      BY <1>3, <1>4, <3>2, <3>3 DEF Inv, Types
  <2>3. /\ Len(completed') = d + 1 /\ completed'[d + 1].cmd = c
        /\ \A i \in 1 .. d : completed'[i] = completed[i]
    BY <1>2, <1>8 DEF Inv, Types
  <2>4. CompletedInOrder'
    <3>1. ASSUME NEW i \in 1 .. d + 1 PROVE completed'[i].cmd = accepted[i]
      <4>1. CASE i = d + 1
        BY <2>1, <2>3, <4>1
      <4>2. CASE i # d + 1
        <5>1. i \in 1 .. d
          BY <4>2
        <5> QED
          BY <1>2, <2>3, <5>1 DEF Inv, CompletedInOrder
      <4> QED
        BY <4>1, <4>2
    <3> QED
      BY <1>2, <1>4, <2>1, <2>3, <3>1 DEF CompletedInOrder
  <2>5. InOrder'
    <3>1. Left = d + 1 .. n /\ Left' = d + 2 .. n
      BY <1>2, <1>4, <2>3 DEF Left
    <3>2. \A k \in 1 .. n : accepted[k] = accepted[d + 1] => k = d + 1
      BY <1>2, <2>1 DEF Inv, InOrder, AcceptedOnce
    <3>3. Left' = {k \in Left : accepted[k] # messageList[1]}
      BY <1>3, <2>1, <3>1, <3>2
    <3> QED
      BY <1>2, <1>3, <1>4, <3>3, TakenInOrder DEF Inv
  <2>6. Unanswered' = Unanswered - 1 /\ Unanswered \in Nat /\ Unanswered > 0
    BY <1>2, <1>4, <2>1, <2>3 DEF Unanswered
  <2>7. PendingIsUnanswered'
    <3>1. CASE eventReplyTimer = "gone"
      BY <1>8, <3>1 DEF PendingIsUnanswered
    <3>2. CASE eventReplyTimer # "gone"
      <4>1. eventPendingMessageCount = Unanswered
        BY <3>2 DEF Inv, PendingIsUnanswered
      <4>2. /\ eventPendingMessageCount' = Unanswered'
            /\ eventReplyTimer' = "off" <=> Unanswered' = 0
        BY <1>8, <2>6, <3>2, <4>1 DEF CountAfter, TimerAfter
      <4> QED
        BY <4>2 DEF PendingIsUnanswered
    <3> QED
      BY <3>1, <3>2
  <2>8. RefsBalanced'
    BY <1>4, <1>6, <1>8, <2>6 DEF Inv, RefsBalanced, Calls, Types
  <2> QED
    BY <1>5, <2>2, <2>4, <2>5, <2>7, <2>8 DEF Inv
<1> QED
  BY <1>4, <1>7, <1>8

LEMMA InitClient == Init => Client
BY DEF Init, Client

LEMMA RestIsThere == ASSUME NEW S, NEW s \in Seq(S), Len(s) > 1 PROVE Tail(s) # <<>>
<1>1. Tail(s) \in Seq(S) /\ Len(Tail(s)) = Len(s) - 1 /\ Len(s) \in Nat
  OBVIOUS
<1>2. Tail(s) = <<>> <=> Len(Tail(s)) = 0
  BY <1>1, EmptySeq
<1> QED
  BY <1>1, <1>2

\* A client with an answer to write or to wait for has a message.
LEMMA ClientKept ==
    ASSUME Inv, Client, [Next]_vars PROVE Client'
<1> USE DEF Client, Task, timerVars, httpVars, logVars, sessionVars
<1>1. CASE Start
  BY <1>1 DEF Start
<1>2. CASE TearDownStep
  BY <1>2 DEF TearDownStep, TearDown
<1>3. ASSUME NEW c \in All, SendCommand(c) PROVE Client'
  BY <1>3 DEF SendCommand
<1>4. ASSUME NEW c \in All, SendCommandReturns(c) PROVE Client'
  BY <1>4 DEF SendCommandReturns
<1>5. CASE RunSend
  BY <1>5 DEF RunSend
<1>6. CASE RunHTTPSend
  <2>1. messageList' # <<>>
    BY <1>6 DEF RunHTTPSend, Listed, Inv, Types
  <2> QED
    BY <1>6, <2>1 DEF RunHTTPSend
<1>7. CASE RunForgetTimer
  BY <1>7 DEF RunForgetTimer
<1>8. CASE RunForgetClient
  BY <1>8 DEF RunForgetClient
<1>9. CASE RunInvalidate
  BY <1>9 DEF RunInvalidate
<1>10. CASE RunFinalSync
  BY <1>10 DEF RunFinalSync
<1>11. CASE FailNext
  BY <1>11 DEF FailNext, CompleteFirst
<1>12. CASE FailDone
  BY <1>12 DEF FailDone
<1>13. CASE TimerFires
  BY <1>13 DEF TimerFires
<1>14. CASE WriteDone
  BY <1>14 DEF WriteDone
<1>15. CASE Answered
  <2>1. /\ messageList' = Tail(messageList) /\ UNCHANGED conn /\ conn # "new"
        /\ running' \in {"idle", "stuck"}
        /\ http' = IF Len(messageList) > 1 THEN "writing" ELSE "idle"
    BY <1>15 DEF Answered, CompleteFirst
  <2>2. Len(messageList) > 1 => Tail(messageList) # <<>>
    BY RestIsThere DEF Inv, Types
  <2> QED
    BY <2>1, <2>2
<1>16. CASE Breaks
  BY <1>16 DEF Breaks, CompleteFirst
<1>17. CASE UNCHANGED vars
  BY <1>17 DEF vars
<1> QED
  BY <1>1, <1>2, <1>3, <1>4, <1>5, <1>6, <1>7, <1>8, <1>9, <1>10, <1>11, <1>12, <1>13, <1>14,
     <1>15, <1>16, <1>17 DEF Next, QueueRuns

\* Every step of the session keeps the invariant.
LEMMA NextKeepsInv == ASSUME Inv, Client, [Next]_vars PROVE Inv'
<1>1. CASE OtherStep
  BY <1>1, OtherStepKeepsInv
<1>2. CASE \E c \in All : SendCommand(c) \/ SendCommandReturns(c)
  BY <1>2, SendCommandKeepsInv, ReturnKeepsInv
<1>3. CASE RunSend \/ RunHTTPSend
  BY <1>3, RunSendKeepsInv, RunHTTPSendKeepsInv
<1>4. CASE FailNext
  <2>1. messageList # <<>> /\ CompleteFirst("request", "failing")
    BY <1>4 DEF FailNext
  <2> QED
    BY <2>1, CompleteFirstKeepsInv DEF Outcome
<1>5. CASE Answered
  <2>1. messageList # <<>> /\ \E body \in {"response", "empty"} : CompleteFirst(body, "idle")
    BY <1>5 DEF Answered, Client
  <2> QED
    BY <2>1, CompleteFirstKeepsInv DEF Outcome
<1>6. CASE Breaks
  <2>1. /\ messageList # <<>>
        /\ CompleteFirst(IF http = "writing" THEN "request" ELSE "empty", "failing")
    BY <1>6 DEF Breaks, Client
  <2> QED
    BY <2>1, CompleteFirstKeepsInv DEF Outcome
<1> QED
  BY <1>1, <1>2, <1>3, <1>4, <1>5, <1>6 DEF Next, QueueRuns, OtherStep

LEMMA SpecInv == Spec => [](Inv /\ Client)
BY InitInv, InitClient, NextKeepsInv, ClientKept, PTL DEF Spec

\* Every accepted command is completed at most once, and in the order in which they
\* were accepted, however the connection breaks and the session is torn down.
THEOREM CompletionsInOrder == Spec => []CompletedInOrder
<1>1. Inv => CompletedInOrder
  BY DEF Inv
<1> QED
  BY <1>1, SpecInv, PTL

\* eventPendingMessageCount is the number of commands without a reply, and the reply
\* timer is set as long as there are any.
THEOREM PendingCounts == Spec => []PendingIsUnanswered
<1>1. Inv => PendingIsUnanswered
  BY DEF Inv
<1> QED
  BY <1>1, SpecInv, PTL

\* The session is retained by its connection, the calls in progress and the commands
\* that wait, and by nothing else.
THEOREM ReferencesBalance == Spec => []RefsBalanced
<1>1. Inv => RefsBalanced
  BY DEF Inv
<1> QED
  BY <1>1, SpecInv, PTL
=============================================================================
