------------------------------ MODULE EngineProofs -----------------------------
(***************************************************************************)
(* Two parts of the engine that know nothing of each other.               *)
(* The task queue, for any number of threads and tasks: it is used by one  *)
(* thread at a time, no wake-up is lost, a loop that quits without locks   *)
(* leaves no task, and every task runs once and in the order of the posts. *)
(* The filters, for any phases, filters and groups: what registerFilters   *)
(* and unregisterFilters make of a list, and the order of every list.      *)
(***************************************************************************)
EXTENDS TaskQueue, Filters, Numbers, SequenceTheorems, TLAPS

-----------------------------------------------------------------------------
(* The task queue.                                                         *)

\* Where each thread may be, in each build.
Places ==
    /\ pc[Main] # "idle"
    /\ \A w \in Worker : pc[w] \in PostSite \cup {"idle"}
    /\ \A th \in Thread : pc[th] \in PostSite => arg[th] \in Task
    /\ ~build.lock => /\ \A w \in Worker : pc[w] = "idle"
                      /\ pc[Main] \notin {"flag", "check", "take", "clear"}

\* The threads that hold the mutex: those at the queue, and the loop's thread
\* when a task has called post.
Owns(th) == th \in AtQueue \/ (th = Main /\ pc[th] = "lock" /\ from = "drain")

Owners ==
    IF build.lock
    THEN /\ \A th \in Thread : mutex = th <=> Owns(th)
         /\ pc[Main] \in {"flag", "push", "unlock"} => from = "events"
    ELSE mutex = NoThread

\* The flag is set while tasks are in the queue and nobody runs them.
Flags ==
    build.lock =>
        /\ taskQueue # <<>> => hasTasks \/ Stuck \/ pc[Main] \in {"drain", "pop", "run", "down"}
        /\ \A th \in Thread : pc[th] \in {"push", "unlock"} => hasTasks

\* What the loop has in hand.
InHand ==
    /\ pc[Main] = "pop" => taskQueue # <<>> /\ task = Head(taskQueue)
    /\ pc[Main] = "run" => task \in Task

\* Without locks nothing is in the queue before the loop waits.
Emptied == ~build.lock /\ pc[Main] \in {"poll", "left"} => taskQueue = <<>>

TaskInv == TaskTypeOK /\ Places /\ Owners /\ Flags /\ InHand /\ Emptied

LEMMA TaskInitInv == TaskInit => TaskInv
<1> SUFFICES ASSUME TaskInit PROVE TaskInv
  OBVIOUS
<1> USE ThreadsAssumption DEF TaskInit, Thread
<1>1. /\ pc[Main] = "poll" /\ \A w \in Worker : pc[w] = "idle"
      /\ \A th \in Thread : pc[th] \in {"poll", "idle"}
  OBVIOUS
<1>2. TaskTypeOK
  <2>1. pc \in [Thread -> Site] /\ arg \in [Thread -> Task \cup {NoTask}]
    BY DEF Site
  <2>2. taskQueue \in Seq(Task) /\ latest \in Seq(Task)
    OBVIOUS
  <2>3. QED
    BY <2>1, <2>2 DEF TaskTypeOK
<1>3. Places
  BY <1>1 DEF Places, PostSite
<1>4. Owners
  BY <1>1 DEF Owners, Owns, AtQueue, NoThread
<1>5. Flags /\ InHand /\ Emptied
  BY <1>1 DEF Flags, InHand, Emptied
<1>6. QED
  BY <1>2, <1>3, <1>4, <1>5 DEF TaskInv

\* The steps of post keep the invariant.
LEMMA PostInv ==
    ASSUME TaskInv, NEW th \in Thread, PostStep(th)
    PROVE  TaskInv'
<1> USE ThreadsAssumption, TasksAssumption
        DEF TaskInv, TaskTypeOK, Places, Owners, Owns, AtQueue, Flags, InHand, Emptied,
            Build, Site, PostSite, Thread, NoThread, Stuck, GoTo
<1>1. CASE PostLock(th)
  BY <1>1, SMTT(60) DEF PostLock
<1>2. CASE PostFlag(th)
  BY <1>2, SMTT(60) DEF PostFlag
<1>3. CASE PostPush(th)
  BY <1>3, SMTT(60) DEF PostPush
<1>4. CASE PostUnlock(th)
  BY <1>4, SMTT(60) DEF PostUnlock
<1>5. QED
  BY <1>1, <1>2, <1>3, <1>4 DEF PostStep

\* So do the steps of the loop.
LEMMA LoopInv ==
    ASSUME TaskInv, LoopStep \/ PollInterrupted \/ RunThrows \/ Quit
    PROVE  TaskInv'
<1> USE ThreadsAssumption, TasksAssumption
        DEF TaskInv, TaskTypeOK, Places, Owners, Owns, AtQueue, Flags, InHand, Emptied,
            Build, Site, PostSite, Thread, NoThread, Stuck, GoTo
<1>1. CASE Poll
  BY <1>1, SMTT(60) DEF Poll
<1>2. CASE EventsDone
  BY <1>2, SMTT(60) DEF EventsDone
<1>3. CASE CheckFlag
  BY <1>3, SMTT(60) DEF CheckFlag
<1>4. CASE TakeLock
  BY <1>4, SMTT(60) DEF TakeLock
<1>5. CASE ClearFlag
  <2>1. mutex = Main /\ \A th \in Thread : pc[th] \in {"push", "unlock"} => th = Main
    BY <1>5 DEF ClearFlag
  <2>2. \A th \in Thread : pc'[th] \notin {"push", "unlock"}
    BY <1>5, <2>1 DEF ClearFlag
  <2>3. \A th \in Thread : Owns(th)' <=> Owns(th)
    BY <1>5 DEF ClearFlag
  <2>4. TaskTypeOK' /\ Places' /\ InHand' /\ Emptied'
    BY <1>5 DEF ClearFlag
  <2>5. Owners'
    BY <1>5, <2>3 DEF ClearFlag
  <2>6. Flags'
    BY <1>5, <2>2 DEF ClearFlag
  <2>7. QED
    BY <2>4, <2>5, <2>6
<1>6. CASE TakeFront
  BY <1>6, SMTT(60) DEF TakeFront
<1>7. CASE Pop
  BY <1>7, SMTT(60) DEF Pop
<1>8. CASE RunPosting
  BY <1>8, SMTT(60) DEF RunPosting
<1>9. CASE RunTask
  BY <1>9, SMTT(60) DEF RunTask
<1>10. CASE Drained
  BY <1>10, SMTT(60) DEF Drained
<1>11. CASE PollInterrupted
  BY <1>11, SMTT(60) DEF PollInterrupted
<1>12. CASE RunThrows
  BY <1>12, SMTT(60) DEF RunThrows
<1>13. CASE Quit
  BY <1>13, SMTT(60) DEF Quit
<1>14. QED
  BY <1>1, <1>2, <1>3, <1>4, <1>5, <1>6, <1>7, <1>8, <1>9, <1>10, <1>11, <1>12, <1>13 DEF LoopStep

\* So do the calls of post.
LEMMA CallInv ==
    ASSUME TaskInv, NEW t \in Task,
           EventPosts(t) \/ \E w \in Worker : WorkerPosts(w, t)
    PROVE  TaskInv'
<1> USE ThreadsAssumption, TasksAssumption
        DEF TaskInv, TaskTypeOK, Places, Owners, Owns, AtQueue, Flags, InHand, Emptied,
            Build, Site, PostSite, Thread, NoThread, Stuck, GoTo, CallPost
<1>1. CASE EventPosts(t)
  BY <1>1, SMTT(60) DEF EventPosts
<1>2. ASSUME NEW w \in Worker, WorkerPosts(w, t)
      PROVE  TaskInv'
  BY <1>2, SMTT(60) DEF WorkerPosts
<1>3. QED
  BY <1>1, <1>2

LEMMA TaskStepInv ==
    ASSUME TaskInv, [TaskNext]_taskVars
    PROVE  TaskInv'
<1>1. CASE UNCHANGED taskVars
  BY <1>1 DEF TaskInv, TaskTypeOK, Places, Owners, Owns, AtQueue, Flags, InHand, Emptied,
              Stuck, taskVars
<1>2. CASE TaskNext
  BY <1>2, PostInv, LoopInv, CallInv DEF TaskNext
<1>3. QED
  BY <1>1, <1>2

\* The inductive invariant.
THEOREM TaskQueueInvariant == TaskSpec => []TaskInv
<1>1. TaskInit => TaskInv
  BY TaskInitInv
<1>2. TaskInv /\ [TaskNext]_taskVars => TaskInv'
  BY TaskStepInv
<1>3. QED
  BY <1>1, <1>2, PTL DEF TaskSpec

\* The variables keep their types.
THEOREM TaskQueueTypes == TaskSpec => []TaskTypeOK
<1>1. TaskInv => TaskTypeOK
  BY DEF TaskInv
<1>2. QED
  BY <1>1, TaskQueueInvariant, PTL

\* One thread at a time is at the queue, Server.cpp lines 296-307 and 337-346.
THEOREM TaskQueueExclusive == TaskSpec => []QueueExclusive
<1>1. TaskInv => QueueExclusive
  BY ThreadsAssumption, SMTT(60)
  DEF TaskInv, TaskTypeOK, QueueExclusive, Owners, Owns, Places, AtQueue, Thread, NoThread, PostSite
<1>2. QED
  BY <1>1, TaskQueueInvariant, PTL

\* A task in the queue has set the flag the loop will look at.
THEOREM TaskQueueWakesUp == TaskSpec => []NoLostWakeup
<1>1. TaskInv => NoLostWakeup
  BY DEF TaskInv, NoLostWakeup, Flags, Stuck
<1>2. QED
  BY <1>1, TaskQueueInvariant, PTL

\* A loop without locks that is told to quit has run the tasks it was given.
THEOREM TaskQueueQuits == TaskSpec => []QuitRunsTasks
<1>1. TaskInv => QuitRunsTasks
  BY DEF TaskInv, QuitRunsTasks, Emptied
<1>2. QED
  BY <1>1, TaskQueueInvariant, PTL

\* Threads that post, the loop that drains the queue and the signal that ends it keep
\* the queue to one thread, lose no wake-up and leave no task behind.
THEOREM TaskQueueSafe == TaskSpec => []QueueInv
<1>1. TaskTypeOK /\ QueueExclusive /\ NoLostWakeup /\ QuitRunsTasks => QueueInv
  BY DEF QueueInv
<1>2. QED
  BY <1>1, TaskQueueTypes, TaskQueueExclusive, TaskQueueWakesUp, TaskQueueQuits, PTL

LEMMA PromiseInit == TaskInit => Promise!Init
  BY ThreadsAssumption DEF TaskInit, Promise!Init, Due, Thread

\* A step of the queue posts a task, runs the oldest one or does neither.
LEMMA PromiseStep ==
    ASSUME TaskInv, [TaskNext]_taskVars
    PROVE  [Promise!Next]_<<Due, latest>>
<1> USE DEF TaskInv, TaskTypeOK, Due
<1>1. CASE UNCHANGED taskVars
  BY <1>1 DEF taskVars
<1>2. ASSUME NEW th \in Thread, PostStep(th)
      PROVE  [Promise!Next]_<<Due, latest>>
  <2>1. CASE PostPush(th)
    <3>1. pc[Main] # "run" /\ pc'[Main] # "run"
      BY <2>1, ThreadsAssumption DEF PostPush, GoTo, Places, Owners, Owns, AtQueue, Thread, NoThread
    <3>2. arg[th] \in Task
      BY <2>1 DEF PostPush, Places, PostSite
    <3>3. Promise!Post(arg[th])
      BY <2>1, <3>1 DEF PostPush, Promise!Post
    <3>4. QED
      BY <3>2, <3>3 DEF Promise!Next
  <2>2. CASE PostLock(th) \/ PostFlag(th) \/ PostUnlock(th)
    <3>1. pc[Main] = "run" <=> pc'[Main] = "run"
      BY <2>2 DEF PostLock, PostFlag, PostUnlock, GoTo, Thread
    <3>2. QED
      BY <2>2, <3>1 DEF PostLock, PostFlag, PostUnlock
  <2>3. QED
    BY <1>2, <2>1, <2>2 DEF PostStep
<1>3. CASE Pop
  BY <1>3 DEF Pop, GoTo, InHand, Thread
<1>4. CASE RunPosting \/ RunTask \/ RunThrows
  <2>1. Due = <<task>> \o taskQueue /\ Due' = taskQueue /\ latest' = <<task>> /\ task \in Task
    BY <1>4 DEF RunPosting, RunTask, RunThrows, GoTo, InHand, Thread
  <2>2. Due # <<>> /\ Head(Due) = task /\ Tail(Due) = taskQueue
    BY <2>1
  <2>3. QED
    BY <2>1, <2>2 DEF Promise!Next, Promise!Run
<1>5. CASE \/ Poll \/ EventsDone \/ CheckFlag \/ TakeLock \/ ClearFlag \/ TakeFront
           \/ Drained \/ PollInterrupted \/ Quit
  <2>1. (pc[Main] # "run" /\ pc'[Main] # "run") \/ pc' = pc
    BY <1>5 DEF Poll, EventsDone, CheckFlag, TakeLock, ClearFlag, TakeFront, Drained,
                PollInterrupted, Quit, GoTo, Thread
  <2>2. UNCHANGED <<taskQueue, latest>> /\ (pc' = pc => UNCHANGED task)
    BY <1>5 DEF Poll, EventsDone, CheckFlag, TakeLock, ClearFlag, TakeFront, Drained,
                PollInterrupted, Quit, GoTo, Thread
  <2>3. QED
    BY <2>1, <2>2
<1>6. ASSUME NEW t \in Task, EventPosts(t) \/ \E w \in Worker : WorkerPosts(w, t)
      PROVE  [Promise!Next]_<<Due, latest>>
  <2>1. pc[Main] = "run" <=> pc'[Main] = "run"
    BY <1>6, ThreadsAssumption DEF EventPosts, WorkerPosts, CallPost, GoTo, Thread
  <2>2. QED
    BY <1>6, <2>1 DEF EventPosts, WorkerPosts, CallPost
<1>7. QED
  BY <1>1, <1>2, <1>3, <1>4, <1>5, <1>6 DEF TaskNext, LoopStep

\* The queue implements what post promises: every task once, in order.
THEOREM TaskQueueKeepsPromise == TaskSpec => RunsInOrderOfPosts
<1>1. TaskInv /\ [TaskNext]_taskVars => [Promise!Next]_<<Due, latest>>
  BY PromiseStep
<1>2. QED
  BY PromiseInit, <1>1, TaskQueueInvariant, PTL DEF TaskSpec, RunsInOrderOfPosts, Promise!Spec

-----------------------------------------------------------------------------
(* The filters.                                                            *)

\* No filter is in front of one that it depends on;
Ordered(list) ==
    \A i, j \in DOMAIN list : FilterName[list[j]] \in Deps[list[i]] => j < i

\* and the dependencies that have dependencies of their own stay.
Supported(list) ==
    \A i \in DOMAIN list : \A g \in Filter :
        Deps[g] # {} /\ FilterName[g] \in Deps[list[i]] => InList(list, g)

Good == {list \in Seq(Filter) : IsInjective(list) /\ Ordered(list) /\ Supported(list)}

-----------------------------------------------------------------------------
(* One filter.                                                             *)

LEMMA WithFilterIs ==
    ASSUME NEW list \in Seq(Filter), NEW f \in Filter
    PROVE  /\ WithFilter(list, f) \in Seq(Filter)
           /\ \A g \in Filter : InList(WithFilter(list, f), g) <=> InList(list, g) \/ g = f
           /\ Deps[f] = {} => /\ Len(WithFilter(list, f)) = Len(list) + 1
                              /\ WithFilter(list, f)[1] = f
                              /\ \A i \in 1 .. Len(list) : WithFilter(list, f)[i + 1] = list[i]
           /\ Deps[f] # {} => /\ Len(WithFilter(list, f)) = Len(list) + 1
                              /\ WithFilter(list, f)[Len(list) + 1] = f
                              /\ \A i \in 1 .. Len(list) : WithFilter(list, f)[i] = list[i]
<1>1. CASE Deps[f] = {}
  <2> DEFINE w == <<f>> \o list
  <2>1. WithFilter(list, f) = w
    BY <1>1 DEF WithFilter
  <2>2. /\ w \in Seq(Filter) /\ Len(w) = Len(list) + 1 /\ w[1] = f
        /\ \A i \in 1 .. Len(list) : w[i + 1] = list[i]
    OBVIOUS
  <2> HIDE DEF w
  <2>3. \A i \in 2 .. Len(w) : i - 1 \in 1 .. Len(list) /\ w[i] = list[i - 1]
    <3> TAKE i \in 2 .. Len(w)
    <3>1. i - 1 \in 1 .. Len(list) /\ (i - 1) + 1 = i
      BY <2>2
    <3> QED
      BY <3>1, <2>2
  <2>4. ASSUME NEW g \in Filter
        PROVE  InList(w, g) <=> InList(list, g) \/ g = f
    <3>1. ASSUME InList(w, g), g # f PROVE InList(list, g)
      <4>1. PICK i \in 1 .. Len(w) : w[i] = g
        BY <3>1, <2>2 DEF InList
      <4>2. i \in 2 .. Len(w)
        BY <4>1, <3>1, <2>2
      <4> QED
        BY <4>1, <4>2, <2>3 DEF InList
    <3>2. ASSUME InList(list, g) PROVE InList(w, g)
      <4>1. PICK i \in 1 .. Len(list) : list[i] = g
        BY <3>2 DEF InList
      <4>2. i + 1 \in 1 .. Len(w) /\ w[i + 1] = g
        BY <4>1, <2>2
      <4> QED
        BY <4>2, <2>2 DEF InList
    <3>3. InList(w, f)
      <4>1. 1 \in DOMAIN w
        BY <2>2
      <4> QED
        BY <4>1, <2>2 DEF InList
    <3> QED
      BY <3>1, <3>2, <3>3
  <2> QED
    BY <1>1, <2>1, <2>2, <2>4
<1>2. CASE Deps[f] # {}
  <2> DEFINE w == Append(list, f)
  <2>1. WithFilter(list, f) = w
    BY <1>2 DEF WithFilter
  <2>2. /\ w \in Seq(Filter) /\ Len(w) = Len(list) + 1 /\ w[Len(list) + 1] = f
        /\ \A i \in 1 .. Len(list) : w[i] = list[i]
    OBVIOUS
  <2> HIDE DEF w
  <2>3. ASSUME NEW g \in Filter
        PROVE  InList(w, g) <=> InList(list, g) \/ g = f
    <3>1. DOMAIN w = 1 .. Len(list) + 1 /\ DOMAIN list = 1 .. Len(list) /\ Len(list) \in Nat
      BY <2>2
    <3>2. DOMAIN w = DOMAIN list \cup {Len(list) + 1}
      BY <3>1
    <3> QED
      BY <2>2, <3>1, <3>2 DEF InList
  <2> QED
    BY <1>2, <2>1, <2>2, <2>3
<1> QED
  BY <1>1, <1>2

LEMMA WithFilterLists ==
    ASSUME NEW list \in Seq(Filter), NEW f \in Filter
    PROVE  \A g \in Filter : InList(WithFilter(list, f), g) <=> InList(list, g) \/ g = f
BY WithFilterIs

\* registerOneFilter puts a filter behind what it depends on and in front of what depends on it.
LEMMA WithFilterGood ==
    ASSUME DistinctFilterNames, NEW list \in Good, NEW f \in Filter, ~InList(list, f), CanRegister(list, f)
    PROVE  WithFilter(list, f) \in Good
<1> DEFINE w == WithFilter(list, f)
           N == Len(list)
<1>0. list \in Seq(Filter) /\ IsInjective(list) /\ Ordered(list) /\ Supported(list)
  BY DEF Good
<1>1. /\ w \in Seq(Filter) /\ Len(w) = N + 1 /\ N \in Nat /\ DOMAIN w = 1 .. N + 1 /\ DOMAIN list = 1 .. N
      /\ \A g \in Filter : InList(w, g) <=> InList(list, g) \/ g = f
  <2>1. w \in Seq(Filter) /\ \A g \in Filter : InList(w, g) <=> InList(list, g) \/ g = f
    BY <1>0, WithFilterIs, Zenon
  <2>2. (Deps[f] = {} => Len(w) = Len(list) + 1) /\ (Deps[f] # {} => Len(w) = Len(list) + 1)
    BY <1>0, WithFilterIs, Zenon
  <2> HIDE DEF w
  <2> QED
    BY <1>0, <2>1, <2>2
<1>2. \A i \in 1 .. N : list[i] \in Filter /\ list[i] # f /\ InList(list, list[i])
  BY <1>0, <1>1 DEF InList
<1>3. CASE Deps[f] = {}
  <2>1. w[1] = f /\ \A i \in 1 .. N : w[i + 1] = list[i]
    BY <1>0, <1>3, WithFilterIs
  <2> HIDE DEF w, N
  <2>2. \A i \in 2 .. N + 1 : i - 1 \in 1 .. N /\ w[i] = list[i - 1]
    <3> TAKE i \in 2 .. N + 1
    <3>1. i - 1 \in 1 .. N /\ (i - 1) + 1 = i
      BY <1>1
    <3> QED
      BY <3>1, <2>1
  <2>3. \A i \in 1 .. N + 1 : i = 1 \/ i \in 2 .. N + 1
    BY <1>1
  <2>4. IsInjective(w)
    <3> SUFFICES ASSUME NEW i \in 1 .. N + 1, NEW j \in 1 .. N + 1, w[i] = w[j] PROVE i = j
      BY <1>1 DEF IsInjective
    <3>1. CASE i = 1 \/ j = 1
      BY <3>1, <1>2, <2>1, <2>2, <2>3
    <3>2. CASE i # 1 /\ j # 1
      <4>1. i - 1 \in 1 .. N /\ j - 1 \in 1 .. N /\ list[i - 1] = list[j - 1]
        BY <3>2, <2>2, <2>3
      <4>2. i - 1 = j - 1
        BY <4>1, <1>0, <1>1 DEF IsInjective
      <4> QED
        BY <4>2, <1>1
    <3> QED
      BY <3>1, <3>2
  <2>5. Ordered(w)
    <3> SUFFICES ASSUME NEW i \in 1 .. N + 1, NEW j \in 1 .. N + 1, FilterName[w[j]] \in Deps[w[i]]
                 PROVE  j < i
      BY <1>1 DEF Ordered
    <3>1. i \in 2 .. N + 1
      BY <1>3, <2>1, <2>3
    <3>2. CASE j = 1
      BY <3>1, <3>2
    <3>3. CASE j # 1
      <4>1. j \in 2 .. N + 1
        BY <3>3, <2>3
      <4>2. i - 1 \in 1 .. N /\ j - 1 \in 1 .. N /\ FilterName[list[j - 1]] \in Deps[list[i - 1]]
        BY <3>1, <4>1, <2>2
      <4>3. j - 1 < i - 1
        BY <4>2, <1>0, <1>1 DEF Ordered
      <4> QED
        BY <4>3, <1>1
    <3> QED
      BY <3>2, <3>3
  <2>6. Supported(w)
    <3> SUFFICES ASSUME NEW i \in 1 .. N + 1, NEW g \in Filter, Deps[g] # {}, FilterName[g] \in Deps[w[i]]
                 PROVE  InList(w, g)
      BY <1>1 DEF Supported
    <3>1. i \in 2 .. N + 1
      BY <1>3, <2>1, <2>3
    <3>2. InList(list, g)
      BY <3>1, <2>2, <1>0, <1>1 DEF Supported
    <3> QED
      BY <3>2, <1>1
  <2> QED
    BY <1>1, <2>4, <2>5, <2>6 DEF Good, w
<1>4. CASE Deps[f] # {}
  <2>1. w[N + 1] = f /\ \A i \in 1 .. N : w[i] = list[i]
    BY <1>0, <1>4, WithFilterIs
  <2> HIDE DEF w, N
  <2>2. \A i \in 1 .. N + 1 : i = N + 1 \/ i \in 1 .. N
    BY <1>1
  <2>3. \A g \in Filter : FilterName[g] \in Deps[f] => InList(list, g)
    <3> SUFFICES ASSUME NEW g \in Filter, FilterName[g] \in Deps[f] PROVE InList(list, g)
      OBVIOUS
    <3>1. PICK k \in 1 .. N : FilterName[g] = FilterName[list[k]]
      BY <1>1 DEF CanRegister, NamesIn
    <3>2. g = list[k]
      BY <3>1, <1>2 DEF DistinctFilterNames
    <3> QED
      BY <3>2, <1>2
  <2>4. IsInjective(w)
    <3> SUFFICES ASSUME NEW i \in 1 .. N + 1, NEW j \in 1 .. N + 1, w[i] = w[j] PROVE i = j
      BY <1>1 DEF IsInjective
    <3>1. CASE i \in 1 .. N /\ j \in 1 .. N
      BY <3>1, <2>1, <1>0, <1>1 DEF IsInjective
    <3> QED
      BY <3>1, <2>1, <2>2, <1>2
  <2>5. Ordered(w)
    <3> SUFFICES ASSUME NEW i \in 1 .. N + 1, NEW j \in 1 .. N + 1, FilterName[w[j]] \in Deps[w[i]]
                 PROVE  j < i
      BY <1>1 DEF Ordered
    <3>1. CASE j = N + 1
      <4>1. FilterName[f] \in Deps[w[i]]
        BY <3>1, <2>1
      <4>2. CASE i = N + 1
        BY <4>1, <4>2, <2>1, <2>3
      <4>3. CASE i \in 1 .. N
        <5>1. FilterName[f] \in Deps[list[i]]
          BY <4>1, <4>3, <2>1
        <5> QED
          BY <5>1, <4>3, <1>0, <1>1, <1>4 DEF Supported
      <4> QED
        BY <4>2, <4>3, <2>2
    <3>2. CASE j \in 1 .. N /\ i = N + 1
      BY <3>2, <1>1
    <3>3. CASE j \in 1 .. N /\ i \in 1 .. N
      BY <3>3, <2>1, <1>0, <1>1 DEF Ordered
    <3> QED
      BY <3>1, <3>2, <3>3, <2>2
  <2>6. Supported(w)
    <3> SUFFICES ASSUME NEW i \in 1 .. N + 1, NEW g \in Filter, Deps[g] # {}, FilterName[g] \in Deps[w[i]]
                 PROVE  InList(w, g)
      BY <1>1 DEF Supported
    <3>1. InList(list, g)
      <4>1. CASE i = N + 1
        BY <4>1, <2>1, <2>3
      <4>2. CASE i \in 1 .. N
        BY <4>2, <2>1, <1>0, <1>1 DEF Supported
      <4> QED
        BY <4>1, <4>2, <2>2
    <3> QED
      BY <3>1, <1>1
  <2> QED
    BY <1>1, <2>4, <2>5, <2>6 DEF Good, w
<1> QED
  BY <1>3, <1>4
\* unregisterOneFilter takes a filter without dependencies out of the list, and no other.
LEMMA WithoutIs ==
    ASSUME NEW list \in Seq(Filter), NEW f \in Filter
    PROVE  \/ /\ Deps[f] = {} /\ InList(list, f)
              /\ \E k \in 1 .. Len(list) :
                    /\ list[k] = f
                    /\ Without(list, f) \in Seq(Filter) /\ Len(Without(list, f)) = Len(list) - 1
                    /\ \A i \in 1 .. k - 1 : Without(list, f)[i] = list[i]
                    /\ \A i \in k .. Len(list) - 1 : Without(list, f)[i] = list[i + 1]
           \/ (Deps[f] # {} \/ ~InList(list, f)) /\ Without(list, f) = list
<1>1. CASE Deps[f] = {} /\ InList(list, f)
  <2> DEFINE k == CHOOSE i \in DOMAIN list : list[i] = f /\ \A j \in 1 .. i - 1 : list[j] # f
             w == RemoveAt(list, k)
  <2>1. Without(list, f) = w
    BY <1>1 DEF Without
  <2>2. \E i \in DOMAIN list : list[i] = f /\ \A j \in 1 .. i - 1 : list[j] # f
    <3> DEFINE At == {i \in 1 .. Len(list) : list[i] = f}
    <3>1. At # {} /\ At \subseteq Nat
      BY <1>1 DEF InList
    <3>2. PICK i \in At : \A j \in At : i <= j
      BY <3>1, LeastNat
    <3>3. \A j \in 1 .. i - 1 : j \in 1 .. Len(list) /\ ~(i <= j)
      OBVIOUS
    <3> QED
      BY <3>2, <3>3
  <2>3. k \in 1 .. Len(list) /\ list[k] = f
    BY <2>2
  <2> HIDE DEF k
  <2>4. w = SubSeq(list, 1, k - 1) \o SubSeq(list, k + 1, Len(list))
    BY Zenon DEF RemoveAt
  <2> HIDE DEF w
  <2>5. /\ w \in Seq(Filter) /\ Len(w) = Len(list) - 1
        /\ \A i \in 1 .. k - 1 : w[i] = list[i]
        /\ \A i \in k .. Len(list) - 1 : w[i] = list[i + 1]
    <3> DEFINE a == SubSeq(list, 1, k - 1)
               b == SubSeq(list, k + 1, Len(list))
    <3>1. a \in Seq(Filter) /\ Len(a) = k - 1 /\ \A i \in 1 .. k - 1 : a[i] = list[i]
      BY <2>3
    <3>2. b \in Seq(Filter) /\ Len(b) = Len(list) - k /\ \A i \in 1 .. Len(list) - k : b[i] = list[k + i]
      BY <2>3
    <3> HIDE DEF a, b
    <3>3. w = a \o b
      BY <2>4 DEF a, b
    <3>4. /\ w \in Seq(Filter) /\ Len(w) = (k - 1) + (Len(list) - k)
          /\ \A i \in 1 .. k - 1 : w[i] = a[i]
          /\ \A i \in 1 .. Len(list) - k : w[k - 1 + i] = b[i]
      <4>1. /\ a \o b \in Seq(Filter) /\ Len(a \o b) = Len(a) + Len(b)
            /\ \A i \in 1 .. Len(a) + Len(b) : (a \o b)[i] = IF i <= Len(a) THEN a[i] ELSE b[i - Len(a)]
        BY <3>1, <3>2, ConcatProperties, Zenon
      <4>2. Len(list) \in Nat /\ k \in 1 .. Len(list)
        BY <2>3
      <4>3. ASSUME NEW i \in 1 .. k - 1 PROVE w[i] = a[i]
        <5>1. i \in 1 .. Len(a) + Len(b) /\ i <= Len(a)
          BY <3>1, <3>2, <4>2
        <5> QED
          BY <5>1, <4>1, <3>3
      <4>4. ASSUME NEW i \in 1 .. Len(list) - k PROVE w[k - 1 + i] = b[i]
        <5>1. k - 1 + i \in 1 .. Len(a) + Len(b) /\ ~(k - 1 + i <= Len(a)) /\ (k - 1 + i) - Len(a) = i
          BY <3>1, <3>2, <4>2
        <5> QED
          BY <5>1, <4>1, <3>3
      <4> QED
        BY <4>1, <4>3, <4>4, <3>1, <3>2, <3>3
    <3>5. ASSUME NEW i \in k .. Len(list) - 1 PROVE w[i] = list[i + 1]
      <4>1. i - k + 1 \in 1 .. Len(list) - k /\ k - 1 + (i - k + 1) = i /\ k + (i - k + 1) = i + 1
        BY <2>3
      <4> QED
        BY <4>1, <3>2, <3>4
    <3> QED
      BY <3>1, <3>4, <3>5, <2>3
  <2> QED
    BY <1>1, <2>1, <2>3, <2>5
<1>2. CASE ~(Deps[f] = {} /\ InList(list, f))
  BY <1>2 DEF Without
<1> QED
  BY <1>1, <1>2

LEMMA WithoutKeeps ==
    ASSUME NEW list \in Seq(Filter), NEW f \in Filter
    PROVE  /\ Without(list, f) \in Seq(Filter)
           /\ \A g \in Filter : InList(Without(list, f), g) => InList(list, g)
           /\ \A g \in Filter : InList(list, g) /\ (g # f \/ Deps[f] # {}) => InList(Without(list, f), g)
<1>1. CASE (Deps[f] # {} \/ ~InList(list, f)) /\ Without(list, f) = list
  BY <1>1
<1>2. CASE Without(list, f) # list
  <2> DEFINE w == Without(list, f)
             N == Len(list)
  <2>1. PICK k \in 1 .. N : /\ list[k] = f /\ Deps[f] = {}
                            /\ w \in Seq(Filter) /\ Len(w) = N - 1
                            /\ \A i \in 1 .. k - 1 : w[i] = list[i]
                            /\ \A i \in k .. N - 1 : w[i] = list[i + 1]
    BY <1>2, WithoutIs, Zenon
  <2> HIDE DEF w
  <2>2. N \in Nat /\ DOMAIN list = 1 .. N /\ DOMAIN w = 1 .. N - 1
    BY <2>1
  <2> HIDE DEF N
  <2>3. ASSUME NEW g \in Filter, InList(w, g) PROVE InList(list, g)
    <3>1. PICK i \in 1 .. N - 1 : w[i] = g
      BY <2>2, <2>3 DEF InList
    <3>2. i \in 1 .. k - 1 \/ i \in k .. N - 1
      BY <2>1, <2>2
    <3>3. i \in 1 .. N /\ i + 1 \in 1 .. N
      BY <2>2
    <3>4. list[i] = g \/ list[i + 1] = g
      BY <2>1, <2>2, <3>1, <3>2
    <3> QED
      BY <2>2, <3>3, <3>4 DEF InList
  <2>4. ASSUME NEW g \in Filter, InList(list, g), g # f PROVE InList(w, g)
    <3>1. PICK i \in 1 .. N : list[i] = g
      BY <2>2, <2>4 DEF InList
    <3>2. i # k
      BY <2>1, <2>4, <3>1
    <3>3. CASE i < k
      <4>1. i \in 1 .. k - 1 /\ i \in 1 .. N - 1
        BY <2>1, <2>2, <3>3
      <4> QED
        BY <2>1, <2>2, <3>1, <4>1 DEF InList
    <3>4. CASE i > k
      <4>1. i - 1 \in k .. N - 1 /\ i - 1 \in 1 .. N - 1 /\ (i - 1) + 1 = i
        BY <2>1, <2>2, <3>4
      <4>2. w[i - 1] = g
        BY <2>1, <2>2, <3>1, <4>1
      <4> QED
        BY <2>2, <4>1, <4>2 DEF InList
    <3>5. i < k \/ i > k
      <4>1. i \in Nat /\ k \in Nat
        BY <2>1, <2>2
      <4> QED
        BY <4>1, <3>2
    <3> QED
      BY <3>3, <3>4, <3>5
  <2> QED
    BY <2>1, <2>3, <2>4 DEF w
<1> QED
  BY <1>1, <1>2, WithoutIs, Zenon

LEMMA WithoutGood ==
    ASSUME NEW list \in Good, NEW f \in Filter
    PROVE  /\ Without(list, f) \in Good
           /\ Deps[f] = {} => ~InList(Without(list, f), f)
<1> DEFINE w == Without(list, f)
           N == Len(list)
<1>0. list \in Seq(Filter) /\ IsInjective(list) /\ Ordered(list) /\ Supported(list)
  BY DEF Good
<1>1. CASE (Deps[f] # {} \/ ~InList(list, f)) /\ w = list
  BY <1>1
<1>2. CASE ~((Deps[f] # {} \/ ~InList(list, f)) /\ w = list)
  <2>1. PICK k \in 1 .. N : /\ list[k] = f /\ Deps[f] = {}
                            /\ w \in Seq(Filter) /\ Len(w) = N - 1
                            /\ \A i \in 1 .. k - 1 : w[i] = list[i]
                            /\ \A i \in k .. N - 1 : w[i] = list[i + 1]
    BY <1>0, <1>2, WithoutIs, Zenon
  <2>k. \A g \in Filter : InList(list, g) /\ g # f => InList(w, g)
    BY <1>0, WithoutKeeps, Zenon
  <2> HIDE DEF w
  <2>2. N \in Nat /\ DOMAIN list = 1 .. N /\ DOMAIN w = 1 .. N - 1
    BY <1>0, <2>1
  <2> HIDE DEF N
  <2>r. k \in Nat
    BY <2>1, <2>2
  <2> DEFINE old(i) == IF i < k THEN i ELSE i + 1
  <2>3. ASSUME NEW i \in 1 .. N - 1
        PROVE  old(i) \in 1 .. N /\ old(i) # k /\ w[i] = list[old(i)]
    <3>1. CASE i < k
      <4>1. i \in 1 .. k - 1 /\ i \in 1 .. N
        BY <2>1, <2>2, <3>1
      <4> QED
        BY <2>1, <3>1, <4>1
    <3>2. CASE ~(i < k)
      <4>1. i \in k .. N - 1 /\ i + 1 \in 1 .. N /\ i + 1 # k
        BY <2>1, <2>2, <2>r, <3>2
      <4>2. w[i] = list[i + 1]
        BY <2>1, <2>2, <4>1
      <4>3. old(i) = i + 1
        BY <3>2
      <4> HIDE DEF old
      <4> QED
        BY <4>1, <4>2, <4>3
    <3> QED
      BY <3>1, <3>2
  <2>4. \A i, j \in 1 .. N - 1 : (old(i) = old(j) => i = j)
                                 /\ (old(j) < old(i) => j < i)
    BY <2>2, <2>r
  <2> HIDE DEF old
  <2>5. IsInjective(w)
    <3> SUFFICES ASSUME NEW i \in 1 .. N - 1, NEW j \in 1 .. N - 1, w[i] = w[j] PROVE i = j
      BY <2>2 DEF IsInjective
    <3>1. old(i) \in 1 .. N /\ old(j) \in 1 .. N /\ list[old(i)] = list[old(j)]
      BY <2>3
    <3>2. old(i) = old(j)
      BY <3>1, <2>2, <1>0 DEF IsInjective
    <3> QED
      BY <2>2, <3>2, <2>4
  <2>6. Ordered(w)
    <3> SUFFICES ASSUME NEW i \in 1 .. N - 1, NEW j \in 1 .. N - 1, FilterName[w[j]] \in Deps[w[i]]
                 PROVE  j < i
      BY <2>2 DEF Ordered
    <3>1. old(i) \in 1 .. N /\ old(j) \in 1 .. N /\ FilterName[list[old(j)]] \in Deps[list[old(i)]]
      BY <2>3
    <3>2. old(j) < old(i)
      BY <3>1, <2>2, <1>0 DEF Ordered
    <3> QED
      BY <2>2, <3>2, <2>4
  <2>7. Supported(w)
    <3> SUFFICES ASSUME NEW i \in 1 .. N - 1, NEW g \in Filter, Deps[g] # {}, FilterName[g] \in Deps[w[i]]
                 PROVE  InList(w, g)
      BY <2>2 DEF Supported
    <3>1. InList(list, g)
      BY <2>2, <2>3, <1>0 DEF Supported
    <3>2. g # f
      BY <2>1
    <3> QED
      BY <3>1, <3>2, <2>k
  <2>8. ~InList(w, f)
    <3> SUFFICES ASSUME NEW i \in 1 .. N - 1, w[i] = f PROVE FALSE
      BY <2>2 DEF InList
    <3>1. old(i) \in 1 .. N /\ old(i) # k /\ list[old(i)] = list[k]
      BY <2>1, <2>3
    <3> QED
      BY <3>1, <2>2, <1>0 DEF IsInjective
  <2> QED
    BY <2>1, <2>5, <2>6, <2>7, <2>8 DEF Good, w
<1> QED
  BY <1>1, <1>2

-----------------------------------------------------------------------------
(* A pass, and the passes over what is left.                               *)

State == [out : Seq(Filter), left : Seq(Filter)]

LEMMA TriedIs ==
    ASSUME NEW st \in State, NEW f \in Filter
    PROVE  /\ Tried(st, f) \in State
           /\ CanRegister(st.out, f) => /\ Tried(st, f).out = WithFilter(st.out, f)
                                     /\ Tried(st, f).left = st.left
           /\ ~CanRegister(st.out, f) => Tried(st, f).out = st.out /\ Tried(st, f).left = Append(st.left, f)
<1>1. WithFilter(st.out, f) \in Seq(Filter)
  <2>1. st.out \in Seq(Filter)
    BY DEF State
  <2> QED
    BY <2>1, WithFilterIs, Zenon
<1>2. CASE CanRegister(st.out, f)
  BY <1>1, <1>2 DEF Tried, State
<1>3. CASE ~CanRegister(st.out, f)
  BY <1>3 DEF Tried, State
<1> QED
  BY <1>2, <1>3

LEMMA PassIs ==
    ASSUME NEW st \in State
    PROVE  \E p :
             /\ p[0] = [out |-> st.out, left |-> <<>>]
             /\ \A i \in 1 .. Len(st.left) : p[i] = Tried(p[i - 1], st.left[i])
             /\ RegisterPass(st) = p[Len(st.left)]
<1> DEFINE N == Len(st.left)
           d == [out |-> st.out, left |-> <<>>]
           G == [x \in (1 .. N) \X State |-> Tried(x[2], st.left[x[1]])]
           Body(p) == [i \in 0 .. N |-> IF i = 0 THEN d ELSE Tried(p[i - 1], st.left[i])]
           pass == CHOOSE p : p = Body(p)
<1>1. N \in Nat /\ d \in State /\ \A i \in 1 .. N : st.left[i] \in Filter
  BY DEF State
<1>2. RegisterPass(st) = pass[N]
  BY DEF RegisterPass
<1> HIDE DEF N, d
<1>3. ASSUME NEW i \in 1 .. N, NEW x \in State
      PROVE  G[<<i, x>>] = Tried(x, st.left[i]) 
  OBVIOUS
<1>4. G \in [(1 .. N) \X State -> State]
  <2> SUFFICES ASSUME NEW x \in (1 .. N) \X State PROVE Tried(x[2], st.left[x[1]]) \in State
    BY Zenon
  <2>1. x[1] \in 1 .. N /\ x[2] \in State
    OBVIOUS
  <2> QED
    BY <2>1, <1>1, TriedIs, Zenon
<1> HIDE DEF G
<1>5. PICK h \in [0 .. N -> State] : h[0] = d /\ \A i \in 1 .. N : h[i] = G[<<i, h[i - 1]>>]
  <2>1. Recursive(State, d, N, G)
    BY <1>1, <1>4, Recursion, Zenon
  <2> QED
    BY <2>1, Zenon DEF Recursive
<1>6. ASSUME NEW i \in 1 .. N
      PROVE  h[i] = Tried(h[i - 1], st.left[i])
  <2>1. h[i - 1] \in State
    BY <1>1
  <2> QED
    BY <2>1, <1>3, <1>5
<1>7. h = Body(h)
  <2>1. ASSUME NEW i \in 0 .. N PROVE h[i] = IF i = 0 THEN d ELSE Tried(h[i - 1], st.left[i])
    <3>1. i = 0 \/ i \in 1 .. N
      BY <1>1
    <3> QED
      BY <3>1, <1>5, <1>6
  <2> QED
    BY <2>1
<1>8. pass = Body(pass)
  BY <1>7
<1>9. \A i \in 0 .. N : pass[i] = IF i = 0 THEN d ELSE Tried(pass[i - 1], st.left[i])
  BY <1>8
<1> HIDE DEF pass
<1>10. pass[0] = d /\ \A i \in 1 .. N : pass[i] = Tried(pass[i - 1], st.left[i])
  BY <1>1, <1>9
<1> QED
  BY <1>2, <1>10, Zenon DEF N, d

\* No filter that is left can be registered.
NoneFits(st) == \A k \in 1 .. Len(st.left) : ~CanRegister(st.out, st.left[k])

\* A pass leaves no more filters than it is given; when it leaves all of them it changes nothing.
LEMMA PassProgress ==
    ASSUME NEW st \in State
    PROVE  /\ RegisterPass(st) \in State
           /\ Len(RegisterPass(st).left) <= Len(st.left)
           /\ Len(RegisterPass(st).left) = Len(st.left) => RegisterPass(st) = st /\ NoneFits(st)
           /\ NoneFits(st) => RegisterPass(st) = st
<1> DEFINE N == Len(st.left)
           Same(q, i) == /\ q.out = st.out
                         /\ \A k \in 1 .. i : q.left[k] = st.left[k] /\ ~CanRegister(st.out, st.left[k])
           Inv(q, i) == /\ q \in State /\ Len(q.left) <= i
                        /\ Len(q.left) = i => Same(q, i)
                        /\ NoneFits(st) => Len(q.left) = i
<1>1. /\ N \in Nat /\ st.out \in Seq(Filter) /\ st.left \in Seq(Filter)
      /\ \A i \in 1 .. N : st.left[i] \in Filter
  BY DEF State
<1>2. PICK p : /\ p[0] = [out |-> st.out, left |-> <<>>]
               /\ \A i \in 1 .. N : p[i] = Tried(p[i - 1], st.left[i])
               /\ RegisterPass(st) = p[N]
  BY PassIs
<1>3. Inv(p[0], 0)
  BY <1>1, <1>2 DEF State
<1> HIDE DEF N
<1>4. ASSUME NEW i \in 1 .. N, NEW q, Inv(q, i - 1)
      PROVE  Inv(Tried(q, st.left[i]), i)
  <2> DEFINE f == st.left[i]
             r == Tried(q, f)
  <2>1. /\ f \in Filter /\ r \in State /\ q \in State
        /\ CanRegister(q.out, f) => r.left = q.left
        /\ ~CanRegister(q.out, f) => r.out = q.out /\ r.left = Append(q.left, f)
    BY <1>1, <1>4, TriedIs, Zenon
  <2> HIDE DEF f, r
  <2>2. q.left \in Seq(Filter) /\ i \in Nat /\ Len(q.left) \in Nat
    BY <2>1, <1>1 DEF State
  <2>3. CASE CanRegister(q.out, f)
    <3>1. Len(r.left) <= i - 1
      BY <2>1, <2>3, <1>4
    <3>2. ~NoneFits(st)
      <4> SUFFICES ASSUME NoneFits(st) PROVE FALSE
        OBVIOUS
      <4>1. q.out = st.out
        BY <1>4
      <4> QED
        BY <4>1, <2>3 DEF NoneFits, N, f
    <3> QED
      BY <2>1, <2>2, <3>1, <3>2 DEF r, f
  <2>4. CASE ~CanRegister(q.out, f)
    <3>1. /\ r.out = q.out /\ Len(r.left) = Len(q.left) + 1
          /\ r.left[Len(q.left) + 1] = f /\ \A k \in 1 .. Len(q.left) : r.left[k] = q.left[k]
      BY <2>1, <2>2, <2>4
    <3>2. ASSUME Len(r.left) = i PROVE Same(r, i)
      <4>1. Len(q.left) = i - 1 /\ Same(q, i - 1)
        BY <3>1, <3>2, <2>2, <1>4
      <4>2. ASSUME NEW k \in 1 .. i PROVE r.left[k] = st.left[k] /\ ~CanRegister(st.out, st.left[k])
        <5>1. CASE k = i
          BY <5>1, <4>1, <3>1, <2>2, <2>4 DEF f
        <5>2. CASE k # i
          <6>1. k \in 1 .. i - 1
            BY <5>2, <2>2
          <6> QED
            BY <6>1, <4>1, <3>1
        <5> QED
          BY <5>1, <5>2
      <4> QED
        BY <4>1, <4>2, <3>1
    <3>3. Len(r.left) <= i /\ (NoneFits(st) => Len(r.left) = i)
      BY <3>1, <2>2, <1>4
    <3> QED
      BY <2>1, <3>2, <3>3 DEF r, f
  <2> QED
    BY <2>3, <2>4
<1> DEFINE S == {i \in 0 .. N : Inv(p[i], i)}
<1>5. N \in S
  <2>1. 0 \in S /\ N \in 0 .. N
    BY <1>1, <1>3
  <2>2. ASSUME NEW i \in 1 .. N, i - 1 \in S PROVE i \in S
    <3>1. i \in 0 .. N /\ p[i] = Tried(p[i - 1], st.left[i]) /\ Inv(p[i - 1], i - 1)
      BY <2>2, <1>1, <1>2
    <3>2. Inv(Tried(p[i - 1], st.left[i]), i)
      BY <3>1, <1>4, Zenon
    <3> HIDE DEF Inv
    <3> QED
      BY <3>1, <3>2
  <2> HIDE DEF S
  <2> QED
    BY <2>1, <2>2, <1>1, NatSteps, Zenon
<1> DEFINE r == RegisterPass(st)
<1>6. Inv(r, N)
  BY <1>2, <1>5
<1> HIDE DEF r
<1>7. ASSUME Len(r.left) = N PROVE r = st /\ NoneFits(st)
  <2>1. r \in State /\ Same(r, N)
    BY <1>6, <1>7
  <2>2. r.left \in Seq(Filter) /\ st \in State
    BY <2>1 DEF State
  <2>3. r.left = st.left
    BY <2>1, <2>2, <1>1, <1>7 DEF N
  <2>4. r = st
    BY <2>1, <2>2, <2>3 DEF State
  <2> QED
    BY <2>1, <2>4 DEF NoneFits, N
<1> QED
  BY <1>6, <1>7 DEF N, r

LEMMA PassesAre ==
    ASSUME NEW list \in Seq(Filter), NEW in \in Seq(Filter)
    PROVE  \E p : /\ p[0] = [out |-> list, left |-> in]
                  /\ \A i \in 1 .. Len(in) : p[i] = RegisterPass(p[i - 1])
                  /\ RegisterAll(list, in) = p[Len(in)]
<1> DEFINE N == Len(in)
           d == [out |-> list, left |-> in]
           G == [x \in (1 .. N) \X State |-> RegisterPass(x[2])]
           Body(p) == [i \in 0 .. N |-> IF i = 0 THEN d ELSE RegisterPass(p[i - 1])]
           all == CHOOSE p : p = Body(p)
<1>1. N \in Nat /\ d \in State
  BY DEF State
<1>2. RegisterAll(list, in) = all[N]
  BY DEF RegisterAll
<1> HIDE DEF N, d
<1>3. ASSUME NEW i \in 1 .. N, NEW x \in State
      PROVE  G[<<i, x>>] = RegisterPass(x)
  OBVIOUS
<1>4. G \in [(1 .. N) \X State -> State]
  <2> SUFFICES ASSUME NEW x \in (1 .. N) \X State PROVE RegisterPass(x[2]) \in State
    BY Zenon
  <2>1. x[1] \in 1 .. N /\ x[2] \in State
    OBVIOUS
  <2> QED
    BY <2>1, PassProgress, Zenon
<1> HIDE DEF G
<1>5. PICK h \in [0 .. N -> State] : h[0] = d /\ \A i \in 1 .. N : h[i] = G[<<i, h[i - 1]>>]
  <2>1. Recursive(State, d, N, G)
    BY <1>1, <1>4, Recursion, Zenon
  <2> QED
    BY <2>1, Zenon DEF Recursive
<1>6. ASSUME NEW i \in 1 .. N
      PROVE  h[i] = RegisterPass(h[i - 1])
  <2>1. h[i - 1] \in State
    BY <1>1
  <2> QED
    BY <2>1, <1>3, <1>5
<1>7. h = Body(h)
  <2>1. ASSUME NEW i \in 0 .. N PROVE h[i] = IF i = 0 THEN d ELSE RegisterPass(h[i - 1])
    <3>1. i = 0 \/ i \in 1 .. N
      BY <1>1
    <3> QED
      BY <3>1, <1>5, <1>6
  <2> QED
    BY <2>1
<1>8. all = Body(all)
  BY <1>7
<1>9. \A i \in 0 .. N : all[i] = IF i = 0 THEN d ELSE RegisterPass(all[i - 1])
  BY <1>8
<1> HIDE DEF all
<1>10. all[0] = d /\ \A i \in 1 .. N : all[i] = RegisterPass(all[i - 1])
  BY <1>1, <1>9
<1> QED
  BY <1>2, <1>10, Zenon DEF N, d

\* registerFilters goes on until no filter that is left can be registered.
LEMMA AllStuck ==
    ASSUME NEW list \in Seq(Filter), NEW in \in Seq(Filter)
    PROVE  RegisterAll(list, in) \in State /\ NoneFits(RegisterAll(list, in))
<1> DEFINE N == Len(in)
           Inv(q, i) == q \in State /\ (NoneFits(q) \/ Len(q.left) <= N - i)
<1>1. N \in Nat
  OBVIOUS
<1>2. PICK p : /\ p[0] = [out |-> list, left |-> in]
               /\ \A i \in 1 .. N : p[i] = RegisterPass(p[i - 1])
               /\ RegisterAll(list, in) = p[N]
  BY PassesAre
<1>3. Inv(p[0], 0)
  BY <1>1, <1>2 DEF State
<1> HIDE DEF N
<1>4. ASSUME NEW i \in 1 .. N, NEW q, Inv(q, i - 1)
      PROVE  Inv(RegisterPass(q), i)
  <2> DEFINE r == RegisterPass(q)
  <2>1. /\ r \in State /\ Len(r.left) <= Len(q.left)
        /\ Len(r.left) = Len(q.left) => r = q /\ NoneFits(q)
        /\ NoneFits(q) => r = q
    BY <1>4, PassProgress, Zenon
  <2> HIDE DEF r
  <2>2. Len(r.left) \in Nat /\ Len(q.left) \in Nat /\ N \in Nat
    BY <2>1, <1>1, <1>4 DEF State
  <2>3. NoneFits(r) \/ Len(r.left) <= N - i
    <3>1. CASE NoneFits(q) \/ Len(r.left) = Len(q.left)
      BY <3>1, <2>1
    <3>2. CASE ~NoneFits(q) /\ Len(r.left) # Len(q.left)
      BY <3>2, <2>1, <2>2, <1>4
    <3> QED
      BY <3>1, <3>2
  <2> QED
    BY <2>1, <2>3 DEF r
<1> DEFINE S == {i \in 0 .. N : Inv(p[i], i)}
<1>5. N \in S
  <2>1. 0 \in S /\ N \in 0 .. N
    BY <1>1, <1>3
  <2>2. ASSUME NEW i \in 1 .. N, i - 1 \in S PROVE i \in S
    <3>1. i \in 0 .. N /\ p[i] = RegisterPass(p[i - 1]) /\ Inv(p[i - 1], i - 1)
      BY <2>2, <1>1, <1>2
    <3>2. Inv(RegisterPass(p[i - 1]), i)
      BY <3>1, <1>4, Zenon
    <3> HIDE DEF Inv
    <3> QED
      BY <3>1, <3>2
  <2> HIDE DEF S
  <2> QED
    BY <2>1, <2>2, <1>1, NatSteps, Zenon
<1>6. Inv(RegisterAll(list, in), N)
  BY <1>2, <1>5
<1>7. ASSUME NEW q, Inv(q, N) PROVE q \in State /\ NoneFits(q)
  <2>1. Len(q.left) \in Nat
    BY <1>7 DEF State
  <2>2. NoneFits(q) \/ Len(q.left) = 0
    BY <2>1, <1>1, <1>7
  <2> QED
    BY <2>2, <1>7 DEF NoneFits
<1> HIDE DEF Inv
<1> QED
  BY <1>6, <1>7

\* What registering the filters of in, none of which is listed, keeps.
Apart(list, in) == \A g \in Filter : InList(in, g) => ~InList(list, g)
Registers(list, in, q) ==
    /\ q \in State /\ q.out \in Good /\ IsInjective(q.left) /\ Apart(q.out, q.left)
    /\ \A g \in Filter : InList(q.left, g) => InList(in, g)
    /\ \A g \in Filter : InList(q.out, g) => InList(list, g) \/ InList(in, g)

LEMMA AppendIs ==
    ASSUME NEW s \in Seq(Filter), NEW f \in Filter
    PROVE  /\ \A g \in Filter : InList(Append(s, f), g) <=> InList(s, g) \/ g = f
           /\ IsInjective(s) /\ ~InList(s, f) => IsInjective(Append(s, f))
<1> DEFINE w == Append(s, f)
           N == Len(s)
<1>1. /\ N \in Nat /\ DOMAIN s = 1 .. N /\ DOMAIN w = 1 .. N + 1 /\ w[N + 1] = f
      /\ \A i \in 1 .. N : w[i] = s[i]
  OBVIOUS
<1> HIDE DEF w, N
<1>2. 1 .. N + 1 = 1 .. N \cup {N + 1}
  BY <1>1
<1>3. \A g \in Filter : InList(w, g) <=> InList(s, g) \/ g = f
  BY <1>1, <1>2 DEF InList
<1>4. ASSUME IsInjective(s), ~InList(s, f) PROVE IsInjective(w)
  <2> SUFFICES ASSUME NEW i \in 1 .. N + 1, NEW j \in 1 .. N + 1, w[i] = w[j] PROVE i = j
    BY <1>1 DEF IsInjective
  <2>1. CASE i \in 1 .. N /\ j \in 1 .. N
    BY <2>1, <1>1, <1>4 DEF IsInjective
  <2>2. \A k \in 1 .. N : w[k] # f
    BY <1>1, <1>4 DEF InList
  <2> QED
    BY <2>1, <2>2, <1>1, <1>2
<1> QED
  BY <1>3, <1>4 DEF w

LEMMA PassGood ==
    ASSUME DistinctFilterNames, NEW st \in State,
           st.out \in Good, IsInjective(st.left), Apart(st.out, st.left)
    PROVE  Registers(st.out, st.left, RegisterPass(st))
<1> DEFINE N == Len(st.left)
           Inv(q, i) == /\ Registers(st.out, st.left, q)
                        /\ \A k \in i + 1 .. N : ~InList(q.out, st.left[k]) /\ ~InList(q.left, st.left[k])
<1>1. /\ N \in Nat /\ st.out \in Seq(Filter) /\ st.left \in Seq(Filter)
      /\ \A i \in 1 .. N : st.left[i] \in Filter
  BY DEF State
<1>2. PICK p : /\ p[0] = [out |-> st.out, left |-> <<>>]
               /\ \A i \in 1 .. N : p[i] = Tried(p[i - 1], st.left[i])
               /\ RegisterPass(st) = p[N]
  BY PassIs
<1>3. Inv(p[0], 0)
  <2>1. /\ p[0] \in State /\ p[0].out = st.out /\ p[0].left = <<>> /\ DOMAIN p[0].left = {}
    BY <1>1, <1>2 DEF State
  <2>2. \A g \in Filter : ~InList(p[0].left, g)
    BY <2>1 DEF InList
  <2>3. IsInjective(p[0].left)
    BY <2>1 DEF IsInjective
  <2>4. ASSUME NEW k \in 0 + 1 .. N PROVE ~InList(p[0].out, st.left[k]) /\ ~InList(p[0].left, st.left[k])
    <3>1. k \in 1 .. N /\ InList(st.left, st.left[k])
      BY <1>1 DEF InList
    <3> QED
      BY <3>1, <2>1, <2>2, <1>1 DEF Apart
  <2> QED
    BY <2>1, <2>2, <2>3, <2>4 DEF Registers, Apart
<1> HIDE DEF N
<1>4. ASSUME NEW i \in 1 .. N, NEW q, Inv(q, i - 1)
      PROVE  Inv(Tried(q, st.left[i]), i)
  <2> DEFINE f == st.left[i]
             r == Tried(q, f)
  <2>0. /\ q \in State /\ q.out \in Good /\ IsInjective(q.left) /\ Apart(q.out, q.left)
        /\ \A g \in Filter : InList(q.left, g) => InList(st.left, g)
        /\ \A g \in Filter : InList(q.out, g) => InList(st.out, g) \/ InList(st.left, g)
    BY <1>4 DEF Registers
  <2>1. /\ f \in Filter /\ r \in State
        /\ CanRegister(q.out, f) => r.out = WithFilter(q.out, f) /\ r.left = q.left
        /\ ~CanRegister(q.out, f) => r.out = q.out /\ r.left = Append(q.left, f)
    BY <1>1, <2>0, TriedIs, Zenon
  <2>2. q.out \in Seq(Filter) /\ q.left \in Seq(Filter)
    BY <2>0 DEF State
  <2>3. /\ \A g \in Filter : InList(WithFilter(q.out, f), g) <=> InList(q.out, g) \/ g = f
        /\ \A g \in Filter : InList(Append(q.left, f), g) <=> InList(q.left, g) \/ g = f
        /\ IsInjective(q.left) /\ ~InList(q.left, f) => IsInjective(Append(q.left, f))
    <3>1. \A g \in Filter : InList(WithFilter(q.out, f), g) <=> InList(q.out, g) \/ g = f
      BY <2>1, <2>2, WithFilterLists, Zenon
    <3> QED
      BY <2>1, <2>2, <3>1, AppendIs, Zenon
  <2>4. ~InList(q.out, f) /\ ~InList(q.left, f) /\ InList(st.left, f)
    <3>1. i \in (i - 1) + 1 .. N /\ i \in DOMAIN st.left
      BY <1>1 DEF N
    <3> QED
      BY <3>1, <1>4, Zenon DEF InList
  <2>5. CanRegister(q.out, f) => WithFilter(q.out, f) \in Good
    BY <2>0, <2>1, <2>4, WithFilterGood, Zenon
  <2>6. ASSUME NEW k \in i + 1 .. N
        PROVE  /\ st.left[k] \in Filter /\ st.left[k] # f
               /\ ~InList(q.out, st.left[k]) /\ ~InList(q.left, st.left[k])
    <3>1. k \in (i - 1) + 1 .. N /\ k \in 1 .. N /\ k # i
      BY <1>1
    <3>2. st.left[k] # f
      BY <3>1, <1>1 DEF IsInjective, N
    <3> QED
      BY <3>1, <3>2, <1>1, <1>4
  <2> HIDE DEF f, r
  <2>7. Registers(st.out, st.left, r)
    <3>1. r.out \in Good
      BY <2>0, <2>1, <2>5
    <3>2. IsInjective(r.left)
      BY <2>0, <2>1, <2>3, <2>4
    <3>3. Apart(r.out, r.left)
      BY <2>0, <2>1, <2>3, <2>4 DEF Apart
    <3>4. \A g \in Filter : InList(r.left, g) => InList(st.left, g)
      BY <2>0, <2>1, <2>3, <2>4
    <3>5. \A g \in Filter : InList(r.out, g) => InList(st.out, g) \/ InList(st.left, g)
      BY <2>0, <2>1, <2>3, <2>4
    <3> QED
      BY <2>1, <3>1, <3>2, <3>3, <3>4, <3>5 DEF Registers
  <2>8. \A k \in i + 1 .. N : ~InList(r.out, st.left[k]) /\ ~InList(r.left, st.left[k])
    BY <2>1, <2>3, <2>6
  <2> QED
    BY <2>7, <2>8 DEF r, f
<1> DEFINE S == {i \in 0 .. N : Inv(p[i], i)}
<1>5. N \in S
  <2>1. 0 \in S /\ N \in 0 .. N
    BY <1>1, <1>3
  <2>2. ASSUME NEW i \in 1 .. N, i - 1 \in S PROVE i \in S
    <3>1. i \in 0 .. N /\ p[i] = Tried(p[i - 1], st.left[i]) /\ Inv(p[i - 1], i - 1)
      BY <2>2, <1>1, <1>2
    <3>2. Inv(Tried(p[i - 1], st.left[i]), i)
      BY <3>1, <1>4, Zenon
    <3> HIDE DEF Inv
    <3> QED
      BY <3>1, <3>2
  <2> HIDE DEF S
  <2> QED
    BY <2>1, <2>2, <1>1, NatSteps, Zenon
<1> QED
  BY <1>2, <1>5

LEMMA AllGood ==
    ASSUME DistinctFilterNames, NEW list \in Good, NEW in \in Seq(Filter), IsInjective(in), Apart(list, in)
    PROVE  RegisterAll(list, in).out \in Good
<1> DEFINE N == Len(in)
           Inv(q) == Registers(list, in, q)
<1>1. N \in Nat /\ list \in Seq(Filter)
  BY DEF Good
<1>2. PICK p : /\ p[0] = [out |-> list, left |-> in]
               /\ \A i \in 1 .. N : p[i] = RegisterPass(p[i - 1])
               /\ RegisterAll(list, in) = p[N]
  BY <1>1, PassesAre
<1>3. Inv(p[0])
  BY <1>1, <1>2 DEF State, Registers
<1> HIDE DEF N
<1>4. ASSUME NEW q, Inv(q)
      PROVE  Inv(RegisterPass(q))
  <2>1. Registers(q.out, q.left, RegisterPass(q))
    BY <1>4, PassGood, Zenon DEF Registers
  <2> QED
    BY <2>1, <1>4 DEF Registers
<1> DEFINE S == {i \in 0 .. N : Inv(p[i])}
<1>5. N \in S
  <2>1. 0 \in S /\ N \in 0 .. N
    BY <1>1, <1>3
  <2>2. ASSUME NEW i \in 1 .. N, i - 1 \in S PROVE i \in S
    <3>1. i \in 0 .. N /\ p[i] = RegisterPass(p[i - 1]) /\ Inv(p[i - 1])
      BY <2>2, <1>1, <1>2
    <3> QED
      BY <3>1, <1>4, Zenon
  <2> HIDE DEF S
  <2> QED
    BY <2>1, <2>2, <1>1, NatSteps, Zenon
<1> QED
  BY <1>2, <1>5 DEF Registers

-----------------------------------------------------------------------------
(* The filters of a part, unregistered one by one.                         *)

LEMMA RestIs ==
    ASSUME NEW list \in Seq(Filter), NEW fs \in Seq(Filter)
    PROVE  \E p : /\ p[0] = list
                  /\ \A i \in 1 .. Len(fs) : p[i] = Without(p[i - 1], fs[i])
                  /\ WithoutAll(list, fs) = p[Len(fs)]
<1> DEFINE N == Len(fs)
           d == list
           G == [x \in (1 .. N) \X Seq(Filter) |-> Without(x[2], fs[x[1]])]
           Body(p) == [i \in 0 .. N |-> IF i = 0 THEN d ELSE Without(p[i - 1], fs[i])]
           all == CHOOSE p : p = Body(p)
<1>1. N \in Nat /\ d \in Seq(Filter) /\ \A i \in 1 .. N : fs[i] \in Filter
  OBVIOUS
<1>2. WithoutAll(list, fs) = all[N]
  BY DEF WithoutAll
<1> HIDE DEF N, d
<1>3. ASSUME NEW i \in 1 .. N, NEW x \in Seq(Filter)
      PROVE  G[<<i, x>>] = Without(x, fs[i])
  OBVIOUS
<1>4. G \in [(1 .. N) \X Seq(Filter) -> Seq(Filter)]
  <2> SUFFICES ASSUME NEW x \in (1 .. N) \X Seq(Filter) PROVE Without(x[2], fs[x[1]]) \in Seq(Filter)
    BY Zenon
  <2>1. x[1] \in 1 .. N /\ x[2] \in Seq(Filter)
    OBVIOUS
  <2> QED
    BY <2>1, <1>1, WithoutKeeps, Zenon
<1> HIDE DEF G
<1>5. PICK h \in [0 .. N -> Seq(Filter)] : h[0] = d /\ \A i \in 1 .. N : h[i] = G[<<i, h[i - 1]>>]
  <2>1. Recursive(Seq(Filter), d, N, G)
    BY <1>1, <1>4, Recursion, Zenon
  <2> QED
    BY <2>1, Zenon DEF Recursive
<1>6. ASSUME NEW i \in 1 .. N
      PROVE  h[i] = Without(h[i - 1], fs[i])
  <2>1. h[i - 1] \in Seq(Filter)
    BY <1>1
  <2> QED
    BY <2>1, <1>3, <1>5
<1>7. h = Body(h)
  <2>1. ASSUME NEW i \in 0 .. N PROVE h[i] = IF i = 0 THEN d ELSE Without(h[i - 1], fs[i])
    <3>1. i = 0 \/ i \in 1 .. N
      BY <1>1
    <3> QED
      BY <3>1, <1>5, <1>6
  <2> QED
    BY <2>1
<1>8. all = Body(all)
  BY <1>7
<1>9. \A i \in 0 .. N : all[i] = IF i = 0 THEN d ELSE Without(all[i - 1], fs[i])
  BY <1>8
<1> HIDE DEF all
<1>10. all[0] = d /\ \A i \in 1 .. N : all[i] = Without(all[i - 1], fs[i])
  BY <1>1, <1>9
<1> QED
  BY <1>2, <1>10, Zenon DEF N, d

\* What unregistering filters keeps: what is not listed is not listed afterwards.
Fewer(list, rest) == \A g \in Filter : InList(rest, g) => InList(list, g)

LEMMA WithoutAllIs ==
    ASSUME NEW list \in Seq(Filter), NEW fs \in Seq(Filter)
    PROVE  /\ WithoutAll(list, fs) \in Seq(Filter)
           /\ list \in Good => /\ WithoutAll(list, fs) \in Good
                               /\ Fewer(list, WithoutAll(list, fs))
                               /\ \A f \in ToSet(fs) : Deps[f] = {} => ~InList(WithoutAll(list, fs), f)
<1> DEFINE N == Len(fs)
           Inv(q, i) == /\ q \in Seq(Filter)
                        /\ list \in Good => /\ q \in Good /\ Fewer(list, q)
                                            /\ \A k \in 1 .. i : Deps[fs[k]] = {} => ~InList(q, fs[k])
<1>1. N \in Nat /\ DOMAIN fs = 1 .. N /\ \A i \in 1 .. N : fs[i] \in Filter
  OBVIOUS
<1>2. PICK p : /\ p[0] = list
               /\ \A i \in 1 .. N : p[i] = Without(p[i - 1], fs[i])
               /\ WithoutAll(list, fs) = p[N]
  BY RestIs
<1>3. Inv(p[0], 0)
  BY <1>1, <1>2 DEF Fewer
<1> HIDE DEF N
<1>4. ASSUME NEW i \in 1 .. N, NEW q, Inv(q, i - 1)
      PROVE  Inv(Without(q, fs[i]), i)
  <2> DEFINE r == Without(q, fs[i])
  <2>1. fs[i] \in Filter /\ q \in Seq(Filter) /\ i \in Nat
    BY <1>1, <1>4
  <2>2. r \in Seq(Filter) /\ Fewer(q, r)
    BY <2>1, WithoutKeeps, Zenon DEF Fewer
  <2>3. q \in Good => r \in Good /\ (Deps[fs[i]] = {} => ~InList(r, fs[i]))
    BY <2>1, WithoutGood, Zenon
  <2> HIDE DEF r
  <2>4. ASSUME list \in Good
        PROVE  r \in Good /\ Fewer(list, r) /\ \A k \in 1 .. i : Deps[fs[k]] = {} => ~InList(r, fs[k])
    <3>1. q \in Good /\ Fewer(list, q) /\ \A k \in 1 .. i - 1 : Deps[fs[k]] = {} => ~InList(q, fs[k])
      BY <2>4, <1>4
    <3>2. Fewer(list, r)
      BY <3>1, <2>2 DEF Fewer
    <3>3. ASSUME NEW k \in 1 .. i, Deps[fs[k]] = {} PROVE ~InList(r, fs[k])
      <4>1. CASE k = i
        BY <4>1, <3>1, <3>3, <2>3
      <4>2. CASE k # i
        <5>1. k \in 1 .. i - 1 /\ k \in 1 .. N
          BY <4>2, <2>1, <1>1
        <5> QED
          BY <5>1, <3>1, <3>3, <2>2, <1>1 DEF Fewer
      <4> QED
        BY <4>1, <4>2
    <3> QED
      BY <3>1, <3>2, <3>3, <2>3
  <2> QED
    BY <2>2, <2>4 DEF r
<1> DEFINE S == {i \in 0 .. N : Inv(p[i], i)}
<1>5. N \in S
  <2>1. 0 \in S /\ N \in 0 .. N
    BY <1>1, <1>3
  <2>2. ASSUME NEW i \in 1 .. N, i - 1 \in S PROVE i \in S
    <3>1. i \in 0 .. N /\ p[i] = Without(p[i - 1], fs[i]) /\ Inv(p[i - 1], i - 1)
      <4>1. Inv(p[i - 1], i - 1)
        BY <2>2, Zenon
      <4> HIDE DEF Inv
      <4> QED
        BY <4>1, <1>1, <1>2
    <3>2. Inv(Without(p[i - 1], fs[i]), i)
      BY <3>1, <1>4, Zenon
    <3> HIDE DEF Inv
    <3> QED
      BY <3>1, <3>2
  <2> HIDE DEF S
  <2> QED
    BY <2>1, <2>2, <1>1, NatSteps, Zenon
<1>6. Inv(WithoutAll(list, fs), N)
  BY <1>2, <1>5
<1>7. ASSUME NEW f \in ToSet(fs) PROVE \E k \in 1 .. N : f = fs[k]
  BY <1>1 DEF ToSet
<1> QED
  BY <1>6, <1>7

-----------------------------------------------------------------------------
(* The parts of a group.                                                   *)

PartSet == [phase : Phase, filters : Seq(Filter)]

LEMMA PartIs ==
    ASSUME NEW part \in PartSet
    PROVE  part.phase \in Phase /\ part.filters \in Seq(Filter)
BY DEF PartSet

LEMMA PartWithout ==
    ASSUME NEW lists \in [Phase -> Seq(Filter)], NEW part \in PartSet
    PROVE  WithoutPart(lists, part) \in [Phase -> Seq(Filter)]
<1>1. WithoutAll(lists[part.phase], part.filters) \in Seq(Filter)
  BY PartIs, WithoutAllIs
<1> QED
  BY <1>1, PartIs DEF WithoutPart

LEMMA PartWith ==
    ASSUME NEW lists \in [Phase -> Seq(Filter)], NEW part \in PartSet
    PROVE  WithPart(lists, part) \in [Phase -> Seq(Filter)]
<1>1. RegisterAll(lists[part.phase], part.filters) \in State
  BY PartIs, AllStuck
<1>2. RegisterAll(lists[part.phase], part.filters).out \in Seq(Filter)
  BY <1>1 DEF State
<1> QED
  BY <1>2, PartIs DEF WithPart

LEMMA RemainsAre ==
    ASSUME NEW lists \in [Phase -> Seq(Filter)], NEW parts \in Seq(PartSet)
    PROVE  \E p : /\ p[0] = lists
                  /\ \A i \in 1 .. Len(parts) : p[i] = WithoutPart(p[i - 1], parts[i])
                  /\ WithoutParts(lists, parts) = p[Len(parts)]
<1> DEFINE N == Len(parts)
           d == lists
           G == [x \in (1 .. N) \X [Phase -> Seq(Filter)] |-> WithoutPart(x[2], parts[x[1]])]
           Body(p) == [i \in 0 .. N |-> IF i = 0 THEN d ELSE WithoutPart(p[i - 1], parts[i])]
           all == CHOOSE p : p = Body(p)
<1>1. N \in Nat /\ d \in [Phase -> Seq(Filter)] /\ \A i \in 1 .. N : parts[i] \in PartSet
  OBVIOUS
<1>2. WithoutParts(lists, parts) = all[N]
  BY DEF WithoutParts
<1> HIDE DEF N, d
<1>3. ASSUME NEW i \in 1 .. N, NEW x \in [Phase -> Seq(Filter)]
      PROVE  G[<<i, x>>] = WithoutPart(x, parts[i])
  OBVIOUS
<1>4. G \in [(1 .. N) \X [Phase -> Seq(Filter)] -> [Phase -> Seq(Filter)]]
  <2> SUFFICES ASSUME NEW x \in (1 .. N) \X [Phase -> Seq(Filter)]
               PROVE  WithoutPart(x[2], parts[x[1]]) \in [Phase -> Seq(Filter)]
    BY Zenon
  <2>1. x[1] \in 1 .. N /\ x[2] \in [Phase -> Seq(Filter)]
    OBVIOUS
  <2> QED
    BY <2>1, <1>1, PartWithout, Zenon
<1> HIDE DEF G
<1>5. PICK h \in [0 .. N -> [Phase -> Seq(Filter)]] : h[0] = d /\ \A i \in 1 .. N : h[i] = G[<<i, h[i - 1]>>]
  <2>1. Recursive([Phase -> Seq(Filter)], d, N, G)
    BY <1>1, <1>4, Recursion, Zenon
  <2> QED
    BY <2>1, Zenon DEF Recursive
<1>6. ASSUME NEW i \in 1 .. N
      PROVE  h[i] = WithoutPart(h[i - 1], parts[i])
  <2>1. h[i - 1] \in [Phase -> Seq(Filter)]
    BY <1>1
  <2> QED
    BY <2>1, <1>3, <1>5
<1>7. h = Body(h)
  <2>1. ASSUME NEW i \in 0 .. N PROVE h[i] = IF i = 0 THEN d ELSE WithoutPart(h[i - 1], parts[i])
    <3>1. i = 0 \/ i \in 1 .. N
      BY <1>1
    <3> QED
      BY <3>1, <1>5, <1>6
  <2> QED
    BY <2>1
<1>8. all = Body(all)
  BY <1>7
<1>9. \A i \in 0 .. N : all[i] = IF i = 0 THEN d ELSE WithoutPart(all[i - 1], parts[i])
  BY <1>8
<1> HIDE DEF all
<1>10. all[0] = d
  <2>1. 0 \in 0 .. N
    BY <1>1
  <2> QED
    BY <2>1, <1>9, Zenon
<1>11. ASSUME NEW i \in 1 .. N
       PROVE  all[i] = WithoutPart(all[i - 1], parts[i])
  <2>1. i \in 0 .. N /\ i # 0
    BY <1>1
  <2> QED
    BY <2>1, <1>9, Zenon
<1> QED
  BY <1>2, <1>10, <1>11, Zenon DEF N, d

Grows(lists, parts, n) ==
    \E p : /\ p[0] = lists
           /\ \A i \in 1 .. n : p[i] = WithPart(p[i - 1], parts[i])
           /\ WithParts(lists, parts, n) = p[n]

LEMMA GrownAre ==
    ASSUME NEW lists \in [Phase -> Seq(Filter)], NEW parts \in Seq(PartSet), NEW n \in 0 .. Len(parts)
    PROVE  Grows(lists, parts, n)
<1> DEFINE N == n
           d == lists
           G == [x \in (1 .. N) \X [Phase -> Seq(Filter)] |-> WithPart(x[2], parts[x[1]])]
           Body(p) == [i \in 0 .. N |-> IF i = 0 THEN d ELSE WithPart(p[i - 1], parts[i])]
           all == CHOOSE p : p = Body(p)
<1>1. N \in Nat /\ d \in [Phase -> Seq(Filter)] /\ \A i \in 1 .. N : parts[i] \in PartSet
  OBVIOUS
<1>2. WithParts(lists, parts, n) = all[N]
  BY DEF WithParts
<1> HIDE DEF N, d
<1>3. ASSUME NEW i \in 1 .. N, NEW x \in [Phase -> Seq(Filter)]
      PROVE  G[<<i, x>>] = WithPart(x, parts[i])
  OBVIOUS
<1>4. G \in [(1 .. N) \X [Phase -> Seq(Filter)] -> [Phase -> Seq(Filter)]]
  <2> SUFFICES ASSUME NEW x \in (1 .. N) \X [Phase -> Seq(Filter)]
               PROVE  WithPart(x[2], parts[x[1]]) \in [Phase -> Seq(Filter)]
    BY Zenon
  <2>1. x[1] \in 1 .. N /\ x[2] \in [Phase -> Seq(Filter)]
    OBVIOUS
  <2> QED
    BY <2>1, <1>1, PartWith, Zenon
<1> HIDE DEF G
<1>5. PICK h \in [0 .. N -> [Phase -> Seq(Filter)]] : h[0] = d /\ \A i \in 1 .. N : h[i] = G[<<i, h[i - 1]>>]
  <2>1. Recursive([Phase -> Seq(Filter)], d, N, G)
    BY <1>1, <1>4, Recursion, Zenon
  <2> QED
    BY <2>1, Zenon DEF Recursive
<1>6. ASSUME NEW i \in 1 .. N
      PROVE  h[i] = WithPart(h[i - 1], parts[i])
  <2>1. h[i - 1] \in [Phase -> Seq(Filter)]
    BY <1>1
  <2> QED
    BY <2>1, <1>3, <1>5
<1>7. h = Body(h)
  <2>1. ASSUME NEW i \in 0 .. N PROVE h[i] = IF i = 0 THEN d ELSE WithPart(h[i - 1], parts[i])
    <3>1. i = 0 \/ i \in 1 .. N
      BY <1>1
    <3> QED
      BY <3>1, <1>5, <1>6
  <2> QED
    BY <2>1
<1>8. all = Body(all)
  BY <1>7
<1>9. \A i \in 0 .. N : all[i] = IF i = 0 THEN d ELSE WithPart(all[i - 1], parts[i])
  BY <1>8
<1> HIDE DEF all
<1>10. all[0] = d
  <2>1. 0 \in 0 .. N
    BY <1>1
  <2> QED
    BY <2>1, <1>9, Zenon
<1>11. ASSUME NEW i \in 1 .. N
       PROVE  all[i] = WithPart(all[i - 1], parts[i])
  <2>1. i \in 0 .. N /\ i # 0
    BY <1>1
  <2> QED
    BY <2>1, <1>9, Zenon
<1> QED
  BY <1>2, <1>10, <1>11, Zenon DEF N, d, Grows

GoodLists == [Phase -> Good]

LEMMA GoodListsAre ==
    /\ GoodLists \subseteq [Phase -> Seq(Filter)]
    /\ \A lists \in [Phase -> Seq(Filter)] : (\A ph \in Phase : lists[ph] \in Good) => lists \in GoodLists
    /\ \A lists \in GoodLists, ph \in Phase : lists[ph] \in Good
BY DEF GoodLists, Good

\* The filters without dependencies of the parts are listed for their phases no more.
LEMMA WithoutPartsIs ==
    ASSUME NEW lists \in GoodLists, NEW parts \in Seq(PartSet)
    PROVE  /\ WithoutParts(lists, parts) \in GoodLists
           /\ \A ph \in Phase : Fewer(lists[ph], WithoutParts(lists, parts)[ph])
           /\ \A k \in 1 .. Len(parts) : \A f \in ToSet(parts[k].filters) :
                Deps[f] = {} => ~InList(WithoutParts(lists, parts)[parts[k].phase], f)
<1> DEFINE N == Len(parts)
           Gone(q, k) == \A f \in ToSet(parts[k].filters) : Deps[f] = {} => ~InList(q[parts[k].phase], f)
           Inv(q, i) == /\ q \in GoodLists
                        /\ \A ph \in Phase : Fewer(lists[ph], q[ph])
                        /\ \A k \in 1 .. i : Gone(q, k)
           Next(q, i) == WithoutPart(q, parts[i])
<1>1. N \in Nat /\ \A i \in 1 .. N : parts[i] \in PartSet
  OBVIOUS
<1>2. PICK p : /\ p[0] = lists
               /\ \A i \in 1 .. N : p[i] = Next(p[i - 1], i)
               /\ WithoutParts(lists, parts) = p[N]
  <2>1. lists \in [Phase -> Seq(Filter)]
    BY GoodListsAre
  <2> QED
    BY <2>1, RemainsAre, Zenon
<1>3. Inv(p[0], 0)
  BY <1>1, <1>2 DEF Fewer
<1> HIDE DEF N
<1>4. ASSUME NEW i \in 1 .. N, NEW q, Inv(q, i - 1)
      PROVE  Inv(Next(q, i), i)
  <2> DEFINE part == parts[i]
             r == Next(q, i)
             w == WithoutAll(q[part.phase], part.filters)
  <2>1. part \in PartSet /\ part.phase \in Phase /\ part.filters \in Seq(Filter) /\ i \in Nat
    <3>1. part \in PartSet /\ i \in Nat
      BY <1>1
    <3> QED
      BY <3>1, PartIs, Zenon
  <2>2. q \in GoodLists /\ q[part.phase] \in Good /\ q[part.phase] \in Seq(Filter)
    BY <2>1, <1>4, GoodListsAre
  <2>3. /\ w \in Good /\ Fewer(q[part.phase], w)
        /\ \A f \in ToSet(part.filters) : Deps[f] = {} => ~InList(w, f)
    BY <2>1, <2>2, WithoutAllIs, Zenon
  <2>4. r = [q EXCEPT ![part.phase] = w]
    BY Zenon DEF WithoutPart
  <2> HIDE DEF w, r, Next, part
  <2>5. /\ r \in GoodLists /\ r[part.phase] = w
        /\ \A ph \in Phase : ph # part.phase => r[ph] = q[ph]
    BY <2>1, <2>2, <2>3, <2>4 DEF GoodLists
  <2>6. \A ph \in Phase : Fewer(q[ph], r[ph])
    BY <2>3, <2>5 DEF Fewer
  <2>7. \A ph \in Phase : Fewer(lists[ph], r[ph])
    BY <2>6, <1>4 DEF Fewer
  <2>8. ASSUME NEW k \in 1 .. i PROVE Gone(r, k)
    <3>1. CASE k = i
      BY <3>1, <2>3, <2>5 DEF part
    <3>2. CASE k # i
      <4>1. k \in 1 .. i - 1 /\ k \in 1 .. N
        BY <3>2, <2>1, <1>1
      <4>2. parts[k].phase \in Phase /\ parts[k].filters \in Seq(Filter)
        BY <4>1, <1>1, PartIs
      <4>3. ToSet(parts[k].filters) \subseteq Filter
        BY <4>2 DEF ToSet
      <4>4. Gone(q, k)
        BY <4>1, <1>4
      <4> QED
        BY <4>2, <4>3, <4>4, <2>6 DEF Fewer
    <3> QED
      BY <3>1, <3>2
  <2> QED
    BY <2>5, <2>7, <2>8 DEF r
<1> DEFINE S == {i \in 0 .. N : Inv(p[i], i)}
<1>5. N \in S
  <2>1. 0 \in S /\ N \in 0 .. N
    BY <1>1, <1>3
  <2>2. ASSUME NEW i \in 1 .. N, i - 1 \in S PROVE i \in S
    <3>1. Inv(p[i - 1], i - 1) /\ p[i] = Next(p[i - 1], i)
      BY <2>2, <1>2, Zenon
    <3> HIDE DEF Inv, Next
    <3>2. Inv(Next(p[i - 1], i), i)
      BY <3>1, <1>4, Zenon
    <3>3. i \in 0 .. N
      BY <1>1
    <3> QED
      BY <3>1, <3>2, <3>3
  <2> HIDE DEF S
  <2> QED
    BY <2>1, <2>2, <1>1, NatSteps, Zenon
<1>6. Inv(WithoutParts(lists, parts), N)
  BY <1>2, <1>5, Zenon
<1> QED
  BY <1>6, Zenon DEF N

\* A group whose filters are not listed is registered part by part, each in a list that
\* the parts before it have left alone.
OnePartAPhase(parts) == \A i, j \in DOMAIN parts : parts[i].phase = parts[j].phase => i = j
Fit(lists, parts) ==
    \A i \in DOMAIN parts : IsInjective(parts[i].filters) /\ Apart(lists[parts[i].phase], parts[i].filters)

LEMMA WithPartsIs ==
    ASSUME DistinctFilterNames,
           NEW lists \in GoodLists, NEW parts \in Seq(PartSet), NEW n \in 0 .. Len(parts),
           OnePartAPhase(parts), Fit(lists, parts)
    PROVE  /\ WithParts(lists, parts, n) \in GoodLists
           /\ \A k \in n + 1 .. Len(parts) :
                WithParts(lists, parts, n)[parts[k].phase] = lists[parts[k].phase]
<1> DEFINE N == Len(parts)
           Inv(q, i) == /\ q \in GoodLists
                        /\ \A k \in i + 1 .. N : q[parts[k].phase] = lists[parts[k].phase]
           Next(q, i) == WithPart(q, parts[i])
<1>1. N \in Nat /\ DOMAIN parts = 1 .. N /\ \A i \in 1 .. N : parts[i] \in PartSet
  OBVIOUS
<1>2. PICK p : /\ p[0] = lists
               /\ \A i \in 1 .. n : p[i] = Next(p[i - 1], i)
               /\ WithParts(lists, parts, n) = p[n]
  <2>1. lists \in [Phase -> Seq(Filter)]
    BY GoodListsAre
  <2> QED
    <3>1. Grows(lists, parts, n)
      BY <2>1, GrownAre, Zenon
    <3> QED
      BY <3>1, Zenon DEF Grows
<1>3. Inv(p[0], 0)
  BY <1>2
<1> HIDE DEF N
<1>4. ASSUME NEW i \in 1 .. n, NEW q, Inv(q, i - 1)
      PROVE  Inv(Next(q, i), i)
  <2> DEFINE part == parts[i]
             r == Next(q, i)
             w == RegisterAll(q[part.phase], part.filters).out
  <2>0. i \in 1 .. N /\ i \in (i - 1) + 1 .. N /\ i \in Nat
    BY <1>1 DEF N
  <2>1. part \in PartSet /\ part.phase \in Phase /\ part.filters \in Seq(Filter)
    <3>1. part \in PartSet
      BY <2>0, <1>1
    <3> QED
      BY <3>1, PartIs, Zenon
  <2>2. q \in GoodLists /\ q[part.phase] \in Good /\ q[part.phase] = lists[part.phase]
    BY <2>0, <2>1, <1>4, GoodListsAre
  <2>3. IsInjective(part.filters) /\ Apart(q[part.phase], part.filters)
    BY <2>0, <2>2, <1>1, Zenon DEF Fit
  <2>4. w \in Good
    BY <2>1, <2>2, <2>3, AllGood, Zenon
  <2>5. r = [q EXCEPT ![part.phase] = w]
    BY Zenon DEF WithPart
  <2> HIDE DEF w, r, Next
  <2>6. /\ r \in GoodLists
        /\ \A ph \in Phase : ph # part.phase => r[ph] = q[ph]
    BY <2>1, <2>2, <2>4, <2>5 DEF GoodLists
  <2>7. ASSUME NEW k \in i + 1 .. N PROVE r[parts[k].phase] = lists[parts[k].phase]
    <3>1. k \in (i - 1) + 1 .. N /\ k \in 1 .. N /\ k # i
      BY <2>0, <1>1
    <3>2. parts[k].phase # part.phase
      BY <3>1, <2>0, <1>1, Zenon DEF OnePartAPhase
    <3>3. parts[k].phase \in Phase
      BY <3>1, <1>1, PartIs
    <3>4. q[parts[k].phase] = lists[parts[k].phase]
      BY <3>1, <1>4, Zenon
    <3> QED
      BY <3>2, <3>3, <3>4, <2>6
  <2> QED
    BY <2>6, <2>7 DEF r
<1> DEFINE S == {i \in 0 .. n : Inv(p[i], i)}
<1>5. n \in S
  <2>1. 0 \in S /\ n \in 0 .. n /\ n \in Nat
    <3>1. 0 \in 0 .. n /\ n \in 0 .. n /\ n \in Nat
      BY <1>1 DEF N
    <3> QED
      BY <3>1, <1>3
  <2>2. ASSUME NEW i \in 1 .. n, i - 1 \in S PROVE i \in S
    <3>1. Inv(p[i - 1], i - 1) /\ p[i] = Next(p[i - 1], i)
      BY <2>2, <1>2, Zenon
    <3> HIDE DEF Inv, Next
    <3>2. Inv(Next(p[i - 1], i), i)
      BY <3>1, <1>4, Zenon
    <3>3. i \in 0 .. n
      BY <2>1
    <3> QED
      BY <3>1, <3>2, <3>3
  <2> HIDE DEF S
  <2> QED
    BY <2>1, <2>2, NatSteps, Zenon
<1>6. Inv(WithParts(lists, parts, n), n)
  BY <1>2, <1>5, Zenon
<1> QED
  BY <1>6, Zenon DEF N

-----------------------------------------------------------------------------
(* The specification.                                                      *)

FilterInv ==
    /\ filters \in GoodLists
    /\ filterLibs \subseteq Group
    /\ astray \in BOOLEAN

LEMMA GroupIs ==
    ASSUME NEW g \in Group
    PROVE  Parts[g] \in Seq(PartSet) /\ OnePartAPhase(Parts[g])
BY FiltersAssumption DEF FiltersAssumption, PartSet, OnePartAPhase

LEMMA GroupFits ==
    ASSUME FilterInv, NEW g \in Group, Fits(g)
    PROVE  Fit(filters, Parts[g])
<1> SUFFICES ASSUME NEW i \in DOMAIN Parts[g]
             PROVE  /\ IsInjective(Parts[g][i].filters)
                    /\ Apart(filters[Parts[g][i].phase], Parts[g][i].filters)
  BY DEF Fit
<1>1. IsInjective(Parts[g][i].filters)
  BY FiltersAssumption DEF FiltersAssumption
<1>2. ASSUME NEW f \in Filter, InList(Parts[g][i].filters, f)
      PROVE  ~InList(filters[Parts[g][i].phase], f)
  <2>1. f \in ToSet(Parts[g][i].filters)
    BY <1>2 DEF InList, ToSet
  <2> QED
    BY <2>1, Zenon DEF Fits
<1> QED
  BY <1>1, <1>2 DEF Apart

LEMMA DeploysGood ==
    ASSUME DistinctFilterNames, FilterInv, NEW g \in Group, Fits(g), DeployFilters(g)
    PROVE  FilterInv'
<1> DEFINE n == Len(Parts[g])
<1>1. /\ Parts[g] \in Seq(PartSet) /\ OnePartAPhase(Parts[g])
      /\ Fit(filters, Parts[g]) /\ n \in 0 .. Len(Parts[g])
  <2>1. Parts[g] \in Seq(PartSet)
    BY GroupIs
  <2>2. n \in 0 .. Len(Parts[g])
    BY <2>1
  <2> QED
    BY <2>1, <2>2, GroupIs, GroupFits
<1>2. WithParts(filters, Parts[g], n) \in GoodLists
  BY <1>1, WithPartsIs DEF FilterInv
<1> QED
  BY <1>2 DEF FilterInv, DeployFilters

\* The part that fails is a part of the group.
LEMMA FailingIs ==
    ASSUME NEW lists, NEW parts \in Seq(PartSet)
    PROVE  FailingPart(lists, parts) \in 0 .. Len(parts)
<1> DEFINE unmet(i) == RegisterAll(WithParts(lists, parts, i - 1)[parts[i].phase],
                                   parts[i].filters).left # <<>>
           At == {i \in DOMAIN parts : unmet(i)}
<1>1. FailingPart(lists, parts) = IF \E i \in DOMAIN parts : unmet(i)
                                  THEN CHOOSE i \in DOMAIN parts : unmet(i) /\ \A j \in 1 .. i - 1 : ~unmet(j)
                                  ELSE 0
  BY Zenon DEF FailingPart
<1> HIDE DEF unmet
<1>2. DOMAIN parts = 1 .. Len(parts) /\ Len(parts) \in Nat
  OBVIOUS
<1>3. CASE \E i \in DOMAIN parts : unmet(i)
  <2>1. At # {} /\ At \subseteq Nat
    BY <1>2, <1>3
  <2>2. PICK i \in At : \A j \in At : i <= j
    BY <2>1, LeastNat
  <2>3. \A j \in 1 .. i - 1 : j \in DOMAIN parts /\ ~(i <= j)
    BY <1>2
  <2>4. \E k \in DOMAIN parts : unmet(k) /\ \A j \in 1 .. k - 1 : ~unmet(j)
    BY <2>2, <2>3
  <2>5. (CHOOSE k \in DOMAIN parts : unmet(k) /\ \A j \in 1 .. k - 1 : ~unmet(j)) \in DOMAIN parts
    BY <2>4, Zenon
  <2>6. FailingPart(lists, parts) \in DOMAIN parts
    BY <1>1, <1>3, <2>5, Zenon
  <2> QED
    BY <2>6, <1>2
<1>4. CASE ~\E i \in DOMAIN parts : unmet(i)
  BY <1>1, <1>2, <1>4
<1> QED
  BY <1>3, <1>4

Rootless(g) ==
    \A k \in DOMAIN Parts[g] : \A f \in ToSet(Parts[g][k].filters) :
        Deps[f] = {} => ~InList(filters'[Parts[g][k].phase], f)

LEMMA FailsGood ==
    ASSUME DistinctFilterNames, FilterInv, NEW g \in Group, Fits(g), DeployFiltersFails(g)
    PROVE  FilterInv' /\ Rootless(g)
<1> DEFINE parts == Parts[g]
           n == FailingPart(filters, parts)
           upTo == SubSeq(parts, 1, n)
           lists == WithParts(filters, parts, n)
           rest == WithoutParts(lists, upTo)
<1>1. /\ parts \in Seq(PartSet) /\ OnePartAPhase(parts) /\ Fit(filters, parts) /\ filters \in GoodLists
      /\ filters' = rest /\ astray' \in BOOLEAN /\ filterLibs' = filterLibs
  BY GroupIs, GroupFits DEF FilterInv, DeployFiltersFails
<1>2. n \in 0 .. Len(parts)
  BY <1>1, FailingIs, Zenon
<1> HIDE DEF n, parts
<1>3. /\ lists \in GoodLists
      /\ \A k \in n + 1 .. Len(parts) : lists[parts[k].phase] = filters[parts[k].phase]
  BY <1>1, <1>2, WithPartsIs, Zenon
<1>4. upTo \in Seq(PartSet) /\ Len(upTo) = n /\ \A k \in 1 .. n : upTo[k] = parts[k]
  BY <1>1, <1>2
<1> HIDE DEF upTo, lists
<1>5. /\ rest \in GoodLists
      /\ \A ph \in Phase : Fewer(lists[ph], rest[ph])
      /\ \A k \in 1 .. Len(upTo) : \A f \in ToSet(upTo[k].filters) :
            Deps[f] = {} => ~InList(rest[upTo[k].phase], f)
  BY <1>3, <1>4, WithoutPartsIs, Zenon
<1> HIDE DEF rest
<1>6. FilterInv'
  BY <1>1, <1>5 DEF FilterInv
<1>7. ASSUME NEW k \in DOMAIN parts, NEW f \in ToSet(parts[k].filters), Deps[f] = {}
      PROVE  ~InList(rest[parts[k].phase], f)
  <2>1. k \in 1 .. Len(parts) /\ Len(parts) \in Nat /\ parts[k] \in PartSet
    BY <1>1
  <2>2. parts[k].phase \in Phase /\ parts[k].filters \in Seq(Filter)
    BY <2>1, PartIs, Zenon
  <2>3. f \in Filter /\ InList(parts[k].filters, f)
    BY <2>2 DEF ToSet, InList
  <2>4. CASE k \in 1 .. n
    BY <2>4, <1>4, <1>5, <1>7
  <2>5. CASE k \in n + 1 .. Len(parts)
    <3>1. ~InList(filters[parts[k].phase], f)
      BY <2>3, <1>1, <1>7 DEF Fit, Apart
    <3> QED
      BY <3>1, <2>2, <2>3, <2>5, <1>3, <1>5 DEF Fewer
  <2> QED
    BY <2>1, <2>4, <2>5, <1>2
<1> QED
  BY <1>1, <1>6, <1>7 DEF Rootless, parts

LEMMA UndeploysGood ==
    ASSUME FilterInv, NEW g \in Group, UndeployFilters(g)
    PROVE  FilterInv' /\ Rootless(g)
<1> DEFINE parts == Parts[g]
           rest == WithoutParts(filters, parts)
<1>1. /\ parts \in Seq(PartSet) /\ filters \in GoodLists /\ DOMAIN parts = 1 .. Len(parts)
      /\ filters' = rest /\ astray' \in BOOLEAN /\ filterLibs' = filterLibs \ {g}
  <2>1. parts \in Seq(PartSet)
    BY GroupIs
  <2> QED
    BY <2>1 DEF FilterInv, UndeployFilters
<1> HIDE DEF parts
<1>2. /\ rest \in GoodLists
      /\ \A k \in 1 .. Len(parts) : \A f \in ToSet(parts[k].filters) :
            Deps[f] = {} => ~InList(rest[parts[k].phase], f)
  BY <1>1, WithoutPartsIs, Zenon
<1>3. FilterInv'
  BY <1>1, <1>2 DEF FilterInv
<1> QED
  BY <1>1, <1>2, <1>3 DEF Rootless, parts

LEMMA RegistersGood ==
    ASSUME DistinctFilterNames, FilterInv, NEW ph \in Phase, NEW f \in Filter,
           ~InList(filters[ph], f), RegisterFilter(ph, f)
    PROVE  FilterInv'
<1>1. filters[ph] \in Good
  BY GoodListsAre DEF FilterInv
<1>2. WithFilter(filters[ph], f) \in Good
  BY <1>1, WithFilterGood, Zenon DEF RegisterFilter
<1> QED
  BY <1>2 DEF FilterInv, RegisterFilter, GoodLists

LEMMA UnregistersGood ==
    ASSUME FilterInv, NEW ph \in Phase, NEW f \in Filter, UnregisterFilter(ph, f)
    PROVE  FilterInv'
<1>1. filters[ph] \in Good
  BY GoodListsAre DEF FilterInv
<1>2. Without(filters[ph], f) \in Good
  BY <1>1, WithoutGood, Zenon
<1> QED
  BY <1>2 DEF FilterInv, UnregisterFilter, GoodLists

LEMMA FiltersStart == FiltersInit => FilterInv
<1>1. <<>> \in Good
  BY DEF Good, IsInjective, Ordered, Supported
<1> QED
  BY <1>1 DEF FiltersInit, FilterInv, GoodLists

LEMMA FiltersStep ==
    ASSUME DistinctFilterNames, FilterInv, [FiltersNext]_filterVars
    PROVE  FilterInv'
<1>1. CASE UNCHANGED filterVars
  BY <1>1 DEF filterVars, FilterInv
<1>2. ASSUME NEW g \in Group, Fits(g), DeployFilters(g) PROVE FilterInv'
  BY <1>2, DeploysGood
<1>3. ASSUME NEW g \in Group, Fits(g), DeployFiltersFails(g) PROVE FilterInv'
  BY <1>3, FailsGood
<1>4. ASSUME NEW g \in Group, UndeployFilters(g) PROVE FilterInv'
  BY <1>4, UndeploysGood
<1>5. ASSUME NEW ph \in Phase, NEW f \in Filter, ~InList(filters[ph], f), RegisterFilter(ph, f)
      PROVE  FilterInv'
  BY <1>5, RegistersGood
<1>6. ASSUME NEW ph \in Phase, NEW f \in Filter, UnregisterFilter(ph, f) PROVE FilterInv'
  BY <1>6, UnregistersGood
<1> QED
  BY <1>1, <1>2, <1>3, <1>4, <1>5, <1>6, Zenon DEF FiltersNext

LEMMA OrderedFirst ==
    ASSUME FilterInv
    PROVE  FiltersTypeOK /\ DependenciesFirst
<1>1. ASSUME NEW ph \in Phase
      PROVE  filters[ph] \in Seq(Filter) /\ IsInjective(filters[ph]) /\ Ordered(filters[ph])
  BY GoodListsAre DEF FilterInv, Good
<1>2. FiltersTypeOK
  BY <1>1, GoodListsAre DEF FilterInv, FiltersTypeOK
<1>3. ASSUME NEW ph \in Phase, NEW i \in DOMAIN filters[ph],
             NEW n \in Deps[filters[ph][i]], n \in NamesIn(filters[ph])
      PROVE  n \in NamesIn(SubSeq(filters[ph], 1, i - 1))
  <2> DEFINE list == filters[ph]
             first == SubSeq(list, 1, i - 1)
  <2>1. PICK j \in DOMAIN list : n = FilterName[list[j]]
    BY <1>3 DEF NamesIn
  <2>2. j < i /\ list \in Seq(Filter)
    BY <2>1, <1>1 DEF Ordered
  <2> HIDE DEF list
  <2>3. i \in 1 .. Len(list) /\ j \in 1 .. i - 1
    BY <2>1, <2>2 DEF list
  <2>4. DOMAIN first = 1 .. i - 1 /\ \A k \in 1 .. i - 1 : first[k] = list[k]
    BY <2>2, <2>3
  <2> HIDE DEF first
  <2>5. n \in NamesIn(first)
    BY <2>1, <2>3, <2>4 DEF NamesIn
  <2> QED
    BY <2>5 DEF first, list
<1> QED
  BY <1>2, <1>3 DEF DependenciesFirst

LEMMA StuckForAReason ==
    ASSUME FilterInv
    PROVE  LeftOutForAReason
<1> SUFFICES ASSUME NEW g \in Group, NEW k \in DOMAIN Parts[g]
             PROVE  LET st == RegisterAll(filters[Parts[g][k].phase], Parts[g][k].filters)
                    IN  \A f \in ToSet(st.left) : ~(Deps[f] \subseteq NamesIn(st.out))
  BY Zenon DEF LeftOutForAReason
<1> DEFINE st == RegisterAll(filters[Parts[g][k].phase], Parts[g][k].filters)
<1>1. Parts[g][k] \in PartSet
  BY GroupIs
<1>2. filters[Parts[g][k].phase] \in Seq(Filter) /\ Parts[g][k].filters \in Seq(Filter)
  BY <1>1, PartIs, GoodListsAre DEF FilterInv
<1>3. st \in State /\ NoneFits(st)
  BY <1>2, AllStuck, Zenon
<1> HIDE DEF st
<1>4. ASSUME NEW f \in ToSet(st.left)
      PROVE  ~(Deps[f] \subseteq NamesIn(st.out))
  <2>1. PICK i \in 1 .. Len(st.left) : f = st.left[i]
    BY <1>3 DEF ToSet, State
  <2> QED
    BY <1>3, <2>1 DEF NoneFits, CanRegister
<1> QED
  BY <1>4 DEF st

\* In every reachable state the list of each phase is one in which no filter is listed
\* twice or in front of a filter it depends on, and from which unregisterFilter takes no
\* filter that has dependencies (GoodLists): the inductive invariant of the filters.
THEOREM FiltersInvariant ==
    ASSUME DistinctFilterNames
    PROVE  FiltersSpec => []FilterInv
<1>1. FilterInv /\ [FiltersNext]_filterVars => FilterInv'
  BY FiltersStep
<1> QED
  BY <1>1, FiltersStart, PTL DEF FiltersSpec

\* Messages pass a filter's dependencies before the filter, a filter is left out only when
\* its dependencies cannot be met, and a group that goes, or fails to come, takes its
\* filters without dependencies with it.
THEOREM FiltersSafe ==
    ASSUME DistinctFilterNames
    PROVE  FiltersSpec => FiltersKept
<1>1. FilterInv => FiltersTypeOK /\ DependenciesFirst /\ LeftOutForAReason
  BY OrderedFirst, StuckForAReason
<1>2. FilterInv => [RootsGoWithTheirGroup]_filterVars
  <2> SUFFICES ASSUME FilterInv, NEW g \in Group,
                      (Fits(g) /\ DeployFiltersFails(g)) \/ UndeployFilters(g)
               PROVE  Rootless(g)
    BY Zenon DEF RootsGoWithTheirGroup, Rootless
  <2>1. CASE Fits(g) /\ DeployFiltersFails(g)
    BY <2>1, FailsGood
  <2>2. CASE UndeployFilters(g)
    BY <2>2, UndeploysGood
  <2> QED
    BY <2>1, <2>2
<1> QED
  BY <1>1, <1>2, FiltersInvariant, PTL DEF FiltersKept
================================================================================
