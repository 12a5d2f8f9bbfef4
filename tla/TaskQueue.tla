------------------------------ MODULE TaskQueue ------------------------------
(***************************************************************************)
(* The task queue of ngrest's own server (src/core/server/src/Server.cpp): *)
(* Server::post, called by other threads, by the handlers of socket events *)
(* and by tasks, against the part of Server::exec that runs the tasks.     *)
(* With NGREST_THREAD_LOCK the queue has a mutex and hasTasks, a flag read *)
(* without the mutex; otherwise only the thread of the loop may post.      *)
(***************************************************************************)
EXTENDS Naturals, Sequences, FiniteSets

CONSTANTS
    Worker,      \* the threads other than the loop's
    Main,        \* the thread of the loop
    Task,
    NoTask,
    Follow,      \* Follow[t]: the task that t posts when it runs, or NoTask
    QueueBound   \* bound of the model: no thread starts to post beyond it

ASSUME ThreadsAssumption == Main \notin Worker /\ "nobody" \notin Worker \cup {Main}
ASSUME TasksAssumption ==
    /\ NoTask \notin Task
    /\ Follow \in [Task -> Task \cup {NoTask}]
ASSUME BoundAssumption == QueueBound \in Nat \ {0}

VARIABLES
    build,       \* how the program was compiled: with locks, with epoll
    taskQueue,
    hasTasks,
    mutex,       \* the thread that holds Server::mutex, or NoThread
    isStopping,
    pc,          \* where each thread is
    arg,         \* the task a thread is posting
    from,        \* where the loop's thread called post
    task,        \* the local variable of exec
    latest       \* history: the task run last

taskVars == <<build, taskQueue, hasTasks, mutex, isStopping, pc, arg, from, task, latest>>

Thread == Worker \cup {Main}
NoThread == "nobody"
Build == [lock: BOOLEAN, poll: {"epoll", "select"}]
PostSite == {"lock", "flag", "push", "unlock"}
Site == PostSite \cup {"idle", "poll", "events", "check", "take", "clear",
                       "drain", "pop", "run", "left", "down"}

\* hasTasks is a std::atomic<bool> that no constructor sets, Server.h line 123.
TaskInit ==
    /\ build \in Build
    /\ taskQueue = <<>>
    /\ hasTasks \in BOOLEAN
    /\ mutex = NoThread
    /\ isStopping = FALSE
    /\ pc = [th \in Thread |-> IF th = Main THEN "poll" ELSE "idle"]
    /\ arg = [th \in Thread |-> NoTask]
    /\ from = "events"
    /\ task = NoTask
    /\ latest = <<>>

GoTo(th, site) == pc' = [pc EXCEPT ![th] = site]

-----------------------------------------------------------------------------
(* Server::post, lines 335-347.                                            *)

\* Mutation of PostLock: the mutex is not taken.
PostWithoutLock(th) ==
    /\ pc[th] = "lock"
    /\ GoTo(th, IF build.lock THEN "flag" ELSE "push")
    /\ UNCHANGED <<build, taskQueue, hasTasks, mutex, isStopping, arg, from, task, latest>>

\* The mutex is not recursive: a thread that holds it waits for itself.
PostLock(th) ==
    /\ pc[th] = "lock"
    /\ IF build.lock
       THEN mutex = NoThread /\ mutex' = th /\ GoTo(th, "flag")
       ELSE GoTo(th, "push") /\ UNCHANGED mutex
    /\ UNCHANGED <<build, taskQueue, hasTasks, isStopping, arg, from, task, latest>>

\* Mutation of PostFlag: the flag is not set.
PostUnflagged(th) ==
    /\ pc[th] = "flag"
    /\ GoTo(th, "push")
    /\ UNCHANGED <<build, taskQueue, hasTasks, mutex, isStopping, arg, from, task, latest>>

PostFlag(th) ==
    /\ pc[th] = "flag"
    /\ hasTasks' = TRUE
    /\ GoTo(th, "push")
    /\ UNCHANGED <<build, taskQueue, mutex, isStopping, arg, from, task, latest>>

PostPush(th) ==
    /\ pc[th] = "push"
    /\ taskQueue' = Append(taskQueue, arg[th])
    /\ GoTo(th, "unlock")
    /\ UNCHANGED <<build, hasTasks, mutex, isStopping, arg, from, task, latest>>

\* post returns to its caller; a lock_guard releases the mutex.
PostUnlock(th) ==
    /\ pc[th] = "unlock"
    /\ mutex' = IF build.lock THEN NoThread ELSE mutex
    /\ GoTo(th, IF th = Main THEN from ELSE "idle")
    /\ arg' = [arg EXCEPT ![th] = NoTask]
    /\ UNCHANGED <<build, taskQueue, hasTasks, isStopping, from, task, latest>>

PostStep(th) == PostLock(th) \/ PostFlag(th) \/ PostPush(th) \/ PostUnlock(th)

Posting == {th \in Thread : pc[th] \in PostSite}

\* A bound of the model.
Room == Len(taskQueue) + Cardinality(Posting) < QueueBound

CallPost(th, t, back) ==
    /\ arg' = [arg EXCEPT ![th] = t]
    /\ GoTo(th, "lock")
    /\ from' = IF th = Main THEN back ELSE from
    /\ UNCHANGED <<build, taskQueue, hasTasks, mutex, isStopping, task, latest>>

\* Another thread posts: "thread-safe if ngrest is compiled with
\* WITH_THREAD_LOCK", Looper.h line 44.
WorkerPosts(w, t) ==
    /\ build.lock /\ pc[w] = "idle" /\ Room
    /\ CallPost(w, t, "idle")

-----------------------------------------------------------------------------
(* Server::exec, lines 194-307.                                            *)

\* The loop's condition and the return of epoll_wait or select, which comes
\* after NGREST_EVENT_LOOP_CHECK_PERIOD at the latest.
Poll ==
    /\ pc[Main] = "poll"
    /\ GoTo(Main, IF isStopping THEN "left" ELSE "events")
    /\ UNCHANGED <<build, taskQueue, hasTasks, mutex, isStopping, arg, from, task, latest>>

\* A signal interrupts select: exec returns EXIT_FAILURE, lines 243-247.
\* (epoll_wait returns -1 and the loop goes on with no events.)
PollInterrupted ==
    /\ pc[Main] = "poll" /\ build.poll = "select"
    /\ GoTo(Main, "down")
    /\ UNCHANGED <<build, taskQueue, hasTasks, mutex, isStopping, arg, from, task, latest>>

\* A service called by the handler of a socket posts a task.
EventPosts(t) ==
    /\ pc[Main] = "events" /\ Room
    /\ CallPost(Main, t, "events")

EventsDone ==
    /\ pc[Main] = "events"
    /\ GoTo(Main, IF build.lock THEN "check" ELSE "drain")
    /\ UNCHANGED <<build, taskQueue, hasTasks, mutex, isStopping, arg, from, task, latest>>

CheckFlag ==
    /\ pc[Main] = "check"
    /\ GoTo(Main, IF hasTasks THEN "take" ELSE "poll")
    /\ UNCHANGED <<build, taskQueue, hasTasks, mutex, isStopping, arg, from, task, latest>>

TakeLock ==
    /\ pc[Main] = "take" /\ mutex = NoThread
    /\ mutex' = Main
    /\ GoTo(Main, "clear")
    /\ UNCHANGED <<build, taskQueue, hasTasks, isStopping, arg, from, task, latest>>

ClearFlag ==
    /\ pc[Main] = "clear"
    /\ hasTasks' = FALSE
    /\ GoTo(Main, "drain")
    /\ UNCHANGED <<build, taskQueue, mutex, isStopping, arg, from, task, latest>>

TakeFront ==
    /\ pc[Main] = "drain" /\ taskQueue # <<>>
    /\ task' = Head(taskQueue)
    /\ GoTo(Main, "pop")
    /\ UNCHANGED <<build, taskQueue, hasTasks, mutex, isStopping, arg, from, latest>>

\* Mutation of Pop: the task stays in the queue.
PopForgotten ==
    /\ pc[Main] = "pop"
    /\ GoTo(Main, "run")
    /\ UNCHANGED <<build, taskQueue, hasTasks, mutex, isStopping, arg, from, task, latest>>

Pop ==
    /\ pc[Main] = "pop"
    /\ taskQueue' = Tail(taskQueue)
    /\ GoTo(Main, "run")
    /\ UNCHANGED <<build, hasTasks, mutex, isStopping, arg, from, task, latest>>

\* A task that posts another one calls post while exec holds the mutex.
RunPosting ==
    /\ pc[Main] = "run" /\ Follow[task] # NoTask
    /\ latest' = <<task>>
    /\ arg' = [arg EXCEPT ![Main] = Follow[task]]
    /\ from' = "drain"
    /\ GoTo(Main, "lock")
    /\ UNCHANGED <<build, taskQueue, hasTasks, mutex, isStopping, task>>

RunTask ==
    /\ pc[Main] = "run" /\ Follow[task] = NoTask
    /\ latest' = <<task>>
    /\ GoTo(Main, "drain")
    /\ UNCHANGED <<build, taskQueue, hasTasks, mutex, isStopping, arg, from, task>>

\* Nothing in exec catches what a task throws.
RunThrows ==
    /\ pc[Main] = "run"
    /\ latest' = <<task>>
    /\ mutex' = NoThread
    /\ GoTo(Main, "down")
    /\ UNCHANGED <<build, taskQueue, hasTasks, isStopping, arg, from, task>>

Drained ==
    /\ pc[Main] = "drain" /\ taskQueue = <<>>
    /\ mutex' = NoThread
    /\ GoTo(Main, "poll")
    /\ UNCHANGED <<build, taskQueue, hasTasks, isStopping, arg, from, task, latest>>

\* Server::quit, lines 313-316, from a signal handler.
Quit ==
    /\ isStopping' = TRUE
    /\ UNCHANGED <<build, taskQueue, hasTasks, mutex, pc, arg, from, task, latest>>

LoopStep ==
    \/ Poll \/ EventsDone \/ CheckFlag \/ TakeLock \/ ClearFlag
    \/ TakeFront \/ Pop \/ RunPosting \/ RunTask \/ Drained

TaskNext ==
    \/ LoopStep \/ PollInterrupted \/ RunThrows \/ Quit
    \/ \E t \in Task : EventPosts(t)
    \/ \E w \in Worker, t \in Task : WorkerPosts(w, t)
    \/ \E th \in Thread : PostStep(th)

TaskSpec == TaskInit /\ [][TaskNext]_taskVars

\* No thread halts between two steps, and a thread that waits for a mutex that
\* is released again and again is woken with it at some time.
TaskFairness ==
    /\ WF_taskVars(LoopStep)
    /\ SF_taskVars(TakeLock)
    /\ \A th \in Thread : WF_taskVars(PostStep(th)) /\ SF_taskVars(PostLock(th))

FairTaskSpec == TaskSpec /\ TaskFairness

-----------------------------------------------------------------------------
(* Types.                                                                  *)
TaskTypeOK ==
    /\ build \in Build
    /\ taskQueue \in Seq(Task)
    /\ hasTasks \in BOOLEAN
    /\ mutex \in Thread \cup {NoThread}
    /\ isStopping \in BOOLEAN
    /\ pc \in [Thread -> Site]
    /\ arg \in [Thread -> Task \cup {NoTask}]
    /\ from \in {"events", "drain"}
    /\ task \in Task \cup {NoTask}
    /\ latest \in Seq(Task)

\* The threads inside the code that uses the queue, or the flag under the mutex.
AtQueue == {th \in Thread : pc[th] \in {"flag", "push", "unlock", "clear", "drain", "pop", "run"}}

\* std::queue is not safe for two threads: at most one is at the queue, and with
\* locks it is the one that holds the mutex (lines 296-307 and 337-346).
QueueExclusive ==
    /\ \A a, b \in AtQueue : a = b
    /\ build.lock => \A th \in AtQueue : mutex = th

\* No wake-up is lost: whenever the loop is not at its tasks and no post is
\* under way, a task in the queue has the flag set, although the flag is read
\* without the mutex and the queue is filled after it (lines 295-297, 338-346).
NoLostWakeup ==
    build.lock /\ pc[Main] \in {"poll", "events", "check", "take", "left"}
               /\ Posting = {} /\ taskQueue # <<>>
        => hasTasks

\* Without locks the loop leaves no task behind when it was told to quit, at
\* whatever point the signal came (lines 196, 298-303, 313-316).
QuitRunsTasks == ~build.lock /\ pc[Main] = "left" => taskQueue = <<>>

\* What threads that post, the loop that drains the queue and the signal that
\* ends it keep, at any step of any of them.
QueueInv == TaskTypeOK /\ QueueExclusive /\ NoLostWakeup /\ QuitRunsTasks

\* The loop's thread waits for the mutex it holds: a task has called post.
Stuck == pc[Main] = "lock" /\ build.lock /\ mutex = Main

Ended == Stuck \/ pc[Main] \in {"left", "down"}

\* Looper.h line 44 calls post thread-safe in a build with locks: no thread
\* waits for itself.  (A task that posts a task does: lines 296 and 338.)
PostIsThreadSafe == ~Stuck

\* post returns to every thread that has called it, unless the loop is stuck.
PostReturns == \A th \in Thread : (th \in Posting) ~> (th \notin Posting \/ Stuck)

\* A task that has been posted runs, unless the loop is stuck or has ended:
\* tasks that post tasks do not keep it from running.
PostedTasksRun ==
    \A t \in Task : (\E i \in DOMAIN taskQueue : taskQueue[i] = t) ~> (latest = <<t>> \/ Ended)

\* Both: post returns, and what was posted runs.
PostsArrive == PostReturns /\ PostedTasksRun

\* A task whose posts lead back to itself.
Recurring == {t \in Task : Follow[t] = t}

\* The loop comes back to its sockets for ever, unless it has ended or a task
\* that posts itself is in the queue from some time on: the tasks that other
\* threads and the sockets' handlers post do not keep it (lines 299-303).
ReturnsToSockets ==
    \/ []<>(pc[Main] = "poll")
    \/ <>Ended
    \/ <>[](task \in Recurring)

\* What the loop has taken from the queue and not yet run is still due.
Due == IF pc[Main] = "run" THEN <<task>> \o taskQueue ELSE taskQueue

Promise == INSTANCE Tasks WITH due <- Due

\* Every task posted runs once, in the order of the posts, with and without
\* locks and for all interleavings of the threads.
RunsInOrderOfPosts == Promise!Spec
==============================================================================
