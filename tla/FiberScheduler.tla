--------------------------- MODULE FiberScheduler ---------------------------
(***************************************************************************)
(* The fiber scheduler of the Absolute runtime                             *)
(* (Absolute-Runtime/src/tasks.cpp, class Scheduler, Wait, delay, the      *)
(* blocking-I/O suspension, spawn, await and destroy).                     *)
(*                                                                         *)
(* A fixed set of worker threads runs tasks, each on a fiber of its own.   *)
(* A task that has not started may be run by any worker; once started it   *)
(* is pinned to the worker whose stack root its fiber switches to.  A      *)
(* fiber that must wait marks itself Suspending, hands its Task pointer to *)
(* a waker (a timer, another task's completion list, an I/O thread) and    *)
(* switches back to its worker, which then settles the suspension: the     *)
(* waker may have fired in between, and then left wakePending behind.      *)
(*                                                                         *)
(* Granularity.  One action per critical section of Scheduler::mutex or    *)
(* Task::mutex, and one per stretch of code that runs under neither.       *)
(* available.notify_all() follows the unlock of a section that added work; *)
(* here it is part of that section: a worker that locks the mutex after    *)
(* the section sees the new work, so it cannot park in between.            *)
(* Task::suspensionActive is set and cleared with state Suspended in the   *)
(* same sections and has no variable of its own.  Which lane a worker      *)
(* takes from (priority, role, FIFO order) is left open here.              *)
(***************************************************************************)
EXTENDS Integers, FiniteSets

CONSTANTS
    Tasks,           \* Task objects the program may create
    Workers,         \* scheduler threads
    Main,            \* the program's main thread, which is not a worker
    None,            \* "no worker", "no task", "no holder"
    MaxSuspensions   \* bound: delays and I/O calls a single task may make

ASSUME ConstantsAssumption ==
    /\ IsFiniteSet(Tasks)
    /\ IsFiniteSet(Workers)
    /\ Main \notin Tasks
    /\ None \notin Tasks \cup Workers \cup {Main}
    /\ MaxSuspensions \in Nat

VARIABLES
    state,           \* Task::state; Pending before spawn, Deleted after delete
    ownerWorker,     \* Task::ownerWorker, None until the first slice
    wakePending,     \* the tasks whose wakePending flag is set
    waiters,         \* Task::completionWaiters
    fiber,           \* what the task's fiber does when it holds a worker
    awaiting,        \* the task a fiber is inside Wait() for
    holder,          \* who holds the task's handle, itself or in its group
    suspensions,     \* suspensions made so far (bounded by MaxSuspensions)
    ready,           \* WorkerQueue::ready, stealable
    pinned,          \* WorkerQueue::pinned, never stolen
    queued,          \* Scheduler::queued
    timers,          \* tasks in the timer heap
    due,             \* timers whose deadline has passed
    blockingIo,      \* tasks an I/O thread will resume
    pc,              \* control point of each worker thread
    cur,             \* the task in a worker's hands
    resuming,        \* waiters a finishing worker has still to resume
    sleepsUntil,     \* the timers a parked worker's wait_until covers
    main,            \* control point of the main thread
    stopping,        \* Scheduler::stopping
    suspendedTasks,  \* the gauge of the same name
    completedTasks   \* the counter of the same name

taskVars   == <<state, ownerWorker, wakePending, waiters, fiber, awaiting,
                holder, suspensions>>
queueVars  == <<ready, pinned, queued, timers, due, blockingIo>>
workerVars == <<pc, cur, resuming, sleepsUntil>>
mainVars   == <<main, stopping>>
gauges     == <<suspendedTasks, completedTasks>>
vars       == <<taskVars, queueVars, workerVars, mainVars, gauges>>

Spawned(t)  == state[t] # "Pending"
Consumed(t) == state[t] = "Deleted"

\* A handle is a linear token.  The compiler destroys every task variable and
\* every TaskGroup, and with it the handles in the group, where its scope
\* ends: p returns from its function with nothing left to consume.
HandlesConsumed(p) == \A c \in Tasks : holder[c] = p => Consumed(c)

\* Whoever waits, in the end, for t: its holder, the holder's holder and so on,
\* the least set with holder[t] that is closed under holder.  Groups are passed
\* down to the tasks in them, so these are the parties whose groups t may know.
Elders(t) ==
    {p \in Tasks \cup {Main} : \A S \in SUBSET (Tasks \cup {Main}) :
        holder[t] \in S /\ (\A u \in S \ {Main} : holder[u] \in S) => p \in S}

-----------------------------------------------------------------------------
Init ==
    /\ state = [t \in Tasks |-> "Pending"]
    /\ ownerWorker = [t \in Tasks |-> None]
    /\ wakePending = {}
    /\ waiters = [t \in Tasks |-> {}]
    /\ fiber = [t \in Tasks |-> "code"]
    /\ awaiting = [t \in Tasks |-> None]
    /\ holder = [t \in Tasks |-> None]
    /\ suspensions = [t \in Tasks |-> 0]
    /\ ready = [w \in Workers |-> {}]
    /\ pinned = [w \in Workers |-> {}]
    /\ queued = 0
    /\ timers = {}
    /\ due = {}
    /\ blockingIo = {}
    /\ pc = [w \in Workers |-> "fetch"]
    /\ cur = [w \in Workers |-> None]
    /\ resuming = [w \in Workers |-> {}]
    /\ sleepsUntil = [w \in Workers |-> {}]
    /\ main = "run"
    /\ stopping = FALSE
    /\ suspendedTasks = 0
    /\ completedTasks = 0

-----------------------------------------------------------------------------
(* Waking.  WakeLocked looks at every task of a set D: a Suspending one is  *)
(* only flagged, a Suspended one becomes Runnable on its owner's pinned     *)
(* queue, any other is left alone.  A definition marked Fault is a broken   *)
(* variant of the one that follows it; nothing here uses it.                *)

\* Fault: a wake-up that arrives before the fiber has switched is forgotten.
FlaggedNever(D) == {}

Flagged(D) == {t \in D : state[t] = "Suspending"}

\* Fault: a task still on its way to its worker's stack is made runnable.
RevivedTooEarly(D) == {t \in D : state[t] \in {"Suspending", "Suspended"}}

Revived(D) == {t \in D : state[t] = "Suspended"}

\* Fault: the queue is chosen without looking at ownerWorker.
PinnedAnywhere(D) ==
    LET chosen == CHOOSE w \in Workers : TRUE IN
    [w \in Workers |-> pinned[w] \cup {t \in Revived(D) : w = chosen}]

PinnedAfterWake(D) ==
    [w \in Workers |-> pinned[w] \cup {t \in Revived(D) : ownerWorker[t] = w}]

\* Fault: every wake-up is counted as an enqueue.
QueuedPerWake(D) == queued + Cardinality(D)

QueuedAfterWake(D) == queued + Cardinality(Revived(D))

\* The part of WakeLocked that does not touch the queues.
WakeTasks(D) ==
    /\ state' = [t \in Tasks |-> IF t \in Revived(D) THEN "Runnable" ELSE state[t]]
    /\ wakePending' = wakePending \cup Flagged(D)
    /\ suspendedTasks' = suspendedTasks - Cardinality(Revived(D))

\* Scheduler::Resume for every task of D, without its notification.
Resume(D) ==
    /\ WakeTasks(D)
    /\ pinned' = PinnedAfterWake(D)
    /\ queued' = QueuedAfterWake(D)

\* Fault: notify_one, which may wake a worker the task is not pinned to.
OneNotified ==
    LET sleeping == {w \in Workers : pc[w] = "parked"} IN
    IF sleeping = {} THEN pc ELSE [pc EXCEPT ![CHOOSE w \in sleeping : TRUE] = "fetch"]

\* available.notify_all(): every parked worker goes back to its loop.
Notified == [w \in Workers |-> IF pc[w] = "parked" THEN "fetch" ELSE pc[w]]
NotifyProgress == pc' = Notified

\* The same, by a worker that goes on to the control point `next'.
NotifyAndGo(w, next) == pc' = [Notified EXCEPT ![w] = next]

-----------------------------------------------------------------------------
(* The worker's loop (Run).  Each of its actions is one pass of the loop    *)
(* under Scheduler::mutex and begins with PromoteTimersLocked.              *)

PromoteTimersLocked(w) ==
    /\ pc[w] = "fetch"
    /\ WakeTasks(due)
    /\ timers' = timers \ due
    /\ due' = {}
    /\ UNCHANGED <<ownerWorker, waiters, fiber, awaiting, holder, suspensions,
                   blockingIo, resuming, main, stopping, completedTasks>>

LocalWork(w) == ready[w] \cup PinnedAfterWake(due)[w]
StealableWork(w) == UNION {ready[v] : v \in Workers \ {w}}

\* Fault: the worker leaves with the last work taken even before `stopping'.
TakeWorkAndLeave(w, t) ==
    /\ queued' = QueuedAfterWake(due) - 1
    /\ IF queued' = 0
       THEN NotifyAndGo(w, "exited") /\ UNCHANGED cur
       ELSE pc' = [pc EXCEPT ![w] = "start"] /\ cur' = [cur EXCEPT ![w] = t]
    /\ UNCHANGED sleepsUntil

\* ConsumeQueuedLocked and the tests after the inner loop: the last work
\* taken after `stopping' is not executed, the worker leaves with it.
TakeWork(w, t) ==
    /\ queued' = QueuedAfterWake(due) - 1
    /\ IF stopping /\ queued' = 0
       THEN NotifyAndGo(w, "exited") /\ UNCHANGED cur
       ELSE pc' = [pc EXCEPT ![w] = "start"] /\ cur' = [cur EXCEPT ![w] = t]
    /\ UNCHANGED sleepsUntil

TakeLocal(w) ==
    /\ PromoteTimersLocked(w)
    /\ \E t \in LocalWork(w) :
        /\ TakeWork(w, t)
        /\ ready' = [ready EXCEPT ![w] = @ \ {t}]
        /\ pinned' = [PinnedAfterWake(due) EXCEPT ![w] = @ \ {t}]

\* Only when the worker has nothing of its own, and only unstarted tasks.
Steal(w) ==
    /\ PromoteTimersLocked(w)
    /\ LocalWork(w) = {}
    /\ \E v \in Workers \ {w} : \E t \in ready[v] :
        /\ TakeWork(w, t)
        /\ ready' = [ready EXCEPT ![v] = @ \ {t}]
    /\ pinned' = PinnedAfterWake(due)

NothingToTake(w) ==
    /\ PromoteTimersLocked(w)
    /\ LocalWork(w) = {}
    /\ StealableWork(w) = {}
    /\ pinned' = PinnedAfterWake(due)
    /\ queued' = QueuedAfterWake(due)
    /\ UNCHANGED <<ready, cur>>

\* available.wait when no timer is left, otherwise wait_until the earliest.
Park(w) ==
    /\ NothingToTake(w)
    /\ ~ (stopping /\ queued' = 0)
    /\ pc' = [pc EXCEPT ![w] = "parked"]
    /\ sleepsUntil' = [sleepsUntil EXCEPT ![w] = timers']

Exit(w) ==
    /\ NothingToTake(w)
    /\ stopping /\ queued' = 0
    /\ pc' = [pc EXCEPT ![w] = "exited"]
    /\ UNCHANGED sleepsUntil

\* Execute up to the switch to the fiber.
StartSlice(w) ==
    /\ pc[w] = "start"
    /\ LET t == cur[w] IN
        /\ ownerWorker' = [ownerWorker EXCEPT ![t] = IF @ = None THEN w ELSE @]
        /\ state' = [state EXCEPT ![t] = "Running"]
        /\ fiber' = [fiber EXCEPT ![t] = "code"]
    /\ pc' = [pc EXCEPT ![w] = "fiber"]
    /\ UNCHANGED <<wakePending, waiters, awaiting, holder, suspensions,
                   queueVars, cur, resuming, sleepsUntil, mainVars, gauges>>

-----------------------------------------------------------------------------
(* What the running fiber does.  A fiber inside Wait() does nothing else    *)
(* until the awaited task is done.                                          *)

\* t is the task of worker w and its fiber stands at point f.
InFiber(w, t, f) == pc[w] = "fiber" /\ cur[w] = t /\ fiber[t] = f

InUserCode(w, t) == InFiber(w, t, "code") /\ awaiting[t] = None

\* absolute_task_spawn_config and Submit from inside a task: the child goes
\* to the ready queue of the spawning worker.
Spawn(w, t, c) ==
    /\ InUserCode(w, t)
    /\ ~ Spawned(c)
    /\ state' = [state EXCEPT ![c] = "Runnable"]
    /\ holder' = [holder EXCEPT ![c] = t]
    /\ ready' = [ready EXCEPT ![w] = @ \cup {c}]
    /\ queued' = queued + 1
    /\ NotifyProgress
    /\ UNCHANGED <<ownerWorker, wakePending, waiters, fiber, awaiting,
                   suspensions, pinned, timers, due, blockingIo, cur, resuming,
                   sleepsUntil, mainVars, gauges>>

\* absolute_task_group_add: the task puts a handle it holds into an open group
\* that was passed to it, one of its holder's or of another elder's, done or
\* not, and may itself complete before that task does.  Put into a group of its
\* own the handle stays where it is, and a closed group makes the adder await
\* the task at once.  Which group a handle is in is the matter of TaskGroups:
\* here every handle held can move on.
HandOver(w, t, c) ==
    /\ InUserCode(w, t)
    /\ holder[c] = t
    /\ ~ Consumed(c)
    /\ \E p \in Elders(t) : holder' = [holder EXCEPT ![c] = p]
    /\ UNCHANGED <<state, ownerWorker, wakePending, waiters, fiber, awaiting,
                   suspensions, queueVars, workerVars, mainVars, gauges>>

\* Wait() finds the task done; await, destroy or the join of the group it is
\* in then deletes it.
AwaitReturns(w, t, c) ==
    /\ InFiber(w, t, "code")
    /\ holder[c] = t
    /\ awaiting[t] \in {None, c}
    /\ state[c] = "Done"
    /\ state' = [state EXCEPT ![c] = "Deleted"]
    /\ awaiting' = [awaiting EXCEPT ![t] = None]
    /\ UNCHANGED <<ownerWorker, wakePending, waiters, fiber, holder,
                   suspensions, queueVars, workerVars, mainVars, gauges>>

\* Wait() finds it not done: the fiber registers and marks itself
\* Suspending while it still holds the awaited task's mutex.
AwaitBlocks(w, t, c) ==
    /\ InFiber(w, t, "code")
    /\ holder[c] = t
    /\ awaiting[t] \in {None, c}
    /\ state[c] \notin {"Done", "Deleted"}
    /\ awaiting' = [awaiting EXCEPT ![t] = c]
    /\ waiters' = [waiters EXCEPT ![c] = @ \cup {t}]
    /\ state' = [state EXCEPT ![t] = "Suspending"]
    /\ fiber' = [fiber EXCEPT ![t] = "yield"]
    /\ UNCHANGED <<ownerWorker, wakePending, holder, suspensions, queueVars,
                   workerVars, mainVars, gauges>>

\* PrepareSuspend of a delay (and of each poll of await_timeout and
\* when_any), or of a blocking-I/O call: the waker is not yet armed.
PrepareSuspend(w, t, waker) ==
    /\ InUserCode(w, t)
    /\ suspensions[t] < MaxSuspensions
    /\ suspensions' = [suspensions EXCEPT ![t] = @ + 1]
    /\ state' = [state EXCEPT ![t] = "Suspending"]
    /\ fiber' = [fiber EXCEPT ![t] = waker]
    /\ UNCHANGED <<ownerWorker, wakePending, waiters, awaiting, holder,
                   queueVars, workerVars, mainVars, gauges>>

\* The rest of SuspendUntil.
ArmTimer(w, t) ==
    /\ InFiber(w, t, "timer")
    /\ timers' = timers \cup {t}
    /\ fiber' = [fiber EXCEPT ![t] = "yield"]
    /\ NotifyProgress
    /\ UNCHANGED <<state, ownerWorker, wakePending, waiters, awaiting, holder,
                   suspensions, ready, pinned, queued, due, blockingIo, cur,
                   resuming, sleepsUntil, mainVars, gauges>>

\* RunBlockingIoImpl submits its call, or SuspendForIo registers with the
\* reactor: from here on a foreign thread owns the wake-up.
SubmitIo(w, t) ==
    /\ InFiber(w, t, "io")
    /\ blockingIo' = blockingIo \cup {t}
    /\ fiber' = [fiber EXCEPT ![t] = "yield"]
    /\ UNCHANGED <<state, ownerWorker, wakePending, waiters, awaiting, holder,
                   suspensions, ready, pinned, queued, timers, due, workerVars,
                   mainVars, gauges>>

\* The entry function returns, past the end of its scopes.  A task it spawned
\* and handed over may still run.
Finish(w, t) ==
    /\ InUserCode(w, t)
    /\ HandlesConsumed(t)
    /\ fiber' = [fiber EXCEPT ![t] = "finished"]
    /\ UNCHANGED <<state, ownerWorker, wakePending, waiters, awaiting, holder,
                   suspensions, queueVars, workerVars, mainVars, gauges>>

-----------------------------------------------------------------------------
(* Back on the worker's stack: the second half of Execute.                  *)

\* The task finished.  Done, the completion counter and the hand-over of the
\* waiters happen under one hold of the task's mutex.
EpilogueDone(w, t) ==
    /\ InFiber(w, t, "finished")
    /\ state' = [state EXCEPT ![t] = "Done"]
    /\ completedTasks' = completedTasks + 1
    /\ resuming' = [resuming EXCEPT ![w] = waiters[t]]
    /\ waiters' = [waiters EXCEPT ![t] = {}]
    /\ cur' = [cur EXCEPT ![w] = None]
    /\ pc' = [pc EXCEPT ![w] = "resume"]
    /\ UNCHANGED <<ownerWorker, wakePending, fiber, awaiting, holder,
                   suspensions, queueVars, sleepsUntil, mainVars,
                   suspendedTasks>>

\* for (Task* waiter : waiters) Resume(waiter)
ResumeWaiter(w) ==
    /\ pc[w] = "resume"
    /\ \E t \in resuming[w] :
        /\ Resume({t})
        /\ resuming' = [resuming EXCEPT ![w] = @ \ {t}]
    /\ NotifyProgress
    /\ UNCHANGED <<ownerWorker, waiters, fiber, awaiting, holder, suspensions,
                   ready, timers, due, blockingIo, cur, sleepsUntil, mainVars,
                   completedTasks>>

ResumedAll(w) ==
    /\ pc[w] = "resume"
    /\ resuming[w] = {}
    /\ pc' = [pc EXCEPT ![w] = "fetch"]
    /\ UNCHANGED <<taskVars, queueVars, cur, resuming, sleepsUntil, mainVars,
                   gauges>>

\* The fiber suspended and no waker has fired yet.
EpilogueSuspend(w, t) ==
    /\ InFiber(w, t, "yield")
    /\ t \notin wakePending
    /\ state' = [state EXCEPT ![t] = "Suspended"]
    /\ suspendedTasks' = suspendedTasks + 1
    /\ cur' = [cur EXCEPT ![w] = None]
    /\ pc' = [pc EXCEPT ![w] = "fetch"]
    /\ UNCHANGED <<ownerWorker, wakePending, waiters, fiber, awaiting, holder,
                   suspensions, queueVars, resuming, sleepsUntil, mainVars,
                   completedTasks>>

\* Fault: the flag is left set, so that every later suspension returns at once.
EpilogueKeepsFlag(w, t) ==
    /\ InFiber(w, t, "yield")
    /\ t \in wakePending
    /\ state' = [state EXCEPT ![t] = "Runnable"]
    /\ pc' = [pc EXCEPT ![w] = "enqueue"]
    /\ UNCHANGED <<ownerWorker, wakePending, waiters, fiber, awaiting, holder,
                   suspensions, queueVars, cur, resuming, sleepsUntil, mainVars,
                   gauges>>

\* The waker was faster: the task is Runnable again without suspending ...
EpilogueWoken(w, t) ==
    /\ InFiber(w, t, "yield")
    /\ t \in wakePending
    /\ wakePending' = wakePending \ {t}
    /\ state' = [state EXCEPT ![t] = "Runnable"]
    /\ pc' = [pc EXCEPT ![w] = "enqueue"]
    /\ UNCHANGED <<ownerWorker, waiters, fiber, awaiting, holder, suspensions,
                   queueVars, cur, resuming, sleepsUntil, mainVars, gauges>>

\* ... and is enqueued under the scheduler's mutex, a step later.
EnqueueBack(w) ==
    /\ pc[w] = "enqueue"
    /\ LET t == cur[w] IN
        pinned' = [pinned EXCEPT ![ownerWorker[t]] = @ \cup {t}]
    /\ queued' = queued + 1
    /\ cur' = [cur EXCEPT ![w] = None]
    /\ NotifyAndGo(w, "fetch")
    /\ UNCHANGED <<taskVars, ready, timers, due, blockingIo, resuming,
                   sleepsUntil, mainVars, gauges>>

-----------------------------------------------------------------------------
(* The wakers outside the workers.                                          *)

\* Time passes the deadline of t's timer, and with it the wait_until of
\* every worker that parked while the timer was in the heap.
Expire(t) ==
    /\ t \in timers \ due
    /\ due' = due \cup {t}
    /\ pc' = [w \in Workers |->
                IF pc[w] = "parked" /\ t \in sleepsUntil[w]
                THEN "fetch" ELSE pc[w]]
    /\ UNCHANGED <<taskVars, ready, pinned, queued, timers, blockingIo, cur,
                   resuming, sleepsUntil, mainVars, gauges>>

\* An I/O thread finishes the call and resumes the task.
IoComplete(t) ==
    /\ t \in blockingIo
    /\ blockingIo' = blockingIo \ {t}
    /\ Resume({t})
    /\ NotifyProgress
    /\ UNCHANGED <<ownerWorker, waiters, fiber, awaiting, holder, suspensions,
                   ready, timers, due, cur, resuming, sleepsUntil, mainVars,
                   completedTasks>>

-----------------------------------------------------------------------------
(* The main thread, which is not a fiber: spawns round-robin (any worker),  *)
(* awaits on the task's condition variable, and destroys the scheduler when *)
(* the program returns.                                                     *)

MainSpawn(c) ==
    /\ main = "run"
    /\ ~ Spawned(c)
    /\ state' = [state EXCEPT ![c] = "Runnable"]
    /\ holder' = [holder EXCEPT ![c] = Main]
    /\ \E w \in Workers : ready' = [ready EXCEPT ![w] = @ \cup {c}]
    /\ queued' = queued + 1
    /\ NotifyProgress
    /\ UNCHANGED <<ownerWorker, wakePending, waiters, fiber, awaiting,
                   suspensions, pinned, timers, due, blockingIo, cur, resuming,
                   sleepsUntil, mainVars, gauges>>

\* Fault: await trusts `finished', which the fiber sets before the worker has
\* settled the task, instead of `done'.
MainAwaitFinished(c) ==
    /\ main = "run"
    /\ holder[c] = Main
    /\ fiber[c] = "finished" /\ ~ Consumed(c)
    /\ state' = [state EXCEPT ![c] = "Deleted"]
    /\ UNCHANGED <<ownerWorker, wakePending, waiters, fiber, awaiting, holder,
                   suspensions, queueVars, workerVars, mainVars, gauges>>

MainAwait(c) ==
    /\ main = "run"
    /\ holder[c] = Main
    /\ state[c] = "Done"
    /\ state' = [state EXCEPT ![c] = "Deleted"]
    /\ UNCHANGED <<ownerWorker, wakePending, waiters, fiber, awaiting, holder,
                   suspensions, queueVars, workerVars, mainVars, gauges>>

\* ~Scheduler up to the joins.  main returns with no handle left.
Shutdown ==
    /\ main = "run"
    /\ HandlesConsumed(Main)
    /\ main' = "joining"
    /\ stopping' = TRUE
    /\ NotifyProgress
    /\ UNCHANGED <<taskVars, queueVars, cur, resuming, sleepsUntil, gauges>>

MainJoin ==
    /\ main = "joining"
    /\ \A w \in Workers : pc[w] = "exited"
    /\ main' = "joined"
    /\ UNCHANGED <<taskVars, queueVars, workerVars, stopping, gauges>>

-----------------------------------------------------------------------------
FiberStep(w, t) ==
    \/ \E c \in Tasks : \/ Spawn(w, t, c)
                        \/ HandOver(w, t, c)
                        \/ AwaitReturns(w, t, c)
                        \/ AwaitBlocks(w, t, c)
    \/ PrepareSuspend(w, t, "timer")
    \/ PrepareSuspend(w, t, "io")
    \/ ArmTimer(w, t)
    \/ SubmitIo(w, t)
    \/ Finish(w, t)
    \/ EpilogueDone(w, t)
    \/ EpilogueSuspend(w, t)
    \/ EpilogueWoken(w, t)

WorkerStep(w) ==
    \/ TakeLocal(w)
    \/ Steal(w)
    \/ Park(w)
    \/ Exit(w)
    \/ StartSlice(w)
    \/ \E t \in Tasks : FiberStep(w, t)
    \/ ResumeWaiter(w)
    \/ ResumedAll(w)
    \/ EnqueueBack(w)

MainStep ==
    \/ \E c \in Tasks : MainSpawn(c) \/ MainAwait(c)
    \/ Shutdown
    \/ MainJoin

\* The process has ended.
Terminated == main = "joined" /\ UNCHANGED vars

Next ==
    \/ \E w \in Workers : WorkerStep(w)
    \/ \E t \in Tasks : Expire(t) \/ IoComplete(t)
    \/ MainStep
    \/ Terminated

\* Worker threads are scheduled by the operating system, deadlines pass, I/O
\* calls return and the main thread runs on.  Fiber code between two runtime
\* calls is assumed to end; a task calls the runtime finitely often here.
Fairness ==
    /\ \A w \in Workers : WF_vars(WorkerStep(w))
    /\ \A t \in Tasks : WF_vars(Expire(t)) /\ WF_vars(IoComplete(t))
    /\ WF_vars(MainStep)

Spec     == Init /\ [][Next]_vars
FairSpec == Spec /\ Fairness

-----------------------------------------------------------------------------
(* Properties *)

FiberPoints  == {"code", "timer", "io", "yield", "finished"}
TaskStates   == {"Pending", "Runnable", "Running", "Suspending", "Suspended",
                 "Done", "Deleted"}
WorkerPoints == {"fetch", "parked", "start", "fiber", "enqueue", "resume",
                 "exited"}

\* Every variable of the scheduler keeps its type.
TypeOK ==
    /\ state \in [Tasks -> TaskStates]
    /\ ownerWorker \in [Tasks -> Workers \cup {None}]
    /\ wakePending \in SUBSET Tasks
    /\ waiters \in [Tasks -> SUBSET Tasks]
    /\ fiber \in [Tasks -> FiberPoints]
    /\ awaiting \in [Tasks -> Tasks \cup {None}]
    /\ holder \in [Tasks -> Tasks \cup {Main, None}]
    /\ suspensions \in [Tasks -> Nat]
    /\ ready \in [Workers -> SUBSET Tasks]
    /\ pinned \in [Workers -> SUBSET Tasks]
    /\ queued \in Int
    /\ timers \in SUBSET Tasks
    /\ due \in SUBSET Tasks
    /\ blockingIo \in SUBSET Tasks
    /\ pc \in [Workers -> WorkerPoints]
    /\ cur \in [Workers -> Tasks \cup {None}]
    /\ resuming \in [Workers -> SUBSET Tasks]
    /\ sleepsUntil \in [Workers -> SUBSET Tasks]
    /\ main \in {"run", "joining", "joined"}
    /\ stopping \in BOOLEAN
    /\ suspendedTasks \in Int
    /\ completedTasks \in Int

\* The wakers that hold a pointer to t: the timer heap, an I/O thread, the
\* completion list of the task t awaits, a worker about to resume t.
InTimers(t)   == t \in timers
InIo(t)       == t \in blockingIo
InWaiters(t)  == \E c \in Tasks : t \in waiters[c]
InResuming(t) == \E w \in Workers : t \in resuming[w]
HasWaker(t)   == InTimers(t) \/ InIo(t) \/ InWaiters(t) \/ InResuming(t)

\* A suspended task is always in the hands of a waker that will still fire:
\* the wake-up that raced with the switch back to the worker (wakePending)
\* is never lost.
NoLostWakeup ==
    \A t \in Tasks :
        state[t] = "Suspended" =>
            \/ InTimers(t) \/ InIo(t) \/ InResuming(t)
            \/ \E c \in Tasks :
                  /\ t \in waiters[c]
                  /\ state[c] \notin {"Pending", "Done", "Deleted"}

\* A worker sleeps only when nothing it could run is queued, and then its
\* wait ends at the latest with the earliest timer in the heap; in
\* particular a timer promoted by another worker never leaves its task on
\* the pinned queue of a worker that sleeps on.
NoSleepingOnWork ==
    \A w \in Workers :
        pc[w] = "parked" =>
            /\ pinned[w] = {}
            /\ \A v \in Workers : ready[v] = {}
            /\ due = {}
            /\ timers \subseteq sleepsUntil[w]
            /\ ~ (stopping /\ queued = 0)

Queued(t) == \E w \in Workers : t \in ready[w] \/ t \in pinned[w]
Held(t)   == \E w \in Workers : cur[w] = t

\* A task is on at most one queue or in at most one worker's hands, so no
\* task is executed twice, whatever is stolen, resumed or promoted meanwhile.
OnePlace ==
    \A v, w \in Workers :
        /\ ready[v] \cap pinned[w] = {}
        /\ v # w => /\ ready[v] \cap ready[w] = {}
                    /\ pinned[v] \cap pinned[w] = {}
        /\ cur[v] \in Tasks =>
             /\ v # w => cur[v] # cur[w]
             /\ cur[v] \notin ready[w] \cup pinned[w]

\* A runnable task is always on a queue or in a worker's hands: although a
\* worker leaves with the last work it takes after `stopping', nothing is
\* dropped, because ~Scheduler runs only when every task has been consumed,
\* through whichever groups their handles have gone.
NoWorkDropped ==
    /\ \A t \in Tasks : state[t] = "Runnable" => Queued(t) \/ Held(t)
    /\ stopping => \A t \in Tasks : state[t] \in {"Pending", "Deleted"}

\* A started fiber is only ever queued for, and switched to by, the worker
\* it first ran on; only tasks without a fiber can be stolen.
StaysOnItsWorker ==
    \A t \in Tasks : \A w \in Workers :
        /\ t \in ready[w] => ownerWorker[t] = None
        /\ t \in pinned[w] => ownerWorker[t] = w
        /\ cur[w] = t /\ pc[w] # "start" => ownerWorker[t] = w
        /\ cur[w] = t => ownerWorker[t] \in {None, w}

\* A Task that its awaiter has deleted (or may delete, being Done) is
\* referenced by no queue, worker, waker or foreign thread.
NoDanglingReference ==
    \A t \in Tasks :
        state[t] \in {"Done", "Deleted"} =>
            ~ Queued(t) /\ ~ Held(t) /\ ~ HasWaker(t) /\ t \notin wakePending

\* The scheduler's counters agree with the state they summarise between any
\* two critical sections: for whoever holds the mutexes they are guarded by,
\* and for a program that has awaited a task, which is counted by then.  (A
\* snapshot reads them without a lock and may catch a section half done.)
GaugesExact ==
    /\ queued = Cardinality({t \in Tasks : Queued(t)})
    /\ suspendedTasks = Cardinality({t \in Tasks : state[t] = "Suspended"})
    /\ completedTasks =
          Cardinality({t \in Tasks : state[t] \in {"Done", "Deleted"}})

\* A suspended fiber runs again: every wake-up reaches the worker the fiber
\* is pinned to.
SuspendedRunsAgain ==
    \A t \in Tasks : state[t] = "Suspended" ~> state[t] = "Running"

\* The program ends: every spawned task is awaited, every worker leaves its
\* loop and ~Scheduler returns from the joins.
ProgramEnds == <>(main = "joined")

-----------------------------------------------------------------------------
(* The scheduler implements the contract of TaskContract. *)

phaseOf(t) ==
    CASE state[t] = "Pending" -> "none"
      [] state[t] = "Done"    -> "done"
      [] state[t] = "Deleted" -> "consumed"
      [] OTHER                -> "live"

Contract == INSTANCE TaskContract WITH
    phase    <- [t \in Tasks |-> phaseOf(t)],
    holder   <- holder,
    boundTo  <- ownerWorker,
    onWorker <- [w \in Workers |-> IF pc[w] = "fiber" THEN cur[w] ELSE None]

\* Every step of the scheduler is a step a task may take under the contract,
\* or changes nothing the program can see: a fiber never migrates, never runs
\* twice at once, and is consumed once, after it completed, by whoever holds
\* its handle after every hand-over; no handle is handed to a task that has
\* completed and so could not consume it.
ImplementsContract == Contract!Spec
=============================================================================
