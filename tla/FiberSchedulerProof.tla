------------------------ MODULE FiberSchedulerProof ------------------------
(***************************************************************************)
(* Proofs about FiberScheduler, for every set of tasks and workers: the    *)
(* type invariant, the safety invariants that follow from the inductive    *)
(* invariant IInv, and, from further invariants about who holds whose      *)
(* handle and the places of runnable tasks, that no work is dropped and    *)
(* that the scheduler's counters are exact.                                *)
(***************************************************************************)
EXTENDS FiberScheduler, FiniteSetTheorems, TLAPS

(* The inductive invariant, in parts. *)

\* A worker at a point of Execute has a task, in the state that point
\* expects, and nobody else has it.
WorkersInv ==
    /\ \A w \in Workers :
        /\ (cur[w] # None) <=> (pc[w] \in {"start", "fiber", "enqueue"})
        /\ pc[w] = "start" => /\ state[cur[w]] = "Runnable"
                              /\ ownerWorker[cur[w]] \in {None, w}
        /\ pc[w] = "fiber" => /\ ownerWorker[cur[w]] = w
                              /\ state[cur[w]] =
                                   IF fiber[cur[w]] \in {"code", "finished"}
                                   THEN "Running" ELSE "Suspending"
        /\ pc[w] = "enqueue" => /\ state[cur[w]] = "Runnable"
                                /\ ownerWorker[cur[w]] = w
        /\ resuming[w] # {} => pc[w] = "resume"
    /\ \A v, w \in Workers : cur[v] = cur[w] => v = w \/ cur[v] = None

\* The queues hold runnable tasks, each once, started ones with their owner.
QueuesInv ==
    /\ \A w \in Workers : \A t \in ready[w] :
        state[t] = "Runnable" /\ ownerWorker[t] = None
    /\ \A w \in Workers : \A t \in pinned[w] :
        state[t] = "Runnable" /\ ownerWorker[t] = w
    /\ \A v, w \in Workers : v # w => ready[v] \cap ready[w] = {}
    /\ \A v, w \in Workers : cur[v] \notin ready[w] \cup pinned[w]

\* Running and Suspending tasks have a worker.
FibersInv ==
    \A t \in Tasks :
        state[t] \in {"Running", "Suspending"} =>
            \E w \in Workers : cur[w] = t /\ pc[w] = "fiber"

\* t is about to yield or has yielded, and no waker has fired for it yet.
Waiting(t) ==
    /\ fiber[t] = "yield"
    /\ state[t] \in {"Suspending", "Suspended"}
    /\ t \notin wakePending

\* Wakers know only waiting tasks.
WakersInv ==
    /\ \A t \in timers \cup blockingIo : Waiting(t)
    /\ \A c \in Tasks : \A t \in waiters[c] : Waiting(t)
    /\ \A w \in Workers : \A t \in resuming[w] : Waiting(t)
    /\ \A t \in wakePending : fiber[t] = "yield" /\ state[t] = "Suspending"
    /\ due \subseteq timers

\* Every waiting task is known to a waker, and a suspended one is waiting.
WaitingInv ==
    \A t \in Tasks :
        /\ state[t] = "Suspended" => Waiting(t)
        /\ Waiting(t) => HasWaker(t)

\* No task is known to two wakers.
OneWakerInv ==
    \A t \in Tasks :
        /\ InTimers(t) => ~ InIo(t) /\ ~ InWaiters(t) /\ ~ InResuming(t)
        /\ InIo(t) => ~ InWaiters(t) /\ ~ InResuming(t)
        /\ InWaiters(t) => ~ InResuming(t)
        /\ \A c, d \in Tasks : t \in waiters[c] \cap waiters[d] => c = d
        /\ \A v, w \in Workers : t \in resuming[v] \cap resuming[w] => v = w

\* Completion lists belong to tasks that have not completed.
WaitersInv ==
    \A c \in Tasks :
        /\ waiters[c] # {} => state[c] \notin {"Pending", "Done", "Deleted"}
        /\ holder[c] # None <=> state[c] # "Pending"
        /\ state[c] = "Pending" => ownerWorker[c] = None /\ fiber[c] = "code"

IInv == /\ TypeOK
        /\ WorkersInv
        /\ QueuesInv
        /\ FibersInv
        /\ WakersInv
        /\ WaitingInv
        /\ OneWakerInv
        /\ WaitersInv

USE DEF IInv, TypeOK

-----------------------------------------------------------------------------
(* Lemmas about waking and promoting. *)
LEMMA RevivedType ==
    ASSUME NEW D \in SUBSET Tasks
    PROVE  Revived(D) \in SUBSET Tasks /\ Cardinality(Revived(D)) \in Nat
BY ConstantsAssumption, FS_Subset, FS_CardinalityType DEF Revived

\* What PromoteTimersLocked leaves behind, whatever the worker does next
\* under the same lock.
LEMMA PromoteStep ==
    ASSUME IInv, NEW w \in Workers, PromoteTimersLocked(w)
    PROVE  /\ WakersInv' /\ WaitingInv' /\ OneWakerInv' /\ WaitersInv'
           /\ state' \in [Tasks -> TaskStates]
           /\ wakePending' \in SUBSET Tasks
           /\ suspendedTasks' \in Int
           /\ QueuedAfterWake(due) \in Int
           /\ PinnedAfterWake(due) \in [Workers -> SUBSET Tasks]
           /\ \A u \in Tasks : \/ state'[u] = state[u]
                               \/ state[u] = "Suspended" /\ state'[u] = "Runnable"
           /\ \A v \in Workers : \A u \in ready[v] :
                state'[u] = "Runnable" /\ ownerWorker[u] = None
           /\ \A v \in Workers : \A u \in PinnedAfterWake(due)[v] :
                /\ state'[u] = "Runnable" /\ ownerWorker[u] = v
                /\ \A x \in Workers : cur[x] # u
<1> DEFINE R == Revived(due)
<1>1. R \in SUBSET Tasks /\ Cardinality(R) \in Nat
    BY RevivedType
<1>2. /\ \A u \in Tasks : u \in R <=> u \in due /\ state[u] = "Suspended"
      /\ \A u \in Tasks : state'[u] = IF u \in R THEN "Runnable" ELSE state[u]
      /\ \A u \in Tasks : u \in wakePending' <=>
            u \in wakePending \/ (u \in due /\ state[u] = "Suspending")
    BY <1>1 DEF Revived, Flagged, PromoteTimersLocked, WakeTasks
<1>3. /\ UNCHANGED <<fiber, ownerWorker, waiters, blockingIo, resuming, holder>>
      /\ timers' = timers \ due
      /\ due' = {}
    BY DEF PromoteTimersLocked
<1>4. /\ state' \in [Tasks -> TaskStates]
      /\ wakePending' \in SUBSET Tasks
      /\ suspendedTasks' \in Int
      /\ QueuedAfterWake(due) \in Int
      /\ PinnedAfterWake(due) \in [Workers -> SUBSET Tasks]
    BY <1>1 DEF Flagged, PromoteTimersLocked, WakeTasks, QueuedAfterWake,
                PinnedAfterWake, TaskStates
<1>5. \A v \in Workers : \A u \in ready[v] :
         state'[u] = "Runnable" /\ ownerWorker[u] = None
    BY <1>2 DEF QueuesInv
<1>6. \A v \in Workers : \A u \in PinnedAfterWake(due)[v] :
         /\ state'[u] = "Runnable" /\ ownerWorker[u] = v
         /\ \A x \in Workers : cur[x] # u
  <2>1. \A x \in Workers : cur[x] \notin R
    BY <1>1, <1>2, ConstantsAssumption DEF WorkersInv
  <2>2. \A v \in Workers : \A u \in pinned[v] :
          /\ state'[u] = "Runnable" /\ ownerWorker[u] = v
          /\ \A x \in Workers : cur[x] # u
    BY <1>2 DEF QueuesInv
  <2> QED BY <1>1, <1>2, <2>1, <2>2 DEF PinnedAfterWake
<1> HIDE DEF R
<1>7. WakersInv'
  <2>1. \A u \in Tasks : Waiting(u) /\ u \notin due => Waiting(u)'
    BY <1>1, <1>2, <1>3 DEF Waiting
  <2>2. \A u \in due : /\ u \notin blockingIo
                       /\ \A c \in Tasks : u \notin waiters[c]
                       /\ \A v \in Workers : u \notin resuming[v]
    BY DEF WakersInv, OneWakerInv, InTimers, InIo, InWaiters, InResuming
  <2>3. \A u \in wakePending' : fiber'[u] = "yield" /\ state'[u] = "Suspending"
    BY <1>2, <1>3, <1>4 DEF WakersInv, Waiting
  <2> QED BY <1>3, <2>1, <2>2, <2>3 DEF WakersInv
<1>8. WaitingInv'
  <2>1. \A u \in Tasks : Waiting(u)' => Waiting(u) /\ u \notin due
    BY <1>2, <1>3 DEF Waiting
  <2>2. \A u \in Tasks : HasWaker(u) /\ u \notin due => HasWaker(u)'
    BY <1>3 DEF HasWaker, InTimers, InIo, InWaiters, InResuming
  <2>3. \A u \in Tasks : state'[u] = "Suspended" => Waiting(u)'
    BY <1>1, <1>2, <1>3 DEF WaitingInv, Waiting
  <2> QED BY <2>1, <2>2, <2>3 DEF WaitingInv
<1>9. OneWakerInv'
    BY <1>3 DEF OneWakerInv, InTimers, InIo, InWaiters, InResuming
<1>10. WaitersInv'
    BY <1>2, <1>3 DEF WaitersInv
<1>11. QED
    BY <1>2, <1>4, <1>5, <1>6, <1>7, <1>8, <1>9, <1>10

\* Taking one task after promoting the due timers, wherever the task was.
LEMMA TakeStep ==
    ASSUME IInv, NEW w \in Workers, NEW t \in Tasks,
           PromoteTimersLocked(w), TakeWork(w, t),
           ready' \in [Workers -> SUBSET Tasks],
           pinned' \in [Workers -> SUBSET Tasks],
           \A v \in Workers : ready'[v] = ready[v] \ {t},
           \A v \in Workers : pinned'[v] = PinnedAfterWake(due)[v] \ {t},
           t \in PinnedAfterWake(due)[w] \/ \E v \in Workers : t \in ready[v]
    PROVE  IInv'
<1>1. /\ state'[t] = "Runnable"
      /\ ownerWorker[t] \in {None, w}
      /\ \A v \in Workers : cur[v] # t
    BY PromoteStep DEF QueuesInv
<1>2. \/ /\ pc' = [v \in Workers |-> IF v = w THEN "exited" ELSE
                       IF pc[v] = "parked" THEN "fetch" ELSE pc[v]]
         /\ cur' = cur
      \/ /\ pc' = [v \in Workers |-> IF v = w THEN "start" ELSE pc[v]]
         /\ cur' = [v \in Workers |-> IF v = w THEN t ELSE cur[v]]
    BY DEF TakeWork, NotifyAndGo, Notified
<1>3. TypeOK'
  <2>1. pc' \in [Workers -> WorkerPoints] /\ cur' \in [Workers -> Tasks \cup {None}]
    BY <1>2 DEF WorkerPoints
  <2> QED BY <2>1, PromoteStep DEF TakeWork, PromoteTimersLocked
<1>4. WorkersInv'
  <2>1. UNCHANGED <<fiber, ownerWorker, resuming>> /\ pc[w] = "fetch"
    BY DEF PromoteTimersLocked
  <2>2. ASSUME NEW v \in Workers, v # w
        PROVE  /\ cur'[v] = cur[v]
               /\ pc'[v] = pc[v] \/ (pc[v] = "parked" /\ pc'[v] = "fetch")
    BY <1>2, <2>2
  <2>3. \/ cur'[w] = None /\ pc'[w] = "exited"
        \/ cur'[w] = t /\ pc'[w] = "start"
    BY <1>2, <2>1 DEF WorkersInv
  <2>4. \A v \in Workers : cur[v] # None =>
            cur[v] \in Tasks /\ state'[cur[v]] = state[cur[v]]
    <3>1. \A v \in Workers : cur[v] # None =>
              cur[v] \in Tasks /\ state[cur[v]] # "Suspended"
      BY DEF WorkersInv
    <3>2. \A u \in Tasks : state'[u] = state[u] \/ state[u] = "Suspended"
      BY PromoteStep
    <3> QED BY <3>1, <3>2
  <2> QED
    BY <1>1, <2>1, <2>2, <2>3, <2>4, ConstantsAssumption DEF WorkersInv
<1>5. QueuesInv'
  <2>1. \A v \in Workers : cur'[v] \in {cur[v], t}
    BY <1>2
  <2>2. \A u \in Tasks : ownerWorker'[u] = ownerWorker[u]
    BY DEF PromoteTimersLocked
  <2> QED BY <2>1, <2>2, PromoteStep DEF QueuesInv
<1>6. FibersInv'
  <2>1. \A v \in Workers : pc[v] = "fiber" => cur'[v] = cur[v] /\ pc'[v] = "fiber"
    BY <1>2 DEF PromoteTimersLocked
  <2>2. \A u \in Tasks : state'[u] \in {"Running", "Suspending"} =>
            state'[u] = state[u]
    BY PromoteStep
  <2> QED BY <2>1, <2>2 DEF FibersInv
<1>7. QED
    BY <1>3, <1>4, <1>5, <1>6, PromoteStep

\* Promoting the due timers and finding nothing to take.
LEMMA NothingToTakeStep ==
    ASSUME IInv, NEW w \in Workers, NothingToTake(w),
           NEW next \in {"parked", "exited"},
           pc' = [pc EXCEPT ![w] = next],
           sleepsUntil' \in [Workers -> SUBSET Tasks]
    PROVE  IInv'
<1>1. /\ PromoteTimersLocked(w)
      /\ pinned' = PinnedAfterWake(due)
      /\ queued' = QueuedAfterWake(due)
      /\ UNCHANGED <<ready, cur>>
    BY DEF NothingToTake
<1>2. UNCHANGED <<fiber, ownerWorker, resuming>> /\ pc[w] = "fetch"
    BY <1>1 DEF PromoteTimersLocked
<1>3. TypeOK'
    BY <1>1, PromoteStep DEF PromoteTimersLocked, WorkerPoints
<1>4. WorkersInv'
  <2>1. \A v \in Workers : cur[v] # None =>
            cur[v] \in Tasks /\ state'[cur[v]] = state[cur[v]]
    BY <1>1, PromoteStep DEF WorkersInv
  <2> QED BY <1>1, <1>2, <2>1, ConstantsAssumption DEF WorkersInv
<1>5. QueuesInv'
    BY <1>1, <1>2, PromoteStep DEF QueuesInv
<1>6. FibersInv'
  <2>1. \A v \in Workers : pc[v] = "fiber" => pc'[v] = "fiber"
    BY <1>2
  <2> QED BY <1>1, <2>1, PromoteStep DEF FibersInv
<1>7. QED
    BY <1>1, <1>3, <1>4, <1>5, <1>6, PromoteStep

\* Resuming one task: the waker has let go of it, and it is woken.
LEMMA ResumeStep ==
    ASSUME IInv, NEW t \in Tasks, HasWaker(t), Resume({t}), ~ HasWaker(t)',
           blockingIo' \subseteq blockingIo, blockingIo \ {t} \subseteq blockingIo',
           resuming' \in [Workers -> SUBSET Tasks],
           \A v \in Workers : /\ resuming'[v] \subseteq resuming[v]
                              /\ resuming[v] \ {t} \subseteq resuming'[v],
           NotifyProgress,
           UNCHANGED <<ownerWorker, waiters, fiber, awaiting, holder,
                       suspensions, ready, timers, due, cur, sleepsUntil, main,
                       stopping, completedTasks>>
    PROVE  IInv'
<1>1. Waiting(t)
    BY DEF HasWaker, InTimers, InIo, InWaiters, InResuming, WakersInv
<1>2. /\ \A u \in Tasks : state'[u] = IF u = t /\ state[t] = "Suspended"
                                    THEN "Runnable" ELSE state[u]
      /\ \A u \in Tasks : u \in wakePending' <=>
            u \in wakePending \/ (u = t /\ state[t] = "Suspending")
      /\ \A v \in Workers : \A u \in Tasks : u \in pinned'[v] <=>
            u \in pinned[v] \/
            (u = t /\ state[t] = "Suspended" /\ ownerWorker[t] = v)
    BY DEF Resume, WakeTasks, PinnedAfterWake, Flagged, Revived
<1>3. \A v \in Workers : pc'[v] = IF pc[v] = "parked" THEN "fetch" ELSE pc[v]
    BY DEF NotifyProgress, Notified
<1>4. TypeOK'
    BY RevivedType DEF TaskStates, WorkerPoints, Resume, WakeTasks,
        PinnedAfterWake, QueuedAfterWake, Flagged, NotifyProgress, Notified
<1>5. \A u \in Tasks : u # t => (Waiting(u)' <=> Waiting(u))
    BY <1>2 DEF Waiting
<1>6. ~ Waiting(t)'
    BY <1>1, <1>2 DEF Waiting
<1>7. WorkersInv'
    BY <1>1, <1>2, <1>3, ConstantsAssumption DEF WorkersInv, Waiting
<1>8. QueuesInv'
  <2>1. \A v \in Workers : cur[v] = t => state[t] # "Suspended"
    BY <1>1, ConstantsAssumption DEF WorkersInv, Waiting
  <2>2. \A v \in Workers : t \notin ready[v] \cup pinned[v]
    BY <1>1 DEF QueuesInv, Waiting
  <2>3. \A v \in Workers : \A u \in pinned'[v] :
          state'[u] = "Runnable" /\ ownerWorker'[u] = v
    BY <1>2, <1>4, <2>2 DEF QueuesInv
  <2>4. \A v \in Workers : \A u \in ready'[v] :
          state'[u] = "Runnable" /\ ownerWorker'[u] = None
    BY <1>2, <2>2 DEF QueuesInv
  <2>5. \A v, w \in Workers : cur'[v] \notin ready'[w] \cup pinned'[w]
    BY <1>2, <1>4, <2>1 DEF QueuesInv
  <2> QED BY <2>3, <2>4, <2>5 DEF QueuesInv
<1>9. FibersInv'
    BY <1>2, <1>3 DEF FibersInv
<1>10. WakersInv'
  <2>1. \A u \in wakePending' : fiber'[u] = "yield" /\ state'[u] = "Suspending"
    BY <1>1, <1>2, <1>4 DEF WakersInv, Waiting
  <2> QED
    BY <1>5, <2>1 DEF WakersInv, HasWaker, InTimers, InIo, InWaiters, InResuming
<1>11. WaitingInv'
  <2>1. \A u \in Tasks : u # t /\ HasWaker(u) => HasWaker(u)'
    BY DEF HasWaker, InTimers, InIo, InWaiters, InResuming
  <2> QED BY <1>1, <1>2, <1>5, <1>6, <2>1 DEF WaitingInv, Waiting
<1>12. OneWakerInv'
    BY DEF OneWakerInv, InTimers, InIo, InWaiters, InResuming
<1>13. WaitersInv'
    BY <1>1, <1>2 DEF WaitersInv, Waiting
<1>14. QED
    BY <1>4, <1>7, <1>8, <1>9, <1>10, <1>11, <1>12, <1>13
-----------------------------------------------------------------------------
(* Every action preserves the inductive invariant. *)

\* The switch to the task's fiber.
LEMMA StartSliceStep ==
    ASSUME IInv, NEW w \in Workers, StartSlice(w)
    PROVE  IInv'
<1>1. TypeOK'
    BY DEF TaskStates, FiberPoints, WorkerPoints, StartSlice, queueVars,
       mainVars, gauges
<1>2. WorkersInv'
    BY DEF WorkersInv, StartSlice
<1>3. QueuesInv'
    BY DEF QueuesInv, StartSlice, queueVars
<1>4. FibersInv'
    BY DEF FibersInv, StartSlice
<1>5. WakersInv'
    BY DEF WakersInv, WorkersInv, Waiting, StartSlice, queueVars
<1>6. WaitingInv'
    BY DEF WaitingInv, Waiting, HasWaker, InTimers, InIo, InWaiters,
       InResuming, StartSlice, queueVars
<1>7. OneWakerInv'
    BY DEF OneWakerInv, InTimers, InIo, InWaiters, InResuming, StartSlice,
       queueVars
<1>8. WaitersInv'
    BY DEF WaitersInv, WorkersInv, StartSlice
<1>9. QED
    BY <1>1, <1>2, <1>3, <1>4, <1>5, <1>6, <1>7, <1>8

\* A task spawns a child.
LEMMA SpawnStep ==
    ASSUME IInv, NEW w \in Workers, NEW t \in Tasks, NEW c \in Tasks, Spawn(w, t, c)
    PROVE  IInv'
<1>1. TypeOK'
    BY DEF TaskStates, WorkerPoints, Spawn, NotifyProgress, Notified,
       mainVars, gauges
<1>2. WorkersInv'
    BY DEF WorkersInv, Spawn, Spawned, NotifyProgress, Notified
<1>3. QueuesInv'
    BY ConstantsAssumption DEF QueuesInv, WorkersInv, WaitersInv, Spawn,
       Spawned
<1>4. FibersInv'
    BY DEF FibersInv, Spawn, NotifyProgress, Notified
<1>5. WakersInv'
    BY DEF WakersInv, Waiting, Spawn, Spawned
<1>6. WaitingInv'
    BY DEF WaitingInv, Waiting, HasWaker, InTimers, InIo, InWaiters,
       InResuming, Spawn
<1>7. OneWakerInv'
    BY DEF OneWakerInv, InTimers, InIo, InWaiters, InResuming, Spawn
<1>8. WaitersInv'
    BY DEF WaitersInv, WorkersInv, Spawn, InUserCode, InFiber
<1>9. QED
    BY <1>1, <1>2, <1>3, <1>4, <1>5, <1>6, <1>7, <1>8

\* A task gives a handle to its own holder.
LEMMA HandOverStep ==
    ASSUME IInv, NEW w \in Workers, NEW t \in Tasks, NEW c \in Tasks, HandOver(w, t, c)
    PROVE  IInv'
<1> PICK p \in Elders(t) : holder' = [holder EXCEPT ![c] = p]
    BY DEF HandOver
<1>1. p \in Tasks \cup {Main} /\ p # None /\ state[c] # "Pending"
    BY ConstantsAssumption DEF HandOver, WaitersInv, Elders
<1>2. TypeOK'
    BY <1>1 DEF HandOver, queueVars, workerVars, mainVars, gauges
<1>3. WorkersInv' /\ QueuesInv' /\ FibersInv'
    BY DEF WorkersInv, QueuesInv, FibersInv, HandOver, queueVars, workerVars
<1>4. WakersInv' /\ WaitingInv'
    BY DEF WakersInv, WaitingInv, Waiting, HasWaker, InTimers, InIo, InWaiters,
       InResuming, HandOver, queueVars, workerVars
<1>5. OneWakerInv'
    BY DEF OneWakerInv, InTimers, InIo, InWaiters, InResuming, HandOver,
       queueVars, workerVars
<1>6. WaitersInv'
    BY <1>1 DEF WaitersInv, HandOver
<1>7. QED
    BY <1>2, <1>3, <1>4, <1>5, <1>6

\* A task consumes a completed one whose handle it holds.
LEMMA AwaitReturnsStep ==
    ASSUME IInv, NEW w \in Workers, NEW t \in Tasks, NEW c \in Tasks, AwaitReturns(w, t, c)
    PROVE  IInv'
<1>1. TypeOK'
    BY DEF TaskStates, AwaitReturns, queueVars, workerVars, mainVars, gauges
<1>2. WorkersInv'
    BY DEF WorkersInv, AwaitReturns, workerVars
<1>3. QueuesInv'
    BY DEF QueuesInv, AwaitReturns, queueVars, workerVars
<1>4. FibersInv'
    BY DEF FibersInv, AwaitReturns, workerVars
<1>5. WakersInv'
    BY DEF WakersInv, Waiting, AwaitReturns, queueVars, workerVars
<1>6. WaitingInv'
    BY ConstantsAssumption DEF WaitingInv, FibersInv, Waiting, HasWaker,
       InTimers, InIo, InWaiters, InResuming, AwaitReturns, queueVars,
       workerVars
<1>7. OneWakerInv'
    BY DEF OneWakerInv, InTimers, InIo, InWaiters, InResuming, AwaitReturns,
       queueVars, workerVars
<1>8. WaitersInv'
    BY DEF WaitersInv, AwaitReturns
<1>9. QED
    BY <1>1, <1>2, <1>3, <1>4, <1>5, <1>6, <1>7, <1>8

\* A task registers with the one it waits for.
LEMMA AwaitBlocksStep ==
    ASSUME IInv, NEW w \in Workers, NEW t \in Tasks, NEW c \in Tasks, AwaitBlocks(w, t, c)
    PROVE  IInv'
<1>1. TypeOK'
    BY DEF TaskStates, FiberPoints, AwaitBlocks, queueVars, workerVars,
       mainVars, gauges
<1>2. WorkersInv'
    BY DEF WorkersInv, AwaitBlocks, InFiber, workerVars
<1>3. QueuesInv'
    BY DEF QueuesInv, AwaitBlocks, InFiber, queueVars, workerVars
<1>4. FibersInv'
    BY DEF FibersInv, AwaitBlocks, InFiber, workerVars
<1>5. WakersInv'
    BY DEF WakersInv, Waiting, AwaitBlocks, InFiber, queueVars, workerVars
<1>6. WaitingInv'
  <2>1. \A u \in Tasks : u # t => (Waiting(u)' <=> Waiting(u))
    BY DEF AwaitBlocks, InFiber, Waiting
  <2>2. \A u \in Tasks : HasWaker(u) => HasWaker(u)'
    BY DEF AwaitBlocks, HasWaker, InTimers, InIo, InWaiters, InResuming,
           queueVars, workerVars
  <2>3. HasWaker(t)' /\ state'[t] # "Suspended"
    BY DEF AwaitBlocks, HasWaker, InWaiters
  <2>4. \A u \in Tasks : u # t => state'[u] = state[u]
    BY DEF AwaitBlocks
  <2> QED BY <2>1, <2>2, <2>3, <2>4 DEF WaitingInv
<1>7. OneWakerInv'
    BY DEF OneWakerInv, WakersInv, Waiting, InTimers, InIo, InWaiters,
       InResuming, AwaitBlocks, InFiber, queueVars, workerVars
<1>8. WaitersInv'
    BY DEF WaitersInv, WorkersInv, AwaitBlocks, InFiber
<1>9. QED
    BY <1>1, <1>2, <1>3, <1>4, <1>5, <1>6, <1>7, <1>8

\* A task announces a delay or an I/O call.
LEMMA PrepareSuspendStep ==
    ASSUME IInv, NEW w \in Workers, NEW t \in Tasks, NEW waker \in {"timer", "io"}, PrepareSuspend(w, t, waker)
    PROVE  IInv'
<1>1. TypeOK'
    BY DEF TaskStates, FiberPoints, PrepareSuspend, queueVars, workerVars,
       mainVars, gauges
<1>2. WorkersInv'
    BY DEF WorkersInv, PrepareSuspend, InUserCode, InFiber, workerVars
<1>3. QueuesInv'
    BY DEF QueuesInv, PrepareSuspend, InUserCode, InFiber, queueVars,
       workerVars
<1>4. FibersInv'
    BY DEF FibersInv, PrepareSuspend, InUserCode, InFiber, workerVars
<1>5. WakersInv'
    BY DEF WakersInv, Waiting, PrepareSuspend, InUserCode, InFiber, queueVars,
       workerVars
<1>6. WaitingInv'
    BY DEF WaitingInv, Waiting, HasWaker, InTimers, InIo, InWaiters,
       InResuming, PrepareSuspend, queueVars, workerVars
<1>7. OneWakerInv'
    BY DEF OneWakerInv, InTimers, InIo, InWaiters, InResuming, PrepareSuspend,
       queueVars, workerVars
<1>8. WaitersInv'
    BY DEF WaitersInv, WorkersInv, PrepareSuspend, InUserCode, InFiber
<1>9. QED
    BY <1>1, <1>2, <1>3, <1>4, <1>5, <1>6, <1>7, <1>8

\* The timer is pushed.
LEMMA ArmTimerStep ==
    ASSUME IInv, NEW w \in Workers, NEW t \in Tasks, ArmTimer(w, t)
    PROVE  IInv'
<1>1. TypeOK'
    BY DEF FiberPoints, WorkerPoints, ArmTimer, NotifyProgress, Notified,
       mainVars, gauges
<1>2. WorkersInv'
    BY DEF WorkersInv, ArmTimer, InFiber, NotifyProgress, Notified
<1>3. QueuesInv'
    BY DEF QueuesInv, ArmTimer
<1>4. FibersInv'
    BY DEF FibersInv, ArmTimer, NotifyProgress, Notified
<1>5. WakersInv'
  <2>1. cur[w] = t /\ pc[w] = "fiber" /\ state[t] = "Suspending"
    BY DEF ArmTimer, InFiber, WorkersInv
  <2>2. t \notin wakePending
    BY DEF ArmTimer, InFiber, WakersInv
  <2>3. Waiting(t)'
    BY <2>1, <2>2 DEF ArmTimer, Waiting
  <2>4. \A u \in Tasks : Waiting(u) => Waiting(u)'
    BY <2>3 DEF ArmTimer, Waiting
  <2>5. \A u \in wakePending' : fiber'[u] = "yield" /\ state'[u] = "Suspending"
    BY <2>2 DEF ArmTimer, WakersInv
  <2> QED BY <2>3, <2>4, <2>5 DEF ArmTimer, WakersInv
<1>6. WaitingInv'
  <2>1. \A u \in Tasks : u # t => (Waiting(u)' <=> Waiting(u))
    BY DEF ArmTimer, InFiber, Waiting
  <2>2. \A u \in Tasks : HasWaker(u) => HasWaker(u)'
    BY DEF ArmTimer, HasWaker, InTimers, InIo, InWaiters, InResuming, queueVars, workerVars
  <2>3. HasWaker(t)'
    BY DEF ArmTimer, HasWaker, InTimers
  <2>4. state' = state /\ state[t] # "Suspended"
    BY DEF ArmTimer, InFiber, WorkersInv
  <2> QED BY <2>1, <2>2, <2>3, <2>4 DEF WaitingInv
<1>7. OneWakerInv'
    BY DEF OneWakerInv, WakersInv, Waiting, InTimers, InIo, InWaiters,
       InResuming, ArmTimer, InFiber
<1>8. WaitersInv'
    BY DEF WaitersInv, ArmTimer, InFiber
<1>9. QED
    BY <1>1, <1>2, <1>3, <1>4, <1>5, <1>6, <1>7, <1>8

\* The I/O call is submitted.
LEMMA SubmitIoStep ==
    ASSUME IInv, NEW w \in Workers, NEW t \in Tasks, SubmitIo(w, t)
    PROVE  IInv'
<1>1. TypeOK'
    BY DEF FiberPoints, SubmitIo, workerVars, mainVars, gauges
<1>2. WorkersInv'
    BY DEF WorkersInv, SubmitIo, InFiber, workerVars
<1>3. QueuesInv'
    BY DEF QueuesInv, SubmitIo, workerVars
<1>4. FibersInv'
    BY DEF FibersInv, SubmitIo, workerVars
<1>5. WakersInv'
    BY ConstantsAssumption DEF WakersInv, WorkersInv, QueuesInv, FibersInv,
       WaitingInv, Waiting, SubmitIo, InFiber, workerVars
<1>6. WaitingInv'
    BY DEF WaitingInv, Waiting, HasWaker, InTimers, InIo, InWaiters,
       InResuming, SubmitIo, workerVars
<1>7. OneWakerInv'
    BY DEF OneWakerInv, WakersInv, Waiting, InTimers, InIo, InWaiters,
       InResuming, SubmitIo, InFiber, workerVars
<1>8. WaitersInv'
    BY DEF WaitersInv, SubmitIo, InFiber
<1>9. QED
    BY <1>1, <1>2, <1>3, <1>4, <1>5, <1>6, <1>7, <1>8

\* The entry function returns.
LEMMA FinishStep ==
    ASSUME IInv, NEW w \in Workers, NEW t \in Tasks, Finish(w, t)
    PROVE  IInv'
<1>1. TypeOK'
    BY DEF FiberPoints, Finish, queueVars, workerVars, mainVars, gauges
<1>2. WorkersInv'
    BY DEF WorkersInv, Finish, InUserCode, InFiber, workerVars
<1>3. QueuesInv'
    BY DEF QueuesInv, Finish, queueVars, workerVars
<1>4. FibersInv'
    BY DEF FibersInv, Finish, workerVars
<1>5. WakersInv'
    BY DEF WakersInv, Waiting, Finish, InUserCode, InFiber, queueVars,
       workerVars
<1>6. WaitingInv'
    BY ConstantsAssumption DEF WaitingInv, Waiting, HasWaker, InTimers, InIo,
       InWaiters, InResuming, Finish, InUserCode, InFiber, queueVars,
       workerVars
<1>7. OneWakerInv'
    BY DEF OneWakerInv, InTimers, InIo, InWaiters, InResuming, Finish,
       queueVars, workerVars
<1>8. WaitersInv'
    BY DEF WaitersInv, WorkersInv, Finish, InUserCode, InFiber
<1>9. QED
    BY <1>1, <1>2, <1>3, <1>4, <1>5, <1>6, <1>7, <1>8

\* The worker settles a finished task.
LEMMA EpilogueDoneStep ==
    ASSUME IInv, NEW w \in Workers, NEW t \in Tasks, EpilogueDone(w, t)
    PROVE  IInv'
<1>1. TypeOK'
    BY DEF TaskStates, WorkerPoints, EpilogueDone, queueVars, mainVars
<1>2. WorkersInv'
    BY DEF WorkersInv, EpilogueDone, InFiber
<1>3. QueuesInv'
    BY ConstantsAssumption DEF QueuesInv, EpilogueDone, InFiber, queueVars
<1>4. FibersInv'
    BY DEF FibersInv, EpilogueDone, InFiber
<1>5. WakersInv'
    BY DEF WakersInv, Waiting, EpilogueDone, InFiber, queueVars
<1>6. WaitingInv'
  <2>1. \A u \in Tasks : Waiting(u)' => Waiting(u)
    BY DEF EpilogueDone, InFiber, Waiting
  <2>2. \A u \in Tasks : u \in waiters[t] => InResuming(u)'
    BY DEF EpilogueDone, InFiber, InResuming
  <2>3. pc[w] = "fiber" /\ resuming[w] = {}
    BY DEF EpilogueDone, InFiber, WorkersInv
  <2>4. \A u \in Tasks : HasWaker(u) => HasWaker(u)'
    BY <2>2, <2>3 DEF EpilogueDone, HasWaker, InTimers, InIo, InWaiters, InResuming, queueVars
  <2>5. \A u \in Tasks : state'[u] = "Suspended" => state[u] = "Suspended"
    BY DEF EpilogueDone
  <2>6. \A u \in Tasks : Waiting(u) /\ state'[u] = "Suspended" => Waiting(u)'
    BY DEF EpilogueDone, Waiting
  <2> QED BY <2>1, <2>4, <2>5, <2>6 DEF WaitingInv
<1>7. OneWakerInv'
    BY DEF OneWakerInv, InTimers, InIo, InWaiters, InResuming, EpilogueDone,
       queueVars
<1>8. WaitersInv'
    BY DEF WaitersInv, EpilogueDone, InFiber
<1>9. QED
    BY <1>1, <1>2, <1>3, <1>4, <1>5, <1>6, <1>7, <1>8

\* The worker settles a suspension no waker has answered.
LEMMA EpilogueSuspendStep ==
    ASSUME IInv, NEW w \in Workers, NEW t \in Tasks, EpilogueSuspend(w, t)
    PROVE  IInv'
<1>1. TypeOK'
    BY DEF TaskStates, WorkerPoints, EpilogueSuspend, queueVars, mainVars
<1>2. WorkersInv'
    BY DEF WorkersInv, EpilogueSuspend, InFiber
<1>3. QueuesInv'
    BY ConstantsAssumption DEF QueuesInv, EpilogueSuspend, InFiber, queueVars
<1>4. FibersInv'
    BY DEF FibersInv, EpilogueSuspend, InFiber
<1>5. WakersInv'
    BY DEF WakersInv, Waiting, EpilogueSuspend, queueVars
<1>6. WaitingInv'
    BY ConstantsAssumption DEF WaitingInv, WorkersInv, QueuesInv, WakersInv,
       Waiting, HasWaker, InTimers, InIo, InWaiters, InResuming,
       EpilogueSuspend, InFiber, queueVars
<1>7. OneWakerInv'
    BY DEF OneWakerInv, InTimers, InIo, InWaiters, InResuming,
       EpilogueSuspend, queueVars
<1>8. WaitersInv'
    BY DEF WaitersInv, EpilogueSuspend, InFiber
<1>9. QED
    BY <1>1, <1>2, <1>3, <1>4, <1>5, <1>6, <1>7, <1>8

\* The worker settles a suspension a waker was faster than.
LEMMA EpilogueWokenStep ==
    ASSUME IInv, NEW w \in Workers, NEW t \in Tasks, EpilogueWoken(w, t)
    PROVE  IInv'
<1>1. TypeOK'
    BY DEF TaskStates, WorkerPoints, EpilogueWoken, queueVars, mainVars,
       gauges
<1>2. WorkersInv'
    BY DEF WorkersInv, EpilogueWoken, InFiber
<1>3. QueuesInv'
    BY DEF QueuesInv, EpilogueWoken, queueVars
<1>4. FibersInv'
    BY DEF FibersInv, EpilogueWoken, InFiber
<1>5. WakersInv'
    BY DEF WakersInv, Waiting, EpilogueWoken, queueVars
<1>6. WaitingInv'
  <2>1. \A u \in Tasks : Waiting(u)' => Waiting(u)
    BY DEF EpilogueWoken, InFiber, Waiting
  <2>2. \A u \in Tasks : HasWaker(u) => HasWaker(u)'
    BY DEF EpilogueWoken, InFiber, HasWaker, InTimers, InIo, InWaiters, InResuming,
           queueVars, workerVars
  <2>3. \A u \in Tasks : state'[u] = "Suspended" => state[u] = "Suspended"
    BY DEF EpilogueWoken, InFiber
  <2>4. \A u \in Tasks : Waiting(u) /\ state'[u] = "Suspended" => Waiting(u)'
    BY DEF EpilogueWoken, InFiber, Waiting
  <2> QED BY <2>1, <2>2, <2>3, <2>4 DEF WaitingInv
<1>7. OneWakerInv'
    BY DEF OneWakerInv, InTimers, InIo, InWaiters, InResuming, EpilogueWoken,
       queueVars
<1>8. WaitersInv'
    BY DEF WaitersInv, EpilogueWoken, InFiber
<1>9. QED
    BY <1>1, <1>2, <1>3, <1>4, <1>5, <1>6, <1>7, <1>8

\* The last waiter has been resumed.
LEMMA ResumedAllStep ==
    ASSUME IInv, NEW w \in Workers, ResumedAll(w)
    PROVE  IInv'
<1>1. TypeOK'
    BY DEF WorkerPoints, ResumedAll, taskVars, queueVars, mainVars, gauges
<1>2. WorkersInv'
    BY DEF WorkersInv, ResumedAll, taskVars
<1>3. QueuesInv'
    BY DEF QueuesInv, ResumedAll, taskVars, queueVars
<1>4. FibersInv'
    BY DEF FibersInv, ResumedAll, taskVars
<1>5. WakersInv'
    BY DEF WakersInv, Waiting, ResumedAll, taskVars, queueVars
<1>6. WaitingInv'
    BY DEF WaitingInv, Waiting, HasWaker, InTimers, InIo, InWaiters,
       InResuming, ResumedAll, taskVars, queueVars
<1>7. OneWakerInv'
    BY DEF OneWakerInv, InTimers, InIo, InWaiters, InResuming, ResumedAll,
       taskVars, queueVars
<1>8. WaitersInv'
    BY DEF WaitersInv, ResumedAll, taskVars
<1>9. QED
    BY <1>1, <1>2, <1>3, <1>4, <1>5, <1>6, <1>7, <1>8

\* A task woken early goes back to its queue.
LEMMA EnqueueBackStep ==
    ASSUME IInv, NEW w \in Workers, EnqueueBack(w)
    PROVE  IInv'
<1>1. cur[w] \in Tasks /\ state[cur[w]] = "Runnable" /\ ownerWorker[cur[w]] = w
    BY DEF EnqueueBack, WorkersInv
<1>2. pinned' = [pinned EXCEPT ![w] = @ \cup {cur[w]}]
    BY <1>1 DEF EnqueueBack
<1>3. TypeOK'
    BY <1>1 DEF WorkerPoints, EnqueueBack, NotifyAndGo, Notified, taskVars,
       mainVars, gauges
<1>4. WorkersInv'
    BY <1>2, ConstantsAssumption DEF WorkersInv, QueuesInv, WakersInv,
       OneWakerInv, EnqueueBack, NotifyAndGo, Notified, taskVars
<1>5. QueuesInv'
    BY ConstantsAssumption DEF QueuesInv, WorkersInv, EnqueueBack, taskVars
<1>6. FibersInv'
  <2>1. ASSUME NEW u \in Tasks, state[u] \in {"Running", "Suspending"}
        PROVE  \E v \in Workers : cur'[v] = u /\ pc'[v] = "fiber"
    <3>1. PICK v \in Workers : cur[v] = u /\ pc[v] = "fiber"
      BY <2>1 DEF FibersInv
    <3>2. v # w /\ cur'[v] = u /\ pc'[v] = "fiber"
      BY <3>1 DEF EnqueueBack, NotifyAndGo, Notified
    <3> QED BY <3>2
  <2> QED BY <2>1 DEF FibersInv, EnqueueBack, taskVars
<1>7. WakersInv'
    BY DEF WakersInv, Waiting, EnqueueBack, taskVars
<1>8. WaitingInv'
    BY DEF WaitingInv, Waiting, HasWaker, InTimers, InIo, InWaiters,
       InResuming, EnqueueBack, taskVars
<1>9. OneWakerInv'
    BY DEF OneWakerInv, InTimers, InIo, InWaiters, InResuming, EnqueueBack,
       taskVars
<1>10. WaitersInv'
    BY DEF WaitersInv, EnqueueBack, taskVars
<1>11. QED
    BY <1>3, <1>4, <1>5, <1>6, <1>7, <1>8, <1>9, <1>10

\* A deadline passes.
LEMMA ExpireStep ==
    ASSUME IInv, NEW t \in Tasks, Expire(t)
    PROVE  IInv'
<1>1. TypeOK'
    BY DEF WorkerPoints, Expire, taskVars, mainVars, gauges
<1>2. WorkersInv'
    BY DEF WorkersInv, Expire, taskVars
<1>3. QueuesInv'
    BY DEF QueuesInv, Expire, taskVars
<1>4. FibersInv'
    BY DEF FibersInv, Expire, taskVars
<1>5. WakersInv'
    BY DEF WakersInv, Waiting, Expire, taskVars
<1>6. WaitingInv'
    BY DEF WaitingInv, Waiting, HasWaker, InTimers, InIo, InWaiters,
       InResuming, Expire, taskVars
<1>7. OneWakerInv'
    BY DEF OneWakerInv, InTimers, InIo, InWaiters, InResuming, Expire,
       taskVars
<1>8. WaitersInv'
    BY DEF WaitersInv, Expire, taskVars
<1>9. QED
    BY <1>1, <1>2, <1>3, <1>4, <1>5, <1>6, <1>7, <1>8

\* A finished task's waiter is resumed.
LEMMA ResumeWaiterStep ==
    ASSUME IInv, NEW w \in Workers, ResumeWaiter(w)
    PROVE  IInv'
<1>1. PICK t \in resuming[w] : /\ Resume({t})
                              /\ resuming' = [resuming EXCEPT ![w] = @ \ {t}]
    BY DEF ResumeWaiter
<1>2. t \in Tasks /\ InResuming(t)
    BY DEF InResuming
<1>3. ~ HasWaker(t)'
    BY <1>1, <1>2 DEF ResumeWaiter, OneWakerInv, HasWaker, InTimers, InIo,
                      InWaiters, InResuming
<1>4. \A v \in Workers : resuming'[v] \subseteq resuming[v]
                        /\ resuming[v] \ {t} \subseteq resuming'[v]
    BY <1>1
<1>5. resuming' \in [Workers -> SUBSET Tasks]
    BY <1>1
<1>6. QED
    BY <1>1, <1>2, <1>3, <1>4, <1>5, ResumeStep DEF ResumeWaiter, HasWaker, mainVars

\* An I/O thread resumes its task.
LEMMA IoCompleteStep ==
    ASSUME IInv, NEW t \in Tasks, IoComplete(t)
    PROVE  IInv'
<1>1. InIo(t)
    BY DEF IoComplete, InIo
<1>2. ~ HasWaker(t)'
    BY <1>1 DEF IoComplete, OneWakerInv, HasWaker, InTimers, InIo, InWaiters,
                InResuming
<1>3. QED
    BY <1>1, <1>2, ResumeStep DEF IoComplete, HasWaker, mainVars

\* The main thread spawns a task.
LEMMA MainSpawnStep ==
    ASSUME IInv, NEW c \in Tasks, MainSpawn(c)
    PROVE  IInv'
<1>1. TypeOK'
    BY DEF TaskStates, WorkerPoints, MainSpawn, NotifyProgress, Notified,
       mainVars, gauges
<1>2. WorkersInv'
    BY DEF WorkersInv, MainSpawn, Spawned, NotifyProgress, Notified
<1>3. QueuesInv'
    BY ConstantsAssumption DEF QueuesInv, WorkersInv, WaitersInv, MainSpawn,
       Spawned
<1>4. FibersInv'
    BY DEF FibersInv, MainSpawn, NotifyProgress, Notified
<1>5. WakersInv'
    BY DEF WakersInv, Waiting, MainSpawn, Spawned
<1>6. WaitingInv'
    BY ConstantsAssumption DEF WaitingInv, FibersInv, Waiting, HasWaker,
       InTimers, InIo, InWaiters, InResuming, MainSpawn
<1>7. OneWakerInv'
    BY DEF OneWakerInv, InTimers, InIo, InWaiters, InResuming, MainSpawn
<1>8. WaitersInv'
    BY ConstantsAssumption DEF WaitersInv, MainSpawn
<1>9. QED
    BY <1>1, <1>2, <1>3, <1>4, <1>5, <1>6, <1>7, <1>8

\* The main thread consumes a task.
LEMMA MainAwaitStep ==
    ASSUME IInv, NEW c \in Tasks, MainAwait(c)
    PROVE  IInv'
<1>1. TypeOK'
    BY DEF TaskStates, MainAwait, queueVars, workerVars, mainVars, gauges
<1>2. WorkersInv'
    BY DEF WorkersInv, MainAwait, workerVars
<1>3. QueuesInv'
    BY DEF QueuesInv, MainAwait, queueVars, workerVars
<1>4. FibersInv'
    BY DEF FibersInv, MainAwait, workerVars
<1>5. WakersInv'
    BY DEF WakersInv, Waiting, MainAwait, queueVars, workerVars
<1>6. WaitingInv'
  <2>1. \A u \in Tasks : Waiting(u)' => Waiting(u)
    BY DEF MainAwait, Waiting
  <2>2. \A u \in Tasks : HasWaker(u) => HasWaker(u)'
    BY DEF MainAwait, HasWaker, InTimers, InIo, InWaiters, InResuming,
           queueVars, workerVars
  <2>3. \A u \in Tasks : state'[u] = "Suspended" => state[u] = "Suspended"
    BY DEF MainAwait
  <2>4. \A u \in Tasks : Waiting(u) /\ state'[u] = "Suspended" => Waiting(u)'
    BY DEF MainAwait, Waiting
  <2> QED BY <2>1, <2>2, <2>3, <2>4 DEF WaitingInv
<1>7. OneWakerInv'
    BY DEF OneWakerInv, InTimers, InIo, InWaiters, InResuming, MainAwait,
       queueVars, workerVars
<1>8. WaitersInv'
    BY DEF WaitersInv, MainAwait
<1>9. QED
    BY <1>1, <1>2, <1>3, <1>4, <1>5, <1>6, <1>7, <1>8

\* ~Scheduler sets stopping.
LEMMA ShutdownStep ==
    ASSUME IInv, Shutdown
    PROVE  IInv'
<1>1. TypeOK'
    BY DEF WorkerPoints, Shutdown, NotifyProgress, Notified, taskVars,
       queueVars, gauges
<1>2. WorkersInv'
    BY DEF WorkersInv, Shutdown, NotifyProgress, Notified, taskVars
<1>3. QueuesInv'
    BY DEF QueuesInv, Shutdown, taskVars, queueVars
<1>4. FibersInv'
    BY DEF FibersInv, Shutdown, NotifyProgress, Notified, taskVars
<1>5. WakersInv'
    BY DEF WakersInv, Waiting, Shutdown, taskVars, queueVars
<1>6. WaitingInv'
    BY DEF WaitingInv, Waiting, HasWaker, InTimers, InIo, InWaiters,
       InResuming, Shutdown, taskVars, queueVars
<1>7. OneWakerInv'
    BY DEF OneWakerInv, InTimers, InIo, InWaiters, InResuming, Shutdown,
       taskVars, queueVars
<1>8. WaitersInv'
    BY DEF WaitersInv, Shutdown, taskVars
<1>9. QED
    BY <1>1, <1>2, <1>3, <1>4, <1>5, <1>6, <1>7, <1>8

\* ~Scheduler has joined.
LEMMA MainJoinStep ==
    ASSUME IInv, MainJoin
    PROVE  IInv'
<1>1. TypeOK'
    BY DEF MainJoin, taskVars, queueVars, workerVars, gauges
<1>2. WorkersInv'
    BY DEF WorkersInv, MainJoin, workerVars
<1>3. QueuesInv'
    BY DEF QueuesInv, MainJoin, taskVars, queueVars, workerVars
<1>4. FibersInv'
    BY DEF FibersInv, MainJoin, taskVars
<1>5. WakersInv'
    BY DEF WakersInv, Waiting, MainJoin, taskVars, queueVars, workerVars
<1>6. WaitingInv'
    BY DEF WaitingInv, Waiting, HasWaker, InTimers, InIo, InWaiters,
       InResuming, MainJoin, taskVars, queueVars, workerVars
<1>7. OneWakerInv'
    BY DEF OneWakerInv, InTimers, InIo, InWaiters, InResuming, MainJoin,
       taskVars, queueVars, workerVars
<1>8. WaitersInv'
    BY DEF WaitersInv, MainJoin, taskVars
<1>9. QED
    BY <1>1, <1>2, <1>3, <1>4, <1>5, <1>6, <1>7, <1>8
\* The worker takes a task from its own queues.
LEMMA TakeLocalStep ==
    ASSUME IInv, NEW w \in Workers, TakeLocal(w)
    PROVE  IInv'
<1>1. PICK t \in LocalWork(w) :
        /\ TakeWork(w, t)
        /\ ready' = [ready EXCEPT ![w] = @ \ {t}]
        /\ pinned' = [PinnedAfterWake(due) EXCEPT ![w] = @ \ {t}]
    BY DEF TakeLocal
<1>2. PromoteTimersLocked(w)
    BY DEF TakeLocal
<1>3. t \in Tasks /\ (t \in PinnedAfterWake(due)[w] \/ t \in ready[w])
    BY <1>2, PromoteStep DEF LocalWork
<1>4. /\ ready' \in [Workers -> SUBSET Tasks]
      /\ pinned' \in [Workers -> SUBSET Tasks]
    BY <1>1, <1>2, PromoteStep
<1>5. /\ \A v \in Workers : ready'[v] = ready[v] \ {t}
      /\ \A v \in Workers : pinned'[v] = PinnedAfterWake(due)[v] \ {t}
    BY <1>1, <1>2, <1>3, PromoteStep, ConstantsAssumption DEF QueuesInv
<1>6. QED
    BY <1>1, <1>2, <1>3, <1>4, <1>5, TakeStep

\* The worker steals a task that has not started.
LEMMA StealStep ==
    ASSUME IInv, NEW w \in Workers, Steal(w)
    PROVE  IInv'
<1>1. PICK x \in Workers \ {w} : \E t \in ready[x] :
        TakeWork(w, t) /\ ready' = [ready EXCEPT ![x] = @ \ {t}]
    BY DEF Steal
<1>2. PICK t \in ready[x] :
        TakeWork(w, t) /\ ready' = [ready EXCEPT ![x] = @ \ {t}]
    BY <1>1
<1>3. PromoteTimersLocked(w) /\ pinned' = PinnedAfterWake(due)
    BY DEF Steal
<1>4. /\ ready' \in [Workers -> SUBSET Tasks]
      /\ pinned' \in [Workers -> SUBSET Tasks]
    BY <1>2, <1>3, PromoteStep
<1>5. /\ \A v \in Workers : ready'[v] = ready[v] \ {t}
      /\ \A v \in Workers : pinned'[v] = PinnedAfterWake(due)[v] \ {t}
    BY <1>2, <1>3, PromoteStep, ConstantsAssumption DEF QueuesInv
<1>6. QED
    BY <1>2, <1>3, <1>4, <1>5, TakeStep

\* The worker finds nothing and waits, or leaves.
LEMMA ParkStep ==
    ASSUME IInv, NEW w \in Workers, Park(w)
    PROVE  IInv'
<1>1. sleepsUntil' \in [Workers -> SUBSET Tasks]
    BY DEF Park, NothingToTake, PromoteTimersLocked
<1>2. QED
    BY <1>1, NothingToTakeStep DEF Park

LEMMA ExitStep ==
    ASSUME IInv, NEW w \in Workers, Exit(w)
    PROVE  IInv'
<1>1. QED
    BY NothingToTakeStep DEF Exit

-----------------------------------------------------------------------------
(* The invariant is initial and inductive. *)

LEMMA InitIInv == Init => IInv
<1> SUFFICES ASSUME Init PROVE IInv
    OBVIOUS
<1> USE DEF Init
<1>1. TypeOK
  <2>1. "Pending" \in TaskStates /\ "code" \in FiberPoints /\ "fetch" \in WorkerPoints
    BY DEF TaskStates, FiberPoints, WorkerPoints
  <2>2. /\ state \in [Tasks -> TaskStates]
        /\ fiber \in [Tasks -> FiberPoints]
        /\ pc \in [Workers -> WorkerPoints]
    BY <2>1
  <2>3. stopping \in BOOLEAN /\ main \in {"run", "joining", "joined"}
    OBVIOUS
  <2>4. /\ ready \in [Workers -> SUBSET Tasks]
        /\ pinned \in [Workers -> SUBSET Tasks]
        /\ cur \in [Workers -> Tasks \cup {None}]
        /\ resuming \in [Workers -> SUBSET Tasks]
        /\ sleepsUntil \in [Workers -> SUBSET Tasks]
    OBVIOUS
  <2>5. /\ waiters \in [Tasks -> SUBSET Tasks]
        /\ ownerWorker \in [Tasks -> Workers \cup {None}]
        /\ awaiting \in [Tasks -> Tasks \cup {None}]
        /\ holder \in [Tasks -> Tasks \cup {Main, None}]
        /\ suspensions \in [Tasks -> Nat]
    OBVIOUS
  <2>6. /\ queued \in Int /\ suspendedTasks \in Int /\ completedTasks \in Int
        /\ wakePending \in SUBSET Tasks /\ timers \in SUBSET Tasks
        /\ due \in SUBSET Tasks /\ blockingIo \in SUBSET Tasks
    OBVIOUS
  <2> HIDE DEF Init
  <2> QED BY <2>2, <2>3, <2>4, <2>5, <2>6
<1>2. WorkersInv
    BY DEF WorkersInv
<1>3. QueuesInv
    BY ConstantsAssumption DEF QueuesInv
<1>4. FibersInv
    BY DEF FibersInv
<1>5. WakersInv
    BY DEF WakersInv
<1>6. WaitingInv
    BY DEF WaitingInv, Waiting
<1>7. OneWakerInv
    BY DEF OneWakerInv, InTimers, InIo, InWaiters, InResuming
<1>8. WaitersInv
    BY DEF WaitersInv
<1>9. QED
    BY <1>1, <1>2, <1>3, <1>4, <1>5, <1>6, <1>7, <1>8

LEMMA NextIInv == IInv /\ [Next]_vars => IInv'
<1> SUFFICES ASSUME IInv, [Next]_vars PROVE IInv'
    OBVIOUS
<1>1. ASSUME NEW w \in Workers, NEW t \in Tasks, FiberStep(w, t)
      PROVE  IInv'
    BY <1>1, SpawnStep, HandOverStep, AwaitReturnsStep, AwaitBlocksStep,
       PrepareSuspendStep,
       ArmTimerStep, SubmitIoStep, FinishStep, EpilogueDoneStep,
       EpilogueSuspendStep, EpilogueWokenStep DEF FiberStep
<1>2. ASSUME NEW w \in Workers, WorkerStep(w)
      PROVE  IInv'
    BY <1>1, <1>2, TakeLocalStep, StealStep, ParkStep, ExitStep,
       StartSliceStep, ResumeWaiterStep, ResumedAllStep, EnqueueBackStep
       DEF WorkerStep
<1>3. ASSUME NEW t \in Tasks, Expire(t) \/ IoComplete(t)
      PROVE  IInv'
    BY <1>3, ExpireStep, IoCompleteStep
<1>4. CASE MainStep
    BY <1>4, MainSpawnStep, MainAwaitStep, ShutdownStep, MainJoinStep
       DEF MainStep
<1>5. CASE UNCHANGED vars
    BY <1>5 DEF vars, taskVars, queueVars, workerVars, mainVars, gauges,
       WorkersInv, QueuesInv, FibersInv, WakersInv, WaitingInv, OneWakerInv,
       WaitersInv, Waiting, HasWaker, InTimers, InIo, InWaiters, InResuming
<1>6. QED
    BY <1>2, <1>3, <1>4, <1>5 DEF Next, Terminated

-----------------------------------------------------------------------------
(* Theorems *)

HIDE DEF IInv, TypeOK

\* IInv holds of every state the scheduler reaches.
THEOREM Invariance == Spec => []IInv
<1>1. QED
    BY InitIInv, NextIInv, PTL DEF Spec

\* Every variable keeps its type in every execution.
THEOREM TypeCorrect == Spec => []TypeOK
<1>1. IInv => TypeOK
    BY DEF IInv
<1>2. QED
    BY <1>1, Invariance, PTL

\* No wake-up is lost: in every execution every suspended task is in the
\* hands of a waker that has not fired, whatever raced with its suspension.
THEOREM NeverLosesAWakeup == Spec => []NoLostWakeup
<1>1. IInv => NoLostWakeup
    BY DEF IInv, NoLostWakeup, WaitingInv, WaitersInv, HasWaker, InWaiters
<1>2. QED
    BY <1>1, Invariance, PTL

\* No task is queued twice or executed by two workers.
THEOREM NeverInTwoPlaces == Spec => []OnePlace
<1>1. IInv => OnePlace
  <2> SUFFICES ASSUME IInv PROVE OnePlace
      OBVIOUS
  <2>1. \A v, w \in Workers : ready[v] \cap pinned[w] = {}
      BY ConstantsAssumption DEF IInv, TypeOK, QueuesInv
  <2>2. \A v, w \in Workers : v # w => pinned[v] \cap pinned[w] = {}
      BY DEF IInv, TypeOK, QueuesInv
  <2> QED
      BY <2>1, <2>2, ConstantsAssumption DEF IInv, TypeOK, OnePlace, QueuesInv, WorkersInv
<1>2. QED
    BY <1>1, Invariance, PTL

\* A started fiber never leaves the worker it first ran on.
THEOREM NeverMigrates == Spec => []StaysOnItsWorker
<1>1. IInv => StaysOnItsWorker
    BY ConstantsAssumption
       DEF IInv, TypeOK, StaysOnItsWorker, QueuesInv, WorkersInv, WorkerPoints
<1>2. QED
    BY <1>1, Invariance, PTL

\* A completed Task is referenced by nobody but its awaiter, who may delete it.
THEOREM NeverDangles == Spec => []NoDanglingReference
<1>1. IInv => NoDanglingReference
    BY ConstantsAssumption
       DEF IInv, TypeOK, NoDanglingReference, Queued, Held, QueuesInv, WorkersInv,
           WakersInv, Waiting, HasWaker, InTimers, InIo, InWaiters, InResuming
<1>2. QED
    BY <1>1, Invariance, PTL

-----------------------------------------------------------------------------
(* Sleeping workers.  NoSleepingOnWork is inductive relative to IInv. *)

\* A step that wakes every parked worker leaves nothing to show.
LEMMA AllAwake ==
    ASSUME \A v \in Workers : pc'[v] # "parked"
    PROVE  NoSleepingOnWork'
BY DEF NoSleepingOnWork

\* A step that parks nobody and leaves queues, timers and the shutdown flag
\* alone keeps the property.
LEMMA NobodyParks ==
    ASSUME NoSleepingOnWork,
           \A v \in Workers : pc'[v] = "parked" => pc[v] = "parked",
           UNCHANGED <<ready, pinned, queued, timers, due, sleepsUntil, stopping>>
    PROVE  NoSleepingOnWork'
BY DEF NoSleepingOnWork

LEMMA NobodyToRevive ==
    ASSUME due = {}, TypeOK
    PROVE  /\ PinnedAfterWake(due) = pinned
           /\ QueuedAfterWake(due) = queued
<1>1. Revived(due) = {}
    BY DEF Revived
<1>2. Cardinality(Revived(due)) = 0
    BY <1>1, FS_EmptySet
<1>3. QED
    BY <1>1, <1>2 DEF PinnedAfterWake, QueuedAfterWake, TypeOK

\* Fetching: the worker itself parks only when nothing is left, and another
\* worker can be parked only if no timer was due.
LEMMA FetchKeepsAwake ==
    ASSUME IInv, NoSleepingOnWork, NEW w \in Workers,
           TakeLocal(w) \/ Steal(w) \/ Park(w) \/ Exit(w)
    PROVE  NoSleepingOnWork'
<1>1. /\ PromoteTimersLocked(w) /\ pc[w] = "fetch"
      /\ timers' = timers \ due /\ due' = {} /\ stopping' = stopping
    BY DEF TakeLocal, Steal, Park, Exit, NothingToTake, PromoteTimersLocked
<1>2. ASSUME NEW v \in Workers, pc'[v] = "parked", v # w
      PROVE  /\ pinned'[v] = {}
             /\ \A x \in Workers : ready'[x] = {}
             /\ timers' \subseteq sleepsUntil'[v]
             /\ ~ (stopping' /\ queued' = 0)
  <2>1. pc[v] = "parked"
    BY <1>2 DEF TakeLocal, Steal, Park, Exit, TakeWork, NotifyAndGo, Notified,
                IInv, TypeOK
  <2>2. /\ due = {} /\ pinned[v] = {} /\ \A x \in Workers : ready[x] = {}
        /\ timers \subseteq sleepsUntil[v] /\ ~ (stopping /\ queued = 0)
    BY <2>1 DEF NoSleepingOnWork
  <2>3. PinnedAfterWake(due) = pinned /\ QueuedAfterWake(due) = queued
    BY <2>2, NobodyToRevive DEF IInv
  <2>4. CASE Park(w) \/ Exit(w)
    BY <1>1, <1>2, <2>2, <2>3, <2>4
       DEF Park, Exit, NothingToTake, IInv, TypeOK
  <2>5. CASE Steal(w)
    BY <2>2, <2>5 DEF Steal
  <2>6. CASE TakeLocal(w)
    <3>1. PICK t \in LocalWork(w) :
            /\ TakeWork(w, t)
            /\ ready' = [ready EXCEPT ![w] = @ \ {t}]
            /\ pinned' = [PinnedAfterWake(due) EXCEPT ![w] = @ \ {t}]
      BY <2>6 DEF TakeLocal
    <3>2. ~ (stopping /\ queued' = 0)
      BY <1>2, <2>1, <3>1 DEF TakeWork, NotifyAndGo, Notified, IInv, TypeOK
    <3> QED
      BY <1>1, <1>2, <2>2, <2>3, <3>1, <3>2 DEF TakeWork, IInv, TypeOK
  <2> QED BY <2>4, <2>5, <2>6
<1>3. ASSUME pc'[w] = "parked"
      PROVE  /\ pinned'[w] = {}
             /\ \A x \in Workers : ready'[x] = {}
             /\ timers' \subseteq sleepsUntil'[w]
             /\ ~ (stopping' /\ queued' = 0)
  <2>1. Park(w)
    BY <1>3 DEF TakeLocal, Steal, Exit, TakeWork, NotifyAndGo, Notified, IInv,
                TypeOK
  <2>2. \A x \in Workers : ready[x] = {}
    BY <2>1 DEF Park, NothingToTake, LocalWork, StealableWork
  <2> QED
    BY <1>1, <2>1, <2>2 DEF Park, NothingToTake, LocalWork, IInv, TypeOK
<1>4. QED
    BY <1>1, <1>2, <1>3 DEF NoSleepingOnWork

LEMMA FiberKeepsAwake ==
    ASSUME IInv, NoSleepingOnWork, NEW w \in Workers, NEW t \in Tasks,
           FiberStep(w, t)
    PROVE  NoSleepingOnWork'
<1>1. CASE (\E c \in Tasks : Spawn(w, t, c)) \/ ArmTimer(w, t)
    BY <1>1, AllAwake DEF Spawn, ArmTimer, NotifyProgress, Notified
<1>2. CASE \/ \E c \in Tasks : \/ HandOver(w, t, c) \/ AwaitReturns(w, t, c)
                                \/ AwaitBlocks(w, t, c)
           \/ PrepareSuspend(w, t, "timer") \/ PrepareSuspend(w, t, "io")
           \/ SubmitIo(w, t) \/ Finish(w, t)
    BY <1>2, NobodyParks DEF HandOver, AwaitReturns, AwaitBlocks, PrepareSuspend,
       SubmitIo, Finish, queueVars, workerVars, mainVars
<1>3. CASE \/ EpilogueDone(w, t) \/ EpilogueSuspend(w, t)
           \/ EpilogueWoken(w, t)
  <2>1. \A v \in Workers : pc'[v] = "parked" => pc[v] = "parked"
    BY <1>3 DEF EpilogueDone, EpilogueSuspend, EpilogueWoken, IInv, TypeOK
  <2> QED
    BY <1>3, <2>1, NobodyParks DEF EpilogueDone, EpilogueSuspend,
       EpilogueWoken, queueVars, mainVars
<1>4. QED
    BY <1>1, <1>2, <1>3 DEF FiberStep

LEMMA NextKeepsAwake ==
    ASSUME IInv, NoSleepingOnWork, [Next]_vars
    PROVE  NoSleepingOnWork'
<1>1. ASSUME NEW w \in Workers, WorkerStep(w)
      PROVE  NoSleepingOnWork'
  <2>1. CASE StartSlice(w) \/ ResumedAll(w)
    <3>1. \A v \in Workers : pc'[v] = "parked" => pc[v] = "parked"
      BY <2>1 DEF StartSlice, ResumedAll, IInv, TypeOK
    <3> QED
      BY <2>1, <3>1, NobodyParks DEF StartSlice, ResumedAll, queueVars, mainVars
  <2>2. CASE ResumeWaiter(w) \/ EnqueueBack(w)
    BY <2>2, AllAwake DEF ResumeWaiter, EnqueueBack, NotifyProgress,
       NotifyAndGo, Notified
  <2> QED BY <1>1, <2>1, <2>2, FetchKeepsAwake, FiberKeepsAwake DEF WorkerStep
<1>2. ASSUME NEW t \in Tasks, Expire(t)
      PROVE  NoSleepingOnWork'
  <2>1. \A v \in Workers : pc'[v] # "parked"
    BY <1>2 DEF Expire, NoSleepingOnWork
  <2> QED BY <2>1, AllAwake
<1>3. ASSUME NEW t \in Tasks, IoComplete(t)
      PROVE  NoSleepingOnWork'
    BY <1>3, AllAwake DEF IoComplete, NotifyProgress, Notified
<1>4. CASE MainStep
  <2>1. CASE (\E c \in Tasks : MainSpawn(c)) \/ Shutdown
    BY <2>1, AllAwake DEF MainSpawn, Shutdown, NotifyProgress, Notified
  <2>2. CASE (\E c \in Tasks : MainAwait(c)) \/ MainJoin
    BY <2>2, NobodyParks DEF MainAwait, MainJoin, queueVars, workerVars, mainVars
  <2> QED BY <1>4, <2>1, <2>2 DEF MainStep
<1>5. CASE UNCHANGED vars
    BY <1>5, NobodyParks DEF vars, queueVars, workerVars, mainVars
<1>6. QED
    BY <1>1, <1>2, <1>3, <1>4, <1>5 DEF Next, Terminated

\* In every execution a worker sleeps only while nothing it could run is
\* queued, and its wait ends no later than the earliest timer.
THEOREM NeverSleepsOnWork == Spec => []NoSleepingOnWork
<1>1. Init => NoSleepingOnWork
    BY DEF Init, NoSleepingOnWork
<1>2. IInv /\ NoSleepingOnWork /\ [Next]_vars => NoSleepingOnWork'
    BY NextKeepsAwake
<1>3. QED
    BY <1>1, <1>2, Invariance, PTL DEF Spec

-----------------------------------------------------------------------------
(* Handles: a task has none left to consume when it completes, so that when *)
(* the main thread has consumed its own, every task is consumed, through    *)
(* whatever groups their handles have gone.                                 *)

\* A task that has finished, or is about to, holds no unconsumed handle.
NothingHeldInv ==
    \A t, c \in Tasks :
        fiber[t] = "finished" /\ holder[c] = t => state[c] = "Deleted"

\* Waking a task changes neither handles nor what has been deleted.
LEMMA WakeNothingHeld ==
    ASSUME NothingHeldInv, NEW D \in SUBSET Tasks, WakeTasks(D),
           UNCHANGED <<fiber, holder>>
    PROVE  NothingHeldInv'
BY DEF WakeTasks, Revived, NothingHeldInv

\* What one step may do to a task: the transitions of Task::state, and what
\* goes with them.
TaskMoves(t) ==
    \/ state'[t] = state[t]
    \/ state[t] = "Pending" /\ state'[t] = "Runnable"
    \/ state[t] = "Runnable" /\ state'[t] = "Running"
    \/ state[t] = "Running" /\ state'[t] = "Suspending"
    \/ state[t] = "Suspending" /\ state'[t] = "Suspended"
       /\ ownerWorker[t] \in Workers
    \/ state[t] \in {"Suspending", "Suspended"} /\ state'[t] = "Runnable"
    \/ state[t] = "Running" /\ fiber[t] = "finished" /\ state'[t] = "Done"
    \/ state[t] = "Done" /\ state'[t] = "Deleted"

TaskStays(t) ==
    /\ state[t] \in {"Done", "Deleted"} \/ state'[t] = "Done"
       => fiber'[t] = fiber[t]
    /\ ownerWorker[t] # None => ownerWorker'[t] = ownerWorker[t]

LEMMA WakeMoves ==
    ASSUME IInv, NEW D \in SUBSET Tasks, WakeTasks(D),
           UNCHANGED <<fiber, ownerWorker>>
    PROVE  \A t \in Tasks : TaskMoves(t) /\ TaskStays(t)
BY DEF WakeTasks, Revived, TaskMoves, TaskStays

LEMMA FiberMoves ==
    ASSUME IInv, NEW w \in Workers, NEW t \in Tasks, FiberStep(w, t)
    PROVE  \A u \in Tasks : TaskMoves(u) /\ TaskStays(u)
<1>1. /\ pc[w] = "fiber" /\ cur[w] = t /\ ownerWorker[t] = w
      /\ state[t] = IF fiber[t] \in {"code", "finished"}
                    THEN "Running" ELSE "Suspending"
    BY DEF FiberStep, Spawn, HandOver, AwaitReturns, AwaitBlocks,
        PrepareSuspend,
        ArmTimer, SubmitIo, Finish, EpilogueDone, EpilogueSuspend,
        EpilogueWoken, InUserCode, InFiber, IInv, WorkersInv
<1>2. CASE \E c \in Tasks : \/ Spawn(w, t, c) \/ HandOver(w, t, c)
                            \/ AwaitReturns(w, t, c) \/ AwaitBlocks(w, t, c)
    BY <1>1, <1>2 DEF Spawn, Spawned, HandOver, AwaitReturns, AwaitBlocks,
        InFiber,
        TaskMoves, TaskStays, IInv, TypeOK
<1>3. CASE \/ PrepareSuspend(w, t, "timer") \/ PrepareSuspend(w, t, "io")
           \/ ArmTimer(w, t) \/ SubmitIo(w, t) \/ Finish(w, t)
    BY <1>1, <1>3 DEF PrepareSuspend, ArmTimer, SubmitIo, Finish, InUserCode,
        InFiber, TaskMoves, TaskStays, IInv, TypeOK
<1>4. CASE \/ EpilogueDone(w, t) \/ EpilogueSuspend(w, t)
           \/ EpilogueWoken(w, t)
    BY <1>1, <1>4 DEF EpilogueDone, EpilogueSuspend, EpilogueWoken, InFiber,
        TaskMoves, TaskStays, IInv, TypeOK
<1>5. QED
    BY <1>2, <1>3, <1>4 DEF FiberStep

LEMMA NextMoves ==
    ASSUME IInv, [Next]_vars
    PROVE  \A t \in Tasks : TaskMoves(t) /\ TaskStays(t)
<1> DEFINE Good == \A t \in Tasks : TaskMoves(t) /\ TaskStays(t)
<1>1. ASSUME NEW w \in Workers, WorkerStep(w)
      PROVE  Good
  <2>1. CASE TakeLocal(w) \/ Steal(w) \/ Park(w) \/ Exit(w)
    <3>1. PromoteTimersLocked(w)
      BY <2>1 DEF TakeLocal, Steal, Park, Exit, NothingToTake
    <3> QED
      BY <3>1, WakeMoves DEF PromoteTimersLocked, IInv, TypeOK
  <2>2. CASE StartSlice(w)
    <3>1. cur[w] \in Tasks /\ state[cur[w]] = "Runnable"
      BY <2>2 DEF StartSlice, IInv, TypeOK, WorkersInv
    <3> QED
      BY <2>2, <3>1 DEF StartSlice, TaskMoves, TaskStays, IInv, TypeOK
  <2>3. CASE ResumeWaiter(w)
    <3>1. PICK t \in resuming[w] : Resume({t})
      BY <2>3 DEF ResumeWaiter
    <3>2. {t} \in SUBSET Tasks
      BY DEF IInv, TypeOK
    <3> QED
      BY <2>3, <3>1, <3>2, WakeMoves DEF ResumeWaiter, Resume
  <2>4. CASE ResumedAll(w) \/ EnqueueBack(w)
    BY <2>4 DEF ResumedAll, EnqueueBack, taskVars, TaskMoves, TaskStays
  <2> QED BY <1>1, <2>1, <2>2, <2>3, <2>4, FiberMoves DEF WorkerStep
<1>2. ASSUME NEW t \in Tasks, Expire(t) \/ IoComplete(t)
      PROVE  Good
  <2>1. CASE Expire(t)
    BY <2>1 DEF Expire, taskVars, TaskMoves, TaskStays
  <2>2. CASE IoComplete(t)
    <3>1. /\ WakeTasks({t}) /\ {t} \in SUBSET Tasks
          /\ UNCHANGED <<fiber, ownerWorker>>
      BY <2>2 DEF IoComplete, Resume
    <3> QED BY <3>1, WakeMoves
  <2> QED BY <1>2, <2>1, <2>2
<1>3. CASE MainStep \/ UNCHANGED vars
    BY <1>3 DEF MainStep, MainSpawn, MainAwait, Shutdown, MainJoin, Spawned,
        vars, taskVars, TaskMoves, TaskStays, IInv, TypeOK
<1>4. QED
    BY <1>1, <1>2, <1>3 DEF Next, Terminated

\* A step leaves every handle where it is, gives the handle of a new task to
\* the main thread or to a running task, or moves one to an elder of its holder.
HandlesMove ==
    \/ holder' = holder
    \/ \E t, c \in Tasks : \E p \in Elders(t) :
          /\ holder[c] = t /\ state[t] = "Running"
          /\ holder' = [holder EXCEPT ![c] = p]
    \/ \E c \in Tasks : \E p \in Tasks \cup {Main} :
          /\ holder' = [holder EXCEPT ![c] = p]
          /\ state[c] = "Pending"
          /\ IF p = Main THEN main = "run" ELSE state[p] = "Running"

LEMMA NextHandles ==
    ASSUME IInv, [Next]_vars
    PROVE  HandlesMove
<1>1. ASSUME NEW w \in Workers, NEW t \in Tasks, NEW c \in Tasks,
             Spawn(w, t, c)
      PROVE  HandlesMove
  <2>1. state[t] = "Running"
    BY <1>1 DEF Spawn, InUserCode, InFiber, IInv, WorkersInv
  <2> QED BY <1>1, <2>1, ConstantsAssumption DEF Spawn, Spawned, HandlesMove
<1>2. ASSUME NEW c \in Tasks, MainSpawn(c)
      PROVE  HandlesMove
    BY <1>2 DEF MainSpawn, Spawned, HandlesMove
<1>3. ASSUME NEW w \in Workers, NEW t \in Tasks, FiberStep(w, t),
             ~ \E c \in Tasks : Spawn(w, t, c) \/ HandOver(w, t, c)
      PROVE  holder' = holder
    BY <1>3 DEF FiberStep, AwaitReturns, AwaitBlocks, PrepareSuspend, ArmTimer,
        SubmitIo, Finish, EpilogueDone, EpilogueSuspend, EpilogueWoken
<1>4. ASSUME NEW w \in Workers, WorkerStep(w),
             ~ \E t \in Tasks : FiberStep(w, t)
      PROVE  holder' = holder
    BY <1>4 DEF WorkerStep, TakeLocal, Steal, Park, Exit, NothingToTake,
        PromoteTimersLocked, StartSlice, ResumeWaiter, ResumedAll, EnqueueBack,
        taskVars
<1>5. CASE \/ \E t \in Tasks : Expire(t) \/ IoComplete(t)
           \/ \E c \in Tasks : MainAwait(c)
           \/ Shutdown \/ MainJoin \/ UNCHANGED vars
    BY <1>5 DEF Expire, IoComplete, MainAwait, Shutdown, MainJoin, vars,
        taskVars, HandlesMove
<1>6. ASSUME NEW w \in Workers, NEW t \in Tasks, NEW c \in Tasks,
             HandOver(w, t, c)
      PROVE  HandlesMove
  <2>1. state[t] = "Running"
    BY <1>6 DEF HandOver, InUserCode, InFiber, IInv, WorkersInv
  <2> QED BY <1>6, <2>1 DEF HandOver, HandlesMove
<1>7. QED
    BY <1>1, <1>2, <1>3, <1>4, <1>5, <1>6
       DEF Next, MainStep, Terminated, FiberStep, HandlesMove


\* Handles form a forest rooted in the main thread, and completed tasks have
\* finished fibers.
FamilyInv ==
    /\ NothingHeldInv
    /\ \A t \in Tasks :
         state[t] \in {"Done", "Deleted"} => fiber[t] = "finished"
    /\ \A t \in Tasks : holder[t] \in Tasks => holder[holder[t]] # None
    /\ \A S \in SUBSET {t \in Tasks : holder[t] # None} :
         S # {} => \E t \in S : holder[t] \notin S

LEMMA InitFamily == Init => FamilyInv
BY ConstantsAssumption DEF Init, FamilyInv, NothingHeldInv

\* An elder is the holder, or an elder of the holder.
LEMMA EldersUp ==
    ASSUME NEW t \in Tasks, NEW p \in Elders(t), p # holder[t]
    PROVE  /\ holder[t] # Main
           /\ holder[t] \in Tasks => p \in Elders(holder[t])
<1>1. p \in Tasks \cup {Main}
    BY DEF Elders
<1>2. ASSUME holder[t] = Main
      PROVE  FALSE
  <2>1. {Main} \in SUBSET (Tasks \cup {Main})
    OBVIOUS
  <2> QED BY <1>2, <2>1 DEF Elders
<1>3. ASSUME NEW S \in SUBSET (Tasks \cup {Main}), holder[holder[t]] \in S,
             \A u \in S \ {Main} : holder[u] \in S,
             holder[t] \in Tasks
      PROVE  p \in S
  <2>1. S \cup {holder[t]} \in SUBSET (Tasks \cup {Main})
    BY <1>3
  <2>2. \A u \in (S \cup {holder[t]}) \ {Main} : holder[u] \in S \cup {holder[t]}
    BY <1>3
  <2>3. p \in S \cup {holder[t]}
    BY <2>1, <2>2 DEF Elders
  <2> QED BY <2>3
<1>4. QED
    BY <1>1, <1>2, <1>3 DEF Elders

\* The elders of a running task were started and have not finished: each holds
\* a handle that is not consumed.
LEMMA EldersLive ==
    ASSUME IInv, FamilyInv, NEW t \in Tasks, state[t] = "Running",
           NEW p \in Elders(t)
    PROVE  /\ p \in Tasks \cup {Main}
           /\ p \in Tasks => holder[p] # None /\ fiber[p] # "finished"
<1> DEFINE L == {Main} \cup {u \in Tasks : /\ holder[u] # None
                                           /\ fiber[u] # "finished"}
<1>1. ASSUME NEW u \in Tasks, holder[u] # None, state[u] # "Deleted"
      PROVE  holder[u] \in L
  <2>1. holder[u] \in Tasks \cup {Main}
    BY <1>1 DEF IInv, TypeOK
  <2>2. ASSUME holder[u] \in Tasks
        PROVE  holder[holder[u]] # None /\ fiber[holder[u]] # "finished"
    BY <1>1, <2>2 DEF FamilyInv, NothingHeldInv
  <2> QED BY <2>1, <2>2
<1>2. holder[t] \in L
    BY <1>1 DEF IInv, WaitersInv
<1>3. \A u \in L \ {Main} : holder[u] \in L
    BY <1>1 DEF FamilyInv
<1>4. p \in L
    BY <1>2, <1>3 DEF Elders
<1>5. QED
    BY <1>4, ConstantsAssumption

\* There is no way round: in no set of tasks is the holder of every member again
\* in the set, or a task that has one and the same member among its elders.
LEMMA NoWayRound ==
    ASSUME FamilyInv, holder \in [Tasks -> Tasks \cup {Main, None}],
           NEW S \in SUBSET Tasks, NEW p \in S,
           \A u \in S : /\ holder[u] # None
                        /\ \/ holder[u] \in S
                           \/ holder[u] \in Tasks /\ p \in Elders(holder[u])
    PROVE  FALSE
<1> DEFINE T == S \cup {u \in Tasks : holder[u] # None /\ p \in Elders(u)}
<1>1. ASSUME NEW u \in Tasks, holder[u] # None, p \in Elders(u)
      PROVE  holder[u] \in T
  <2>1. CASE holder[u] = p
    BY <2>1
  <2>2. CASE holder[u] # p
    <3>1. holder[u] \in Tasks /\ p \in Elders(holder[u])
      BY <1>1, <2>2, EldersUp
    <3>2. holder[u] \in Tasks => holder[holder[u]] # None
      BY DEF FamilyInv
    <3> QED BY <1>1, <3>1, <3>2
  <2> QED BY <2>1, <2>2
<1>2. \A u \in S : holder[u] \in T
    BY DEF FamilyInv
<1>3. T # {} /\ T \in SUBSET {u \in Tasks : holder[u] # None}
    OBVIOUS
<1>4. \A u \in T : holder[u] \in T
    BY <1>1, <1>2
<1>5. QED
    BY <1>3, <1>4 DEF FamilyInv

LEMMA NextNothingHeld ==
    ASSUME IInv, FamilyInv, [Next]_vars
    PROVE  NothingHeldInv'
<1> NothingHeldInv
    BY DEF FamilyInv
<1>1. ASSUME NEW w \in Workers, NEW t \in Tasks, FiberStep(w, t)
      PROVE  NothingHeldInv'
  <2>1. /\ state[t] \in {"Running", "Suspending"}
        /\ fiber[t] # "finished" \/ EpilogueDone(w, t)
    BY <1>1 DEF FiberStep, Spawn, HandOver, AwaitReturns, AwaitBlocks,
        PrepareSuspend, ArmTimer, SubmitIo, Finish, EpilogueDone, EpilogueSuspend,
        EpilogueWoken, InUserCode, InFiber, IInv, WorkersInv
  <2>2. ASSUME NEW c \in Tasks, Spawn(w, t, c)
        PROVE  NothingHeldInv'
    BY <2>1, <2>2 DEF Spawn, Spawned, InUserCode, InFiber, NothingHeldInv, IInv,
                      TypeOK
  <2>3. ASSUME NEW c \in Tasks, AwaitReturns(w, t, c) \/ AwaitBlocks(w, t, c)
        PROVE  NothingHeldInv'
    BY <2>1, <2>3 DEF AwaitReturns, AwaitBlocks, InFiber, NothingHeldInv, IInv,
                      TypeOK
  <2>4. CASE \/ PrepareSuspend(w, t, "timer") \/ PrepareSuspend(w, t, "io")
             \/ ArmTimer(w, t) \/ SubmitIo(w, t)
    BY <2>1, <2>4 DEF PrepareSuspend, ArmTimer, SubmitIo, NothingHeldInv, IInv,
                      TypeOK
  <2>5. CASE Finish(w, t)
    BY <2>1, <2>5 DEF Finish, HandlesConsumed, Consumed, NothingHeldInv, IInv,
                      TypeOK
  <2>6. CASE \/ EpilogueDone(w, t) \/ EpilogueSuspend(w, t)
             \/ EpilogueWoken(w, t)
    BY <2>1, <2>6 DEF EpilogueDone, EpilogueSuspend, EpilogueWoken,
                      NothingHeldInv, IInv, TypeOK
  <2>7. ASSUME NEW c \in Tasks, HandOver(w, t, c)
        PROVE  NothingHeldInv'
    <3> PICK p \in Elders(t) : holder' = [holder EXCEPT ![c] = p]
      BY <2>7 DEF HandOver
    <3>1. state[t] = "Running" /\ holder[c] = t
      BY <2>7 DEF HandOver, InUserCode, InFiber, IInv, WorkersInv
    <3>2. p \in Tasks => fiber[p] # "finished"
      BY <3>1, EldersLive
    <3>3. /\ \A u \in Tasks \ {c} : holder'[u] = holder[u]
          /\ holder'[c] = p /\ fiber' = fiber /\ state' = state
      BY <2>7 DEF HandOver, IInv, TypeOK
    <3> QED BY <3>2, <3>3 DEF NothingHeldInv
  <2> QED BY <1>1, <2>2, <2>3, <2>4, <2>5, <2>6, <2>7 DEF FiberStep
<1>2. ASSUME NEW w \in Workers, WorkerStep(w)
      PROVE  NothingHeldInv'
  <2>1. CASE TakeLocal(w) \/ Steal(w) \/ Park(w) \/ Exit(w)
    <3>1. PromoteTimersLocked(w)
      BY <2>1 DEF TakeLocal, Steal, Park, Exit, NothingToTake
    <3> QED
      BY <3>1, WakeNothingHeld DEF PromoteTimersLocked, IInv, TypeOK
  <2>2. CASE StartSlice(w)
    <3>1. cur[w] \in Tasks /\ state[cur[w]] = "Runnable"
      BY <2>2 DEF StartSlice, IInv, TypeOK, WorkersInv
    <3> QED BY <2>2, <3>1 DEF StartSlice, NothingHeldInv, IInv, TypeOK
  <2>3. CASE ResumeWaiter(w)
    <3>1. PICK t \in resuming[w] : Resume({t})
      BY <2>3 DEF ResumeWaiter
    <3>2. {t} \in SUBSET Tasks
      BY DEF IInv, TypeOK
    <3> QED
      BY <2>3, <3>1, <3>2, WakeNothingHeld DEF ResumeWaiter, Resume
  <2>4. CASE ResumedAll(w) \/ EnqueueBack(w)
    BY <2>4 DEF ResumedAll, EnqueueBack, taskVars, NothingHeldInv
  <2> QED BY <1>1, <1>2, <2>1, <2>2, <2>3, <2>4 DEF WorkerStep
<1>3. ASSUME NEW t \in Tasks, Expire(t) \/ IoComplete(t)
      PROVE  NothingHeldInv'
  <2>1. CASE Expire(t)
    BY <2>1 DEF Expire, taskVars, NothingHeldInv
  <2>2. CASE IoComplete(t)
    <3>1. WakeTasks({t}) /\ {t} \in SUBSET Tasks /\ UNCHANGED <<fiber, holder>>
      BY <2>2 DEF IoComplete, Resume
    <3> QED BY <3>1, WakeNothingHeld
  <2> QED BY <1>3, <2>1, <2>2
<1>4. CASE MainStep
  <2>1. ASSUME NEW c \in Tasks, MainSpawn(c)
        PROVE  NothingHeldInv'
    BY <2>1, ConstantsAssumption DEF MainSpawn, Spawned, NothingHeldInv, IInv,
                                     TypeOK
  <2>2. ASSUME NEW c \in Tasks, MainAwait(c)
        PROVE  NothingHeldInv'
    BY <2>2 DEF MainAwait, NothingHeldInv, IInv, TypeOK
  <2>3. CASE Shutdown \/ MainJoin
    BY <2>3 DEF Shutdown, MainJoin, taskVars, NothingHeldInv
  <2> QED BY <1>4, <2>1, <2>2, <2>3 DEF MainStep
<1>5. CASE UNCHANGED vars
    BY <1>5 DEF vars, taskVars, NothingHeldInv
<1>6. QED
    BY <1>2, <1>3, <1>4, <1>5 DEF Next, Terminated

LEMMA NextFamily ==
    ASSUME IInv, FamilyInv, [Next]_vars
    PROVE  FamilyInv'
<1>1. NothingHeldInv'
    BY NextNothingHeld DEF FamilyInv
<1>2. ASSUME NEW t \in Tasks, state'[t] \in {"Done", "Deleted"}
      PROVE  fiber'[t] = "finished"
    BY <1>2, NextMoves DEF TaskMoves, TaskStays, FamilyInv
<1>3. CASE holder' = holder
    BY <1>1, <1>2, <1>3 DEF FamilyInv
<1>4. ASSUME NEW c \in Tasks, NEW p \in Tasks \cup {Main},
             holder' = [holder EXCEPT ![c] = p], state[c] = "Pending",
             p # Main => state[p] = "Running"
      PROVE  FamilyInv'
  <2>1. /\ holder[c] = None
        /\ holder'[c] = p
        /\ \A t \in Tasks \ {c} : holder'[t] = holder[t]
        /\ p # c
        /\ p \in Tasks => holder[p] # None
    BY <1>4, ConstantsAssumption DEF IInv, TypeOK, WaitersInv
  <2>2. \A t \in Tasks : holder[t] # c
    BY <2>1 DEF FamilyInv
  <2>3. \A t \in Tasks : holder'[t] \in Tasks => holder'[holder'[t]] # None
    BY <2>1, ConstantsAssumption DEF FamilyInv
  <2>4. ASSUME NEW S \in SUBSET {t \in Tasks : holder'[t] # None}, S # {}
        PROVE  \E t \in S : holder'[t] \notin S
    <3>1. CASE S = {c}
      BY <2>1, <3>1
    <3>2. CASE S # {c}
      <4>1. /\ S \ {c} # {}
            /\ S \ {c} \in SUBSET {t \in Tasks : holder[t] # None}
        BY <2>1, <2>4, <3>2
      <4>2. PICK t \in S \ {c} : holder[t] \notin S \ {c}
        BY <4>1 DEF FamilyInv
      <4> QED BY <2>1, <2>2, <4>2
    <3> QED BY <3>1, <3>2
  <2> QED BY <1>1, <1>2, <2>3, <2>4 DEF FamilyInv
<1>5. ASSUME NEW t \in Tasks, NEW c \in Tasks, holder[c] = t,
             state[t] = "Running",
             NEW p \in Elders(t), holder' = [holder EXCEPT ![c] = p]
      PROVE  FamilyInv'
  <2>1. /\ holder[t] # None
        /\ p \in Tasks \cup {Main} /\ p # None
        /\ p \in Tasks => holder[p] # None
    BY <1>5, EldersLive, ConstantsAssumption DEF IInv, WaitersInv
  <2>2. /\ holder'[c] = p
        /\ \A u \in Tasks \ {c} : holder'[u] = holder[u]
    BY <1>5 DEF IInv, TypeOK
  <2>3. \A u \in Tasks : holder'[u] \in Tasks => holder'[holder'[u]] # None
    BY <1>5, <2>1, <2>2 DEF FamilyInv
  <2>4. ASSUME NEW S \in SUBSET {u \in Tasks : holder'[u] # None}, S # {}
        PROVE  \E u \in S : holder'[u] \notin S
    <3>1. S \in SUBSET {u \in Tasks : holder[u] # None}
      BY <1>5, <2>2, ConstantsAssumption
    <3>2. CASE c \notin S
      BY <2>2, <2>4, <3>1, <3>2 DEF FamilyInv
    <3>3. CASE c \in S
      <4> SUFFICES ASSUME \A u \in S : holder'[u] \in S PROVE FALSE
        OBVIOUS
      <4>1. p \in S
        BY <2>2, <3>3
      <4>2. \A u \in S : /\ holder[u] # None
                         /\ \/ holder[u] \in S
                            \/ holder[u] \in Tasks /\ p \in Elders(holder[u])
        BY <1>5, <2>2, <3>1
      <4>3. holder \in [Tasks -> Tasks \cup {Main, None}]
        BY DEF IInv, TypeOK
      <4> QED BY <3>1, <4>1, <4>2, <4>3, NoWayRound
    <3> QED BY <3>2, <3>3
  <2> QED BY <1>1, <1>2, <2>3, <2>4 DEF FamilyInv
<1>6. QED
    BY <1>3, <1>4, <1>5, NextHandles DEF HandlesMove

-----------------------------------------------------------------------------
(* Shutdown finds every task consumed, and from then on nothing moves.      *)

StopInv ==
    /\ stopping <=> main # "run"
    /\ stopping => \A t \in Tasks : state[t] \in {"Pending", "Deleted"}

\* Handles form a forest: with the main thread's children all tasks are gone.
LEMMA ShutdownFindsNoTask ==
    ASSUME IInv, FamilyInv, Shutdown
    PROVE  \A t \in Tasks : state[t] \in {"Pending", "Deleted"}
<1> DEFINE S == {t \in Tasks : state[t] \notin {"Pending", "Deleted"}}
<1>1. \A t \in S : holder[t] \in S
  <2> SUFFICES ASSUME NEW t \in S PROVE holder[t] \in S
    OBVIOUS
  <2>1. holder[t] # None
    BY DEF IInv, WaitersInv
  <2>2. holder[t] \in Tasks
    BY <2>1 DEF Shutdown, HandlesConsumed, Consumed, IInv, TypeOK
  <2>3. state[holder[t]] # "Pending"
    BY <2>2 DEF FamilyInv, IInv, WaitersInv
  <2>4. state[holder[t]] # "Deleted"
    BY <2>2 DEF FamilyInv, NothingHeldInv
  <2> QED BY <2>2, <2>3, <2>4
<1>2. S \in SUBSET {t \in Tasks : holder[t] # None}
    BY DEF IInv, WaitersInv
<1>3. S = {}
    BY <1>1, <1>2 DEF FamilyInv
<1>4. QED
    BY <1>3

LEMMA NextStop ==
    ASSUME IInv, FamilyInv, StopInv, [Next]_vars
    PROVE  StopInv'
<1>1. CASE Shutdown
    BY <1>1, ShutdownFindsNoTask DEF Shutdown, taskVars, StopInv
<1>2. CASE MainJoin
    BY <1>2 DEF MainJoin, taskVars, StopInv
<1>3. CASE ~ Shutdown /\ ~ MainJoin
  <2>1. UNCHANGED <<main, stopping>>
    <3>1. ASSUME NEW w \in Workers, NEW t \in Tasks, FiberStep(w, t)
          PROVE  UNCHANGED <<main, stopping>>
      BY <3>1 DEF FiberStep, Spawn, HandOver, AwaitReturns, AwaitBlocks,
          PrepareSuspend, ArmTimer, SubmitIo, Finish, EpilogueDone, EpilogueSuspend,
          EpilogueWoken, mainVars
    <3>2. ASSUME NEW w \in Workers, WorkerStep(w)
          PROVE  UNCHANGED <<main, stopping>>
      BY <3>1, <3>2 DEF WorkerStep, TakeLocal, Steal, Park, Exit,
          NothingToTake, PromoteTimersLocked, StartSlice, ResumeWaiter,
          ResumedAll, EnqueueBack, mainVars
    <3>3. CASE \/ \E t \in Tasks : Expire(t) \/ IoComplete(t)
               \/ \E c \in Tasks : MainSpawn(c) \/ MainAwait(c)
               \/ UNCHANGED vars
      BY <3>3 DEF Expire, IoComplete, MainSpawn, MainAwait, vars, mainVars
    <3> QED BY <1>3, <3>2, <3>3 DEF Next, MainStep, Terminated
  <2>2. ASSUME stopping, NEW t \in Tasks, state'[t] # state[t]
        PROVE  FALSE
    <3>1. state[t] = "Pending" /\ state'[t] = "Runnable"
      BY <2>2, NextMoves DEF TaskMoves, StopInv
    <3>2. holder[t] = None /\ holder'[t] # None
      BY <3>1, NextIInv DEF IInv, WaitersInv
    <3>3. ASSUME NEW u \in Tasks, NEW c \in Tasks, holder[c] = u,
                 NEW p \in Elders(u), holder' = [holder EXCEPT ![c] = p]
          PROVE  FALSE
      BY <3>2, <3>3, ConstantsAssumption DEF IInv, TypeOK
    <3>4. PICK p \in Tasks \cup {Main} :
            IF p = Main THEN main = "run" ELSE state[p] = "Running"
      BY <3>2, <3>3, NextHandles DEF HandlesMove
    <3> QED BY <2>2, <3>4 DEF StopInv
  <2> QED BY <2>1, <2>2 DEF StopInv
<1>4. QED
    BY <1>1, <1>2, <1>3

-----------------------------------------------------------------------------
(* Runnable tasks stay on a queue or in a worker's hands. *)

\* A suspended task has an owner, whose pinned queue it will be put on.
OwnedInv == \A t \in Tasks : state[t] = "Suspended" => ownerWorker[t] \in Workers

RunnableInv == \A t \in Tasks : state[t] = "Runnable" => Queued(t) \/ Held(t)

LEMMA NextOwned ==
    ASSUME IInv, OwnedInv, [Next]_vars
    PROVE  OwnedInv'
<1> SUFFICES ASSUME NEW t \in Tasks, state'[t] = "Suspended"
             PROVE  ownerWorker'[t] \in Workers
    BY DEF OwnedInv
<1>1. ownerWorker[t] \in Workers
    BY NextMoves DEF TaskMoves, OwnedInv
<1>2. QED
    BY <1>1, NextMoves, ConstantsAssumption DEF TaskStays

\* Waking D loses no runnable task, when the queues end up as WakeLocked
\* leaves them.
LEMMA WakeKeepsRunnable ==
    ASSUME IInv, OwnedInv, RunnableInv, NEW D \in SUBSET Tasks, WakeTasks(D)
    PROVE  \A t \in Tasks : state'[t] = "Runnable" =>
              \/ Held(t)
              \/ \E w \in Workers : t \in ready[w] \cup PinnedAfterWake(D)[w]
BY DEF WakeTasks, Revived, PinnedAfterWake, OwnedInv, RunnableInv, Queued, Held

LEMMA FetchKeepsRunnable ==
    ASSUME IInv, OwnedInv, RunnableInv, ~ stopping, NEW w \in Workers,
           TakeLocal(w) \/ Steal(w) \/ Park(w) \/ Exit(w)
    PROVE  RunnableInv'
<1>1. /\ PromoteTimersLocked(w) /\ WakeTasks(due)
      /\ due \in SUBSET Tasks
      /\ cur[w] = None
    BY DEF TakeLocal, Steal, Park, Exit, NothingToTake, PromoteTimersLocked,
        IInv, TypeOK, WorkersInv
<1>2. \A t \in Tasks : state'[t] = "Runnable" =>
         \/ Held(t)
         \/ \E v \in Workers : t \in ready[v] \cup PinnedAfterWake(due)[v]
    BY <1>1, WakeKeepsRunnable
<1>3. PinnedAfterWake(due) \in [Workers -> SUBSET Tasks]
    BY <1>1, PromoteStep
<1>4. CASE Park(w) \/ Exit(w)
    BY <1>2, <1>4 DEF Park, Exit, NothingToTake, RunnableInv, Queued, Held
<1>5. ASSUME NEW t \in Tasks, TakeWork(w, t),
             \A v \in Workers :
                (ready[v] \cup PinnedAfterWake(due)[v]) \ {t}
                    \subseteq ready'[v] \cup pinned'[v]
      PROVE  RunnableInv'
  <2>1. cur' = [cur EXCEPT ![w] = t]
    BY <1>5 DEF TakeWork
  <2>2. Held(t)' /\ \A u \in Tasks : Held(u) => Held(u)'
    BY <1>1, <2>1, ConstantsAssumption DEF Held, IInv, TypeOK
  <2> QED BY <1>2, <1>5, <2>2 DEF RunnableInv, Queued
<1>6. CASE TakeLocal(w)
    BY <1>3, <1>5, <1>6 DEF TakeLocal, LocalWork, IInv, TypeOK
<1>7. CASE Steal(w)
    BY <1>3, <1>5, <1>7 DEF Steal, IInv, TypeOK
<1>8. QED
    BY <1>4, <1>6, <1>7

LEMMA FiberKeepsRunnable ==
    ASSUME IInv, RunnableInv, NEW w \in Workers, NEW t \in Tasks,
           FiberStep(w, t)
    PROVE  RunnableInv'
<1>1. /\ pc[w] = "fiber" /\ cur[w] = t
      /\ state[t] \in {"Running", "Suspending"}
    BY DEF FiberStep, Spawn, HandOver, AwaitReturns, AwaitBlocks,
        PrepareSuspend,
        ArmTimer, SubmitIo, Finish, EpilogueDone, EpilogueSuspend,
        EpilogueWoken, InUserCode, InFiber, IInv, WorkersInv
<1>2. ASSUME NEW c \in Tasks, Spawn(w, t, c)
      PROVE  RunnableInv'
    BY <1>2 DEF Spawn, RunnableInv, Queued, Held, IInv, TypeOK
<1>3. CASE \E c \in Tasks : \/ HandOver(w, t, c) \/ AwaitReturns(w, t, c)
                            \/ AwaitBlocks(w, t, c)
    BY <1>1, <1>3 DEF HandOver, AwaitReturns, AwaitBlocks, queueVars,
        workerVars, RunnableInv, Queued, Held, IInv, TypeOK
<1>4. CASE \/ PrepareSuspend(w, t, "timer") \/ PrepareSuspend(w, t, "io")
           \/ ArmTimer(w, t) \/ SubmitIo(w, t) \/ Finish(w, t)
    BY <1>1, <1>4 DEF PrepareSuspend, ArmTimer, SubmitIo, Finish, queueVars,
        workerVars, RunnableInv, Queued, Held, IInv, TypeOK
<1>5. CASE EpilogueDone(w, t) \/ EpilogueSuspend(w, t)
  <2>1. \A u \in Tasks : Held(u) /\ u # t => Held(u)'
    BY <1>1, <1>5 DEF EpilogueDone, EpilogueSuspend, Held, IInv, TypeOK
  <2> QED
    BY <1>1, <1>5, <2>1 DEF EpilogueDone, EpilogueSuspend, queueVars,
        RunnableInv, Queued, IInv, TypeOK
<1>6. CASE EpilogueWoken(w, t)
    BY <1>1, <1>6 DEF EpilogueWoken, queueVars, RunnableInv, Queued, Held,
        IInv, TypeOK
<1>7. QED
    BY <1>2, <1>3, <1>4, <1>5, <1>6 DEF FiberStep

LEMMA ResumeKeepsRunnable ==
    ASSUME IInv, OwnedInv, RunnableInv, NEW t \in Tasks, Resume({t}),
           UNCHANGED <<ready, cur>>
    PROVE  RunnableInv'
<1>1. {t} \in SUBSET Tasks /\ WakeTasks({t}) /\ pinned' = PinnedAfterWake({t})
    BY DEF Resume
<1>2. QED
    BY <1>1, WakeKeepsRunnable DEF RunnableInv, Queued, Held

LEMMA NextRunnable ==
    ASSUME IInv, OwnedInv, StopInv, StopInv', RunnableInv, [Next]_vars
    PROVE  RunnableInv'
<1>1. CASE stopping'
    BY <1>1 DEF StopInv, RunnableInv
<1>2. ASSUME NEW w \in Workers, WorkerStep(w), ~ stopping'
      PROVE  RunnableInv'
  <2>1. CASE TakeLocal(w) \/ Steal(w) \/ Park(w) \/ Exit(w)
    <3>1. ~ stopping
      BY <1>2, <2>1 DEF TakeLocal, Steal, Park, Exit, NothingToTake,
         PromoteTimersLocked
    <3> QED BY <2>1, <3>1, FetchKeepsRunnable
  <2>2. CASE StartSlice(w)
    BY <2>2 DEF StartSlice, queueVars, RunnableInv, Queued, Held, IInv, TypeOK
  <2>3. CASE ResumeWaiter(w)
    BY <2>3, ResumeKeepsRunnable DEF ResumeWaiter, IInv, TypeOK
  <2>4. CASE ResumedAll(w)
    BY <2>4 DEF ResumedAll, taskVars, queueVars, RunnableInv, Queued, Held
  <2>5. CASE EnqueueBack(w)
    <3>1. PICK t \in Tasks : t = cur[w] /\ ownerWorker[t] = w
      BY <2>5 DEF EnqueueBack, IInv, TypeOK, WorkersInv
    <3>2. Queued(t)'
      BY <2>5, <3>1 DEF EnqueueBack, Queued, IInv, TypeOK
    <3>3. \A u \in Tasks : /\ Held(u) /\ u # t => Held(u)'
                           /\ Queued(u) => Queued(u)'
      BY <2>5, <3>1 DEF EnqueueBack, Held, Queued, IInv, TypeOK
    <3> QED
      BY <2>5, <3>2, <3>3 DEF EnqueueBack, taskVars, RunnableInv
  <2> QED
    BY <1>2, <2>1, <2>2, <2>3, <2>4, <2>5, FiberKeepsRunnable DEF WorkerStep
<1>3. ASSUME NEW t \in Tasks, Expire(t) \/ IoComplete(t)
      PROVE  RunnableInv'
  <2>1. CASE Expire(t)
    BY <2>1 DEF Expire, taskVars, RunnableInv, Queued, Held
  <2>2. CASE IoComplete(t)
    BY <2>2, ResumeKeepsRunnable DEF IoComplete
  <2> QED BY <1>3, <2>1, <2>2
<1>4. ASSUME NEW c \in Tasks, MainSpawn(c)
      PROVE  RunnableInv'
    BY <1>4 DEF MainSpawn, RunnableInv, Queued, Held, IInv, TypeOK
<1>5. CASE (\E c \in Tasks : MainAwait(c)) \/ MainJoin
    BY <1>5 DEF MainAwait, MainJoin, taskVars, queueVars, workerVars,
       RunnableInv, Queued, Held, IInv, TypeOK
<1>6. CASE Shutdown \/ UNCHANGED vars
    BY <1>6 DEF Shutdown, vars, taskVars, queueVars, workerVars, RunnableInv,
       Queued, Held
<1>7. QED
    BY <1>1, <1>2, <1>3, <1>4, <1>5, <1>6 DEF Next, MainStep, Terminated

\* In every execution a runnable task is on a queue or in a worker's hands,
\* although a worker leaves with the last work it takes after `stopping'.
THEOREM NeverDropsWork == Spec => []NoWorkDropped
<1>1. Init => FamilyInv /\ StopInv /\ OwnedInv /\ RunnableInv
    BY InitFamily DEF Init, StopInv, OwnedInv, RunnableInv
<1>2. IInv /\ FamilyInv /\ [Next]_vars => FamilyInv'
    BY NextFamily
<1>3. IInv /\ FamilyInv /\ StopInv /\ [Next]_vars => StopInv'
    BY NextStop
<1>4. IInv /\ OwnedInv /\ [Next]_vars => OwnedInv'
    BY NextOwned
<1>5. /\ IInv /\ OwnedInv /\ StopInv /\ StopInv' /\ RunnableInv /\ [Next]_vars
      => RunnableInv'
    BY NextRunnable
<1>6. StopInv /\ RunnableInv => NoWorkDropped
    BY DEF StopInv, RunnableInv, NoWorkDropped
<1>7. QED
    BY <1>1, <1>2, <1>3, <1>4, <1>5, <1>6, Invariance, PTL DEF Spec

-----------------------------------------------------------------------------
(* The gauges.  Each counter moves with the set of tasks it counts. *)

OnQueue   == {t \in Tasks : Queued(t)}
Asleep    == {t \in Tasks : state[t] = "Suspended"}
Completed == {t \in Tasks : state[t] \in {"Done", "Deleted"}}

LEMMA CountGain ==
    ASSUME NEW A \in SUBSET Tasks, NEW B \in SUBSET Tasks, A \cap B = {}
    PROVE  Cardinality(A \cup B) = Cardinality(A) + Cardinality(B)
<1>1. IsFiniteSet(A) /\ IsFiniteSet(B)
    BY ConstantsAssumption, FS_Subset
<1>2. /\ Cardinality(A) \in Nat /\ Cardinality(B) \in Nat
      /\ Cardinality(A \cap B) = 0
    BY <1>1, FS_CardinalityType, FS_EmptySet
<1>3. Cardinality(A \cup B) = Cardinality(A) + Cardinality(B) - Cardinality(A \cap B)
    BY <1>1, FS_Union
<1>4. QED
    BY <1>2, <1>3

LEMMA CountLose ==
    ASSUME NEW A \in SUBSET Tasks, NEW B \in SUBSET A
    PROVE  Cardinality(A \ B) = Cardinality(A) - Cardinality(B)
<1>1. Cardinality(A) = Cardinality(A \ B) + Cardinality(B)
  <2>1. A = (A \ B) \cup B /\ (A \ B) \cap B = {}
    OBVIOUS
  <2> QED BY <2>1, CountGain
<1>2. Cardinality(A \ B) \in Nat /\ Cardinality(B) \in Nat
    BY ConstantsAssumption, FS_Subset, FS_CardinalityType
<1>3. QED
    BY <1>1, <1>2

LEMMA CountOne == \A t \in Tasks : Cardinality({t}) = 1
BY FS_Singleton

LEMMA GaugesInit == Init => GaugesExact
<1> SUFFICES ASSUME Init PROVE GaugesExact
    OBVIOUS
<1>1. OnQueue = {} /\ Asleep = {} /\ Completed = {}
    BY DEF Init, OnQueue, Queued, Asleep, Completed
<1>2. QED
    BY <1>1, FS_EmptySet DEF Init, GaugesExact, OnQueue, Asleep, Completed

\* Waking D moves its suspended tasks from the sleepers to the queues.
LEMMA WakeCounts ==
    ASSUME IInv, GaugesExact, NEW D \in SUBSET Tasks, WakeTasks(D)
    PROVE  /\ suspendedTasks' = Cardinality(Asleep')
           /\ Completed' = Completed
           /\ Revived(D) \cap OnQueue = {}
           /\ QueuedAfterWake(D) = Cardinality(OnQueue \cup Revived(D))
<1>1. Revived(D) \in SUBSET Asleep /\ Asleep \in SUBSET Tasks
    BY DEF Revived, Asleep
<1>2. Asleep' = Asleep \ Revived(D)
    BY DEF WakeTasks, Revived, Asleep
<1>3. suspendedTasks' = Cardinality(Asleep')
    BY <1>1, <1>2, CountLose DEF WakeTasks, GaugesExact, Asleep
<1>4. Completed' = Completed
    BY DEF WakeTasks, Revived, Completed
<1>5. OnQueue \in SUBSET Tasks /\ Revived(D) \cap OnQueue = {}
    BY DEF OnQueue, Queued, Revived, IInv, QueuesInv
<1>6. QueuedAfterWake(D) = Cardinality(OnQueue \cup Revived(D))
    BY <1>1, <1>5, CountGain DEF QueuedAfterWake, GaugesExact, OnQueue
<1>7. QED
    BY <1>3, <1>4, <1>5, <1>6

LEMMA WakeFillsQueues ==
    ASSUME IInv, OwnedInv, NEW D \in SUBSET Tasks
    PROVE  \A t \in Tasks :
              t \in OnQueue \cup Revived(D)
              <=> \E w \in Workers : t \in ready[w] \cup PinnedAfterWake(D)[w]
BY DEF OnQueue, Queued, Revived, PinnedAfterWake, OwnedInv, IInv, TypeOK

LEMMA FetchCounts ==
    ASSUME IInv, OwnedInv, GaugesExact, NEW w \in Workers,
           TakeLocal(w) \/ Steal(w) \/ Park(w) \/ Exit(w)
    PROVE  GaugesExact'
<1> DEFINE All == OnQueue \cup Revived(due)
<1>1. /\ PromoteTimersLocked(w) /\ WakeTasks(due)
      /\ due \in SUBSET Tasks /\ completedTasks' = completedTasks
    BY DEF TakeLocal, Steal, Park, Exit, NothingToTake, PromoteTimersLocked,
        IInv, TypeOK
<1>2. /\ suspendedTasks' = Cardinality(Asleep')
      /\ completedTasks' = Cardinality(Completed')
      /\ QueuedAfterWake(due) = Cardinality(All)
    BY <1>1, WakeCounts DEF GaugesExact, Completed
<1>3. \A t \in Tasks :
         t \in All
         <=> \E v \in Workers : t \in ready[v] \cup PinnedAfterWake(due)[v]
    BY <1>1, WakeFillsQueues
<1>4. PinnedAfterWake(due) \in [Workers -> SUBSET Tasks]
    BY <1>1, PromoteStep
<1>5. All \in SUBSET Tasks
    BY DEF OnQueue, Revived, IInv, TypeOK
<1> HIDE DEF All
<1>6. ASSUME NEW t \in All, queued' = QueuedAfterWake(due) - 1,
             OnQueue' = All \ {t}
      PROVE  queued' = Cardinality(OnQueue')
  <2>1. {t} \in SUBSET All /\ Cardinality({t}) = 1
    BY <1>5, CountOne
  <2> QED BY <1>2, <1>5, <1>6, <2>1, CountLose
<1>7. queued' = Cardinality(OnQueue')
  <2>1. CASE TakeLocal(w)
    <3>1. PICK t \in LocalWork(w) :
            /\ TakeWork(w, t)
            /\ ready' = [ready EXCEPT ![w] = @ \ {t}]
            /\ pinned' = [PinnedAfterWake(due) EXCEPT ![w] = @ \ {t}]
      BY <2>1 DEF TakeLocal
    <3>2. t \in Tasks /\ t \in ready[w] \cup PinnedAfterWake(due)[w]
      BY <1>4 DEF LocalWork, IInv, TypeOK
    <3>3. \A v \in Workers \ {w} :
            t \notin ready[v] /\ t \notin PinnedAfterWake(due)[v]
      BY <1>1, <3>2, PromoteStep, ConstantsAssumption DEF IInv, TypeOK, QueuesInv
    <3>4. \A u \in Tasks : Queued(u)' <=>
            /\ u # t
            /\ \E v \in Workers : u \in ready[v] \cup PinnedAfterWake(due)[v]
      BY <1>4, <3>1, <3>3 DEF Queued, IInv, TypeOK
    <3>5. t \in All /\ OnQueue' = All \ {t}
      BY <1>3, <1>5, <3>2, <3>4 DEF OnQueue
    <3> QED BY <1>6, <3>1, <3>5 DEF TakeWork
  <2>2. CASE Steal(w)
    <3>1. PICK v \in Workers \ {w} : \E t \in ready[v] :
            /\ TakeWork(w, t)
            /\ ready' = [ready EXCEPT ![v] = @ \ {t}]
      BY <2>2 DEF Steal
    <3>2. PICK t \in ready[v] :
            /\ TakeWork(w, t)
            /\ ready' = [ready EXCEPT ![v] = @ \ {t}]
      BY <3>1
    <3>3. pinned' = PinnedAfterWake(due) /\ t \in Tasks
      BY <2>2 DEF Steal, IInv, TypeOK
    <3>4. /\ \A x \in Workers \ {v} : t \notin ready[x]
          /\ \A x \in Workers : t \notin PinnedAfterWake(due)[x]
      BY <1>1, <3>3, PromoteStep, ConstantsAssumption DEF IInv, TypeOK, QueuesInv
    <3>5. \A u \in Tasks : Queued(u)' <=>
            /\ u # t
            /\ \E x \in Workers : u \in ready[x] \cup PinnedAfterWake(due)[x]
      BY <1>4, <3>2, <3>3, <3>4 DEF Queued, IInv, TypeOK
    <3>6. t \in All /\ OnQueue' = All \ {t}
      BY <1>3, <1>5, <3>3, <3>5 DEF OnQueue
    <3> QED BY <1>6, <3>2, <3>6 DEF TakeWork
  <2>3. CASE Park(w) \/ Exit(w)
    <3>1. /\ ready' = ready /\ pinned' = PinnedAfterWake(due)
          /\ queued' = QueuedAfterWake(due)
      BY <2>3 DEF Park, Exit, NothingToTake
    <3>2. OnQueue' = All
      BY <1>3, <1>5, <3>1 DEF OnQueue, Queued
    <3> QED BY <1>2, <3>1, <3>2
  <2> QED BY <2>1, <2>2, <2>3
<1>8. QED
    BY <1>2, <1>7 DEF GaugesExact, OnQueue, Asleep, Completed

LEMMA ResumeCounts ==
    ASSUME IInv, OwnedInv, GaugesExact, NEW t \in Tasks, Resume({t}),
           UNCHANGED <<ready, completedTasks>>
    PROVE  GaugesExact'
<1>1. /\ {t} \in SUBSET Tasks /\ WakeTasks({t})
      /\ pinned' = PinnedAfterWake({t}) /\ queued' = QueuedAfterWake({t})
    BY DEF Resume
<1>2. OnQueue' = OnQueue \cup Revived({t})
  <2>1. \A u \in Tasks : u \in OnQueue \cup Revived({t}) <=> Queued(u)'
    BY <1>1, WakeFillsQueues DEF Queued
  <2>2. OnQueue \cup Revived({t}) \in SUBSET Tasks
    BY DEF OnQueue, Revived
  <2> QED BY <2>1, <2>2 DEF OnQueue
<1>3. QED
    BY <1>1, <1>2, WakeCounts DEF GaugesExact, OnQueue, Asleep, Completed

\* Putting one more task on a queue.
LEMMA EnqueueCounts ==
    ASSUME IInv, GaugesExact, NEW t \in Tasks, ~ Queued(t),
           \A u \in Tasks : Queued(u)' <=> Queued(u) \/ u = t,
           queued' = queued + 1, Asleep' = Asleep, Completed' = Completed,
           UNCHANGED gauges
    PROVE  GaugesExact'
<1>1. OnQueue' = OnQueue \cup {t} /\ OnQueue \cap {t} = {}
    BY DEF OnQueue
<1>2. OnQueue \in SUBSET Tasks /\ {t} \in SUBSET Tasks
    BY DEF OnQueue
<1>3. queued' = Cardinality(OnQueue')
    BY <1>1, <1>2, CountGain, CountOne DEF GaugesExact, OnQueue
<1>4. QED
    BY <1>3 DEF GaugesExact, OnQueue, Asleep, Completed, gauges

\* A step that leaves the queues, the sleepers and the completed tasks alone.
LEMMA NothingCounts ==
    ASSUME GaugesExact, UNCHANGED <<ready, pinned, queued, gauges>>,
           Asleep' = Asleep, Completed' = Completed
    PROVE  GaugesExact'
<1>1. OnQueue' = OnQueue
    BY DEF OnQueue, Queued
<1>2. QED
    BY <1>1 DEF GaugesExact, OnQueue, Asleep, Completed, gauges

LEMMA FiberCounts ==
    ASSUME IInv, GaugesExact, NEW w \in Workers, NEW t \in Tasks,
           FiberStep(w, t)
    PROVE  GaugesExact'
<1>1. state[t] \in {"Running", "Suspending"}
    BY DEF FiberStep, Spawn, HandOver, AwaitReturns, AwaitBlocks,
        PrepareSuspend,
        ArmTimer, SubmitIo, Finish, EpilogueDone, EpilogueSuspend,
        EpilogueWoken, InUserCode, InFiber, IInv, WorkersInv
<1>2. /\ {t} \in SUBSET Tasks /\ Cardinality({t}) = 1
      /\ Asleep \in SUBSET Tasks /\ Asleep \cap {t} = {}
      /\ Completed \in SUBSET Tasks /\ Completed \cap {t} = {}
    BY <1>1, CountOne DEF Asleep, Completed
<1>3. ASSUME NEW c \in Tasks, Spawn(w, t, c)
      PROVE  GaugesExact'
  <2>1. ~ Queued(c) /\ \A u \in Tasks : Queued(u)' <=> Queued(u) \/ u = c
    BY <1>3 DEF Spawn, Spawned, Queued, IInv, TypeOK, QueuesInv
  <2>2. /\ queued' = queued + 1 /\ UNCHANGED gauges
        /\ Asleep' = Asleep /\ Completed' = Completed
    BY <1>3 DEF Spawn, Spawned, Asleep, Completed, IInv, TypeOK
  <2> QED BY <2>1, <2>2, EnqueueCounts
<1>4. CASE \E c \in Tasks : \/ HandOver(w, t, c) \/ AwaitReturns(w, t, c)
                            \/ AwaitBlocks(w, t, c)
  <2>1. Asleep' = Asleep /\ Completed' = Completed
    BY <1>1, <1>4 DEF HandOver, AwaitReturns, AwaitBlocks, Asleep, Completed,
       IInv, TypeOK
  <2> QED
    BY <1>4, <2>1, NothingCounts DEF HandOver, AwaitReturns, AwaitBlocks,
       queueVars, gauges
<1>5. CASE \/ PrepareSuspend(w, t, "timer") \/ PrepareSuspend(w, t, "io")
           \/ ArmTimer(w, t) \/ SubmitIo(w, t) \/ Finish(w, t)
           \/ EpilogueWoken(w, t)
  <2>1. Asleep' = Asleep /\ Completed' = Completed
    BY <1>1, <1>5 DEF PrepareSuspend, ArmTimer, SubmitIo, Finish,
       EpilogueWoken, Asleep, Completed, IInv, TypeOK
  <2> QED
    BY <1>5, <2>1, NothingCounts DEF PrepareSuspend, ArmTimer, SubmitIo,
       Finish, EpilogueWoken, queueVars, gauges
<1>6. CASE EpilogueDone(w, t)
  <2>1. Completed' = Completed \cup {t} /\ Asleep' = Asleep
    BY <1>1, <1>6 DEF EpilogueDone, Completed, Asleep, IInv, TypeOK
  <2>2. OnQueue' = OnQueue
    BY <1>6 DEF EpilogueDone, queueVars, OnQueue, Queued
  <2>3. Cardinality(Completed') = Cardinality(Completed) + 1
    BY <1>2, <2>1, CountGain
  <2> QED
    BY <1>6, <2>1, <2>2, <2>3 DEF EpilogueDone, queueVars, GaugesExact,
       OnQueue, Asleep, Completed
<1>7. CASE EpilogueSuspend(w, t)
  <2>1. Asleep' = Asleep \cup {t} /\ Completed' = Completed
    BY <1>1, <1>7 DEF EpilogueSuspend, Completed, Asleep, IInv, TypeOK
  <2>2. OnQueue' = OnQueue
    BY <1>7 DEF EpilogueSuspend, queueVars, OnQueue, Queued
  <2>3. Cardinality(Asleep') = Cardinality(Asleep) + 1
    BY <1>2, <2>1, CountGain
  <2> QED
    BY <1>7, <2>1, <2>2, <2>3 DEF EpilogueSuspend, queueVars, GaugesExact,
       OnQueue, Asleep, Completed
<1>8. QED
    BY <1>3, <1>4, <1>5, <1>6, <1>7 DEF FiberStep

LEMMA EnqueueBackCounts ==
    ASSUME IInv, GaugesExact, NEW w \in Workers, EnqueueBack(w)
    PROVE  GaugesExact'
<1>1. PICK t \in Tasks : t = cur[w] /\ ownerWorker[t] = w
    BY DEF EnqueueBack, IInv, TypeOK, WorkersInv
<1>2. ~ Queued(t) /\ \A u \in Tasks : Queued(u)' <=> Queued(u) \/ u = t
    BY <1>1 DEF EnqueueBack, Queued, IInv, TypeOK, QueuesInv
<1>3. /\ queued' = queued + 1 /\ UNCHANGED gauges
      /\ Asleep' = Asleep /\ Completed' = Completed
    BY DEF EnqueueBack, taskVars, Asleep, Completed
<1>4. QED
    BY <1>2, <1>3, EnqueueCounts

LEMMA MainSpawnCounts ==
    ASSUME IInv, GaugesExact, NEW c \in Tasks, MainSpawn(c)
    PROVE  GaugesExact'
<1>1. ~ Queued(c) /\ \A u \in Tasks : Queued(u)' <=> Queued(u) \/ u = c
    BY DEF MainSpawn, Spawned, Queued, IInv, TypeOK, QueuesInv
<1>2. /\ queued' = queued + 1 /\ UNCHANGED gauges
      /\ Asleep' = Asleep /\ Completed' = Completed
    BY DEF MainSpawn, Spawned, Asleep, Completed, IInv, TypeOK
<1>3. QED
    BY <1>1, <1>2, EnqueueCounts

LEMMA NextGauges ==
    ASSUME IInv, OwnedInv, GaugesExact, [Next]_vars
    PROVE  GaugesExact'
<1>1. ASSUME NEW w \in Workers, WorkerStep(w)
      PROVE  GaugesExact'
  <2>1. CASE StartSlice(w)
    <3>1. cur[w] \in Tasks /\ state[cur[w]] = "Runnable"
      BY <2>1 DEF StartSlice, IInv, TypeOK, WorkersInv
    <3>2. Asleep' = Asleep /\ Completed' = Completed
      BY <2>1, <3>1 DEF StartSlice, Asleep, Completed, IInv, TypeOK
    <3> QED BY <2>1, <3>2, NothingCounts DEF StartSlice, queueVars
  <2>2. CASE ResumeWaiter(w)
    BY <2>2, ResumeCounts DEF ResumeWaiter, IInv, TypeOK
  <2>3. CASE ResumedAll(w)
    BY <2>3, NothingCounts DEF ResumedAll, taskVars, queueVars, Asleep,
       Completed
  <2> QED
    BY <1>1, <2>1, <2>2, <2>3, FetchCounts, FiberCounts, EnqueueBackCounts
       DEF WorkerStep
<1>2. ASSUME NEW t \in Tasks, Expire(t) \/ IoComplete(t)
      PROVE  GaugesExact'
  <2>1. CASE Expire(t)
    BY <2>1, NothingCounts DEF Expire, taskVars, Asleep, Completed
  <2>2. CASE IoComplete(t)
    BY <2>2, ResumeCounts DEF IoComplete
  <2> QED BY <1>2, <2>1, <2>2
<1>3. ASSUME NEW c \in Tasks, MainAwait(c)
      PROVE  GaugesExact'
  <2>1. Asleep' = Asleep /\ Completed' = Completed
    BY <1>3 DEF MainAwait, Asleep, Completed, IInv, TypeOK
  <2> QED BY <1>3, <2>1, NothingCounts DEF MainAwait, queueVars
<1>4. CASE Shutdown \/ MainJoin \/ UNCHANGED vars
    BY <1>4, NothingCounts DEF Shutdown, MainJoin, vars, taskVars, queueVars,
       Asleep, Completed
<1>5. QED
    BY <1>1, <1>2, <1>3, <1>4, MainSpawnCounts DEF Next, MainStep, Terminated

\* In every execution the counters of the scheduler agree with the tasks
\* they count, whenever its mutex is free.
THEOREM GaugesAgree == Spec => []GaugesExact
<1>1. Init => OwnedInv /\ GaugesExact
    BY GaugesInit DEF Init, OwnedInv
<1>2. IInv /\ OwnedInv /\ [Next]_vars => OwnedInv'
    BY NextOwned
<1>3. IInv /\ OwnedInv /\ GaugesExact /\ [Next]_vars => GaugesExact'
    BY NextGauges
<1>4. QED
    BY <1>1, <1>2, <1>3, Invariance, PTL DEF Spec
=============================================================================
