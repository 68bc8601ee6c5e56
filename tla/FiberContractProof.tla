------------------------- MODULE FiberContractProof -------------------------
(***************************************************************************)
(* The scheduler implements TaskContract, for every set of tasks and       *)
(* workers: each step is a step of the contract or leaves it unchanged.    *)
(***************************************************************************)
EXTENDS FiberSchedulerProof

\* The contract's variables, as the scheduler's state defines them.
Phase    == [t \in Tasks |-> phaseOf(t)]
OnWorker == [w \in Workers |-> IF pc[w] = "fiber" THEN cur[w] ELSE None]

LEMMA InitContract == Init => Contract!Init
BY DEF Init, Contract!Init, phaseOf

\* What a step shows the contract depends on these parts of the state only.
LEMMA InvisibleStep ==
    ASSUME \A t \in Tasks : phaseOf(t)' = phaseOf(t),
           \A w \in Workers : /\ pc'[w] = "fiber" <=> pc[w] = "fiber"
                              /\ pc[w] = "fiber" => cur'[w] = cur[w],
           UNCHANGED <<holder, ownerWorker>>
    PROVE  UNCHANGED Contract!vars
BY DEF Contract!vars

\* Waking tasks changes no phase.
LEMMA WakeInvisible ==
    ASSUME NEW D \in SUBSET Tasks, WakeTasks(D)
    PROVE  \A t \in Tasks : phaseOf(t)' = phaseOf(t)
BY DEF WakeTasks, Revived, phaseOf

LEMMA FetchContract ==
    ASSUME IInv, NEW w \in Workers,
           TakeLocal(w) \/ Steal(w) \/ Park(w) \/ Exit(w)
    PROVE  UNCHANGED Contract!vars
<1>1. PromoteTimersLocked(w)
    BY DEF TakeLocal, Steal, Park, Exit, NothingToTake
<1>2. \A t \in Tasks : phaseOf(t)' = phaseOf(t)
    BY <1>1, WakeInvisible DEF PromoteTimersLocked, IInv, TypeOK
<1>3. \A v \in Workers : /\ pc'[v] = "fiber" <=> pc[v] = "fiber"
                         /\ pc[v] = "fiber" => cur'[v] = cur[v]
  <2>1. pc[w] = "fetch" /\ pc \in [Workers -> WorkerPoints] /\ DOMAIN cur = Workers
    BY <1>1 DEF PromoteTimersLocked, IInv, TypeOK
  <2>2. CASE \E t : TakeWork(w, t)
    <3>1. PICK t : TakeWork(w, t)
      BY <2>2
    <3>2. \/ pc' = [Notified EXCEPT ![w] = "exited"] /\ cur' = cur
          \/ pc' = [pc EXCEPT ![w] = "start"] /\ cur' = [cur EXCEPT ![w] = t]
      BY <3>1 DEF TakeWork, NotifyAndGo
    <3> QED BY <2>1, <3>2 DEF Notified
  <2>3. CASE Park(w) \/ Exit(w)
    <3>1. cur' = cur /\ \E x \in {"parked", "exited"} : pc' = [pc EXCEPT ![w] = x]
      BY <2>3 DEF Park, Exit, NothingToTake
    <3> QED BY <2>1, <3>1
  <2> QED BY <2>2, <2>3 DEF TakeLocal, Steal
<1>4. QED
    BY <1>1, <1>2, <1>3, InvisibleStep DEF PromoteTimersLocked

LEMMA StartSliceContract ==
    ASSUME IInv, NEW w \in Workers, NEW t \in Tasks, cur[w] = t, StartSlice(w)
    PROVE  Contract!Run(w, t)
<1>1. /\ state[t] = "Runnable" /\ pc[w] = "start"
      /\ ownerWorker[t] \in {None, w}
    BY DEF StartSlice, IInv, TypeOK, WorkersInv
<1>2. \A v \in Workers : v # w => cur[v] # t
    BY ConstantsAssumption DEF IInv, WorkersInv
<1>3. Phase' = Phase /\ Phase[t] = "live"
    BY <1>1 DEF StartSlice, Phase, phaseOf, IInv, TypeOK
<1>4. /\ OnWorker[w] = None
      /\ \A v \in Workers : OnWorker[v] # t
      /\ OnWorker' = [OnWorker EXCEPT ![w] = t]
    BY <1>1, <1>2, ConstantsAssumption DEF StartSlice, OnWorker, IInv, TypeOK
<1>5. ownerWorker' = [ownerWorker EXCEPT ![t] = w]
    BY <1>1 DEF StartSlice, IInv, TypeOK
<1>6. QED
    BY <1>1, <1>3, <1>4, <1>5 DEF Contract!Run, Phase, OnWorker, StartSlice

\* A running fiber acts under the contract.
LEMMA FiberActs ==
    ASSUME NEW w \in Workers, NEW t \in Tasks, pc[w] = "fiber", cur[w] = t
    PROVE  Contract!Acting(t) /\ OnWorker[w] = t
BY DEF Contract!Acting, OnWorker

LEMMA SpawnContract ==
    ASSUME IInv, NEW w \in Workers, NEW t \in Tasks, NEW c \in Tasks,
           Spawn(w, t, c)
    PROVE  Contract!Spawn(t, c)
<1>1. Contract!Acting(t)
    BY FiberActs DEF Spawn, InUserCode, InFiber
<1>2. Phase[c] = "none" /\ Phase' = [Phase EXCEPT ![c] = "live"]
    BY DEF Spawn, Spawned, Phase, phaseOf, IInv, TypeOK
<1>3. OnWorker' = OnWorker
    BY DEF Spawn, NotifyProgress, Notified, OnWorker, IInv, TypeOK
<1>4. QED
    BY <1>1, <1>2, <1>3 DEF Spawn, Contract!Spawn, Phase, OnWorker

\* The elders of a running task are the main thread and tasks that live, and
\* not one whose handle it holds itself.
LEMMA EldersCanConsume ==
    ASSUME IInv, FamilyInv, NEW t \in Tasks, NEW c \in Tasks,
           state[t] = "Running", holder[c] = t, NEW p \in Elders(t)
    PROVE  /\ p \in Tasks \cup {Main}
           /\ p # c
           /\ Contract!Living(p)
<1>1. /\ p \in Tasks \cup {Main}
      /\ p \in Tasks => holder[p] # None /\ fiber[p] # "finished"
    BY EldersLive
<1>2. ASSUME p = c
      PROVE  FALSE
  <2>1. \A u \in {c} : /\ holder[u] # None
                       /\ \/ holder[u] \in {c}
                          \/ holder[u] \in Tasks /\ c \in Elders(holder[u])
    BY <1>2, ConstantsAssumption
  <2>2. holder \in [Tasks -> Tasks \cup {Main, None}]
    BY DEF IInv, TypeOK
  <2>3. {c} \in SUBSET Tasks /\ c \in {c}
    OBVIOUS
  <2> QED BY <2>1, <2>2, <2>3, NoWayRound
<1>3. ASSUME p \in Tasks
      PROVE  Phase[p] = "live"
  <2>1. state[p] \notin {"Pending", "Done", "Deleted"}
    BY <1>1, <1>3 DEF FamilyInv, IInv, WaitersInv
  <2> QED BY <1>3, <2>1 DEF Phase, phaseOf
<1>4. QED
    BY <1>1, <1>2, <1>3 DEF Contract!Living, Phase

LEMMA HandOverContract ==
    ASSUME IInv, FamilyInv, NEW w \in Workers, NEW t \in Tasks, NEW c \in Tasks,
           HandOver(w, t, c)
    PROVE  \E p \in Tasks \cup {Main} : Contract!HandOver(t, c, p)
<1> PICK p \in Elders(t) : holder' = [holder EXCEPT ![c] = p]
    BY DEF HandOver
<1>1. Contract!Acting(t)
    BY FiberActs DEF HandOver, InUserCode, InFiber
<1>2. state[t] = "Running" /\ holder[c] = t
    BY DEF HandOver, InUserCode, InFiber, IInv, WorkersInv
<1>3. p \in Tasks \cup {Main} /\ p # c /\ Contract!Living(p)
    BY <1>2, EldersCanConsume
<1>4. Phase[c] \in {"live", "done"} /\ Phase' = Phase
    BY <1>2, ConstantsAssumption
       DEF HandOver, Consumed, Phase, phaseOf, IInv, TypeOK, WaitersInv
<1>5. QED
    BY <1>1, <1>2, <1>3, <1>4
       DEF HandOver, Contract!HandOver, Phase, OnWorker, workerVars

LEMMA AwaitReturnsContract ==
    ASSUME IInv, NEW w \in Workers, NEW t \in Tasks, NEW c \in Tasks,
           AwaitReturns(w, t, c)
    PROVE  Contract!Consume(t, c)
<1>1. Contract!Acting(t)
    BY FiberActs DEF AwaitReturns, InFiber
<1>2. Phase[c] = "done" /\ Phase' = [Phase EXCEPT ![c] = "consumed"]
    BY DEF AwaitReturns, Phase, phaseOf, IInv, TypeOK
<1>3. QED
    BY <1>1, <1>2 DEF AwaitReturns, Contract!Consume, Phase, OnWorker, workerVars

LEMMA EpilogueDoneContract ==
    ASSUME IInv, NEW w \in Workers, NEW t \in Tasks, EpilogueDone(w, t)
    PROVE  Contract!Complete(w, t)
<1>1. OnWorker[w] = t
    BY FiberActs DEF EpilogueDone, InFiber
<1>2. Phase' = [Phase EXCEPT ![t] = "done"]
    BY DEF EpilogueDone, InFiber, Phase, phaseOf, IInv, TypeOK
<1>3. OnWorker' = [OnWorker EXCEPT ![w] = None]
    BY DEF EpilogueDone, InFiber, OnWorker, IInv, TypeOK
<1>4. QED
    BY <1>1, <1>2, <1>3
       DEF EpilogueDone, Contract!Complete, Phase, OnWorker

LEMMA LeaveContract ==
    ASSUME IInv, NEW w \in Workers, NEW t \in Tasks,
           EpilogueSuspend(w, t) \/ EpilogueWoken(w, t)
    PROVE  Contract!Leave(w, t)
<1>1. OnWorker[w] = t
    BY FiberActs DEF EpilogueSuspend, EpilogueWoken, InFiber
<1>2. state[t] = "Suspending"
    BY DEF EpilogueSuspend, EpilogueWoken, InFiber, IInv, WorkersInv
<1>3. Phase' = Phase
    BY <1>2 DEF EpilogueSuspend, EpilogueWoken, Phase, phaseOf, IInv, TypeOK
<1>4. OnWorker' = [OnWorker EXCEPT ![w] = None]
    BY DEF EpilogueSuspend, EpilogueWoken, InFiber, OnWorker, IInv, TypeOK
<1>5. QED
    BY <1>1, <1>3, <1>4
       DEF EpilogueSuspend, EpilogueWoken, Contract!Leave, Phase, OnWorker

LEMMA MainSpawnContract ==
    ASSUME IInv, NEW c \in Tasks, MainSpawn(c)
    PROVE  Contract!Spawn(Main, c)
<1>1. Phase[c] = "none" /\ Phase' = [Phase EXCEPT ![c] = "live"]
    BY DEF MainSpawn, Spawned, Phase, phaseOf, IInv, TypeOK
<1>2. OnWorker' = OnWorker
    BY DEF MainSpawn, NotifyProgress, Notified, OnWorker, IInv, TypeOK
<1>3. QED
    BY <1>1, <1>2
       DEF MainSpawn, Contract!Spawn, Contract!Acting, Phase, OnWorker

LEMMA MainAwaitContract ==
    ASSUME IInv, NEW c \in Tasks, MainAwait(c)
    PROVE  Contract!Consume(Main, c)
<1>1. Phase[c] = "done" /\ Phase' = [Phase EXCEPT ![c] = "consumed"]
    BY DEF MainAwait, Phase, phaseOf, IInv, TypeOK
<1>2. QED
    BY <1>1
       DEF MainAwait, Contract!Consume, Contract!Acting, Phase, OnWorker,
           workerVars

\* The steps of a fiber that the contract does not see.
LEMMA FiberInvisible ==
    ASSUME IInv, NEW w \in Workers, NEW t \in Tasks,
           \/ \E c \in Tasks : AwaitBlocks(w, t, c)
           \/ \E waker \in {"timer", "io"} : PrepareSuspend(w, t, waker)
           \/ ArmTimer(w, t) \/ SubmitIo(w, t) \/ Finish(w, t)
    PROVE  UNCHANGED Contract!vars
<1>1. state[t] \in {"Running", "Suspending"}
    BY DEF AwaitBlocks, PrepareSuspend, ArmTimer, SubmitIo, Finish, InUserCode,
           InFiber, IInv, WorkersInv
<1>2. \A u \in Tasks : phaseOf(u)' = phaseOf(u)
    BY <1>1 DEF AwaitBlocks, PrepareSuspend, ArmTimer, SubmitIo, Finish,
        phaseOf, IInv, TypeOK
<1>3. \A v \in Workers : /\ pc'[v] = "fiber" <=> pc[v] = "fiber"
                         /\ pc[v] = "fiber" => cur'[v] = cur[v]
    BY DEF AwaitBlocks, PrepareSuspend, ArmTimer, SubmitIo, Finish,
        NotifyProgress, Notified, workerVars, IInv, TypeOK
<1>4. UNCHANGED <<holder, ownerWorker>>
    BY DEF AwaitBlocks, PrepareSuspend, ArmTimer, SubmitIo, Finish
<1>5. QED
    BY <1>2, <1>3, <1>4, InvisibleStep

\* The other steps it does not see: resuming, requeueing, timers, I/O threads,
\* the end of the main thread.
LEMMA OtherInvisible ==
    ASSUME IInv,
           \/ \E w \in Workers : ResumeWaiter(w) \/ ResumedAll(w) \/ EnqueueBack(w)
           \/ \E t \in Tasks : Expire(t) \/ IoComplete(t)
           \/ Shutdown \/ MainJoin \/ UNCHANGED vars
    PROVE  UNCHANGED Contract!vars
<1>1. \A u \in Tasks : phaseOf(u)' = phaseOf(u)
  <2>1. ASSUME NEW w \in Workers, ResumeWaiter(w)
        PROVE  \A u \in Tasks : phaseOf(u)' = phaseOf(u)
    <3>1. PICK t \in resuming[w] : Resume({t})
      BY <2>1 DEF ResumeWaiter
    <3>2. {t} \in SUBSET Tasks
      BY DEF IInv, TypeOK
    <3> QED BY <3>1, <3>2, WakeInvisible DEF Resume
  <2>2. ASSUME NEW t \in Tasks, IoComplete(t)
        PROVE  \A u \in Tasks : phaseOf(u)' = phaseOf(u)
    <3>1. WakeTasks({t}) /\ {t} \in SUBSET Tasks
      BY <2>2 DEF IoComplete, Resume
    <3> QED BY <3>1, WakeInvisible
  <2> QED
    BY <2>1, <2>2 DEF ResumedAll, EnqueueBack, Expire, Shutdown, MainJoin,
       vars, taskVars, phaseOf
<1>2. \A v \in Workers : /\ pc'[v] = "fiber" <=> pc[v] = "fiber"
                         /\ pc[v] = "fiber" => cur'[v] = cur[v]
    BY DEF ResumeWaiter, ResumedAll, EnqueueBack, Expire, IoComplete, Shutdown,
        MainJoin, NotifyProgress, NotifyAndGo, Notified, vars, workerVars,
        IInv, TypeOK
<1>3. UNCHANGED <<holder, ownerWorker>>
    BY DEF ResumeWaiter, ResumedAll, EnqueueBack, Expire, IoComplete, Shutdown,
        MainJoin, vars, taskVars
<1>4. QED
    BY <1>1, <1>2, <1>3, InvisibleStep

LEMMA StepContract ==
    ASSUME IInv, FamilyInv, [Next]_vars
    PROVE  [Contract!Next]_Contract!vars
<1>1. ASSUME NEW w \in Workers, NEW t \in Tasks, FiberStep(w, t)
      PROVE  [Contract!Next]_Contract!vars
  <2>1. CASE \E c \in Tasks : HandOver(w, t, c)
    BY <2>1, HandOverContract DEF Contract!Next
  <2>2. CASE ~ \E c \in Tasks : HandOver(w, t, c)
    BY <1>1, <2>2, SpawnContract, AwaitReturnsContract, EpilogueDoneContract,
       LeaveContract, FiberInvisible DEF FiberStep, Contract!Next
  <2> QED BY <2>1, <2>2
<1>2. ASSUME NEW w \in Workers, WorkerStep(w)
      PROVE  [Contract!Next]_Contract!vars
  <2>1. CASE TakeLocal(w) \/ Steal(w) \/ Park(w) \/ Exit(w)
    BY <2>1, FetchContract
  <2>2. CASE StartSlice(w)
    <3>1. PICK t \in Tasks : cur[w] = t
      BY <2>2, ConstantsAssumption DEF StartSlice, IInv, TypeOK, WorkersInv
    <3> QED
      BY <2>2, <3>1, StartSliceContract DEF Contract!Next
  <2>3. CASE \E t \in Tasks : FiberStep(w, t)
    BY <2>3, <1>1
  <2>4. CASE ResumeWaiter(w) \/ ResumedAll(w) \/ EnqueueBack(w)
    BY <2>4, OtherInvisible
  <2> QED BY <1>2, <2>1, <2>2, <2>3, <2>4 DEF WorkerStep
<1>3. CASE MainStep
    BY <1>3, MainSpawnContract, MainAwaitContract, OtherInvisible
       DEF MainStep, Contract!Next
<1>4. QED
    BY <1>2, <1>3, OtherInvisible DEF Next, Terminated

\* The scheduler implements the contract: a fiber never migrates and never
\* runs twice at once, and a task is consumed once, after it completed, by
\* whoever holds its handle by then, however often the handle has gone from a
\* task that spawned or was given it to a living holder.
THEOREM Implementation == Spec => ImplementsContract
<1>1. Init => Contract!Init /\ FamilyInv
    BY InitContract, InitFamily
<1>2. IInv /\ FamilyInv /\ [Next]_vars => FamilyInv'
    BY NextFamily
<1>3. IInv /\ FamilyInv /\ [Next]_vars => [Contract!Next]_Contract!vars
    BY StepContract
<1>4. QED
    BY <1>1, <1>2, <1>3, Invariance, PTL
       DEF Spec, ImplementsContract, Contract!Spec
=============================================================================
