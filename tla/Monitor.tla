------------------------------ MODULE Monitor -------------------------------
(***************************************************************************)
(* The mutex and the condition variable (Absolute-Runtime/src/tasks.cpp,   *)
(* absolute_mutex_lock, absolute_condition_wait and the others), used the  *)
(* way the documentation asks for: a consumer locks the mutex, waits in a  *)
(* loop while there is no token, takes one and unlocks; a producer locks,  *)
(* adds a token and notifies once, before or after it unlocks.             *)
(*                                                                         *)
(* A wait holds the condition's own mutex while it registers and unlocks   *)
(* the program's mutex: nobody can notify in between.  A fiber registers   *)
(* in a deque of Task pointers.  A native thread remembers the condition's *)
(* generation and sleeps until it has changed; only whether it has changed *)
(* matters here.  A notification pops a fiber or, without one, advances    *)
(* the generation, and wakes a thread only after the unlock, so that it    *)
(* may wake one that has registered since and goes back to sleep.          *)
(***************************************************************************)
EXTENDS Blocking

CONSTANTS
    MaxTokens,    \* bound: tokens that may wait to be taken
    Nobody        \* not a process

ASSUME MonitorAssumption == MaxTokens \in Nat /\ Nobody \notin Procs

VARIABLES
    locked,          \* MutexImpl::locked
    condMutex,       \* who is inside ConditionVariableImpl::mutex for longer
                     \* than a step, if anybody
    nativeWaiters,   \* ConditionVariableImpl::nativeWaiters
    advanced,        \* registered threads whose generation is no longer the
                     \* condition's
    tokens,          \* what the program protects with the mutex
    doing,           \* what each process has locked the mutex for
    holds            \* the processes inside the mutex

condVars    == <<condMutex, nativeWaiters, advanced>>
programVars == <<tokens, doing, holds>>
monVars == <<procVars, locked, condVars, programVars>>

MonOps    == {"lock", "unlock", "wait", "signal", "broadcast"}
Tasks  == {"nothing", "consume", "produce", "notify", "leave"}

MonInit ==
    /\ AllIdle("unlock")
    /\ locked = FALSE
    /\ condMutex = Nobody
    /\ nativeWaiters = 0
    /\ advanced = {}
    /\ tokens = 0
    /\ doing = [p \in Procs |-> "nothing"]
    /\ holds = {}

\* p goes on with t.
Does(p, t) == doing' = [doing EXCEPT ![p] = t]

\* p is outside every runtime call, inside the mutex or not.
In(p)  == pc[p] = "idle" /\ p \in holds
Out(p) == pc[p] = "idle" /\ p \notin holds

-----------------------------------------------------------------------------
(* The mutex.  A definition marked Fault is a broken variant of the one that *)
(* follows it.                                                               *)

BeginLock(p, t) ==
    /\ Out(p)
    /\ doing[p] = "nothing"
    /\ Does(p, t)
    /\ Enter(p, "lock")
    /\ UNCHANGED <<locked, condVars, tokens, holds>>

TakeMutex(p) ==
    /\ ~ locked
    /\ locked' = TRUE
    /\ holds' = holds \cup {p}
    /\ UNCHANGED <<condVars, tokens>>

Lock(p) ==
    /\ Tries(p, "lock")
    /\ TakeMutex(p)
    /\ Leave(p)
    /\ UNCHANGED doing

LockBlocks(p) ==
    /\ Tries(p, "lock")
    /\ locked
    /\ Wait(p)
    /\ UNCHANGED <<locked, condVars, programVars>>

TryLock(p, t) ==
    /\ Out(p)
    /\ doing[p] = "nothing"
    /\ TakeMutex(p)
    /\ Does(p, t)
    /\ UNCHANGED procVars

\* Fault: the mutex stays locked for the waiter that is resumed, which tries
\* to lock it like everybody else.
Handed(S) == locked' = (S # {})

Freed(S) == locked' = FALSE

\* absolute_mutex_unlock up to its unlock: one waiting fiber is popped.
ReleaseMutex(p) ==
    /\ holds' = holds \ {p}
    /\ \E S \in SUBSET Waiters("lock") :
        /\ PoppedFrom(S, "lock", 1)
        /\ Freed(S)
        /\ Signal(p, "unlock", S)

Unlock(p) ==
    /\ In(p)
    /\ doing[p] \in {"leave", "notify"}
    /\ ReleaseMutex(p)
    /\ Does(p, IF doing[p] = "leave" THEN "nothing" ELSE "notify")
    /\ UNCHANGED <<condVars, tokens>>

-----------------------------------------------------------------------------
(* The program. *)

Take(p) ==
    /\ In(p)
    /\ doing[p] = "consume"
    /\ tokens > 0
    /\ tokens' = tokens - 1
    /\ Does(p, "leave")
    /\ UNCHANGED <<procVars, locked, condVars, holds>>

Produce(p) ==
    /\ In(p)
    /\ doing[p] = "produce"
    /\ IF tokens < MaxTokens
       THEN tokens' = tokens + 1 /\ Does(p, "notify")
       ELSE UNCHANGED tokens /\ Does(p, "leave")
    /\ UNCHANGED <<procVars, locked, condVars, holds>>

-----------------------------------------------------------------------------
(* Waiting *)

\* Fault: the mutex is unlocked before the condition's is locked.
LocksLate(p) == UNCHANGED condMutex

LocksFirst(p) == condMutex' = p

\* absolute_condition_wait up to the unlock of the program's mutex.
CondWait(p) ==
    /\ In(p)
    /\ doing[p] = "consume"
    /\ tokens = 0
    /\ condMutex = Nobody
    /\ LocksFirst(p)
    /\ nativeWaiters' = nativeWaiters + (IF p \in Natives THEN 1 ELSE 0)
    /\ ReleaseMutex(p)
    /\ UNCHANGED <<advanced, tokens, doing>>

\* A process that has unlocked on behalf of a wait goes to sleep, and the
\* condition's mutex is free.
Sleep(p) ==
    /\ pc[p] = "resume"
    /\ toResume[p] = {}
    /\ doing[p] = "consume"
    /\ pc' = [pc EXCEPT ![p] = IF p \in Fibers THEN "waiting" ELSE "parked"]
    /\ op' = [op EXCEPT ![p] = "wait"]
    /\ condMutex' = Nobody
    /\ UNCHANGED <<toResume, locked, nativeWaiters, advanced, programVars>>

\* It was woken: a fiber goes on at once, a thread when the generation has
\* changed, and locks the program's mutex again.
Woken(p) ==
    /\ Tries(p, "wait")
    /\ \/ p \in Fibers /\ UNCHANGED <<nativeWaiters, advanced>>
       \/ /\ p \in advanced
          /\ condMutex = Nobody
          /\ nativeWaiters' = nativeWaiters - 1
          /\ advanced' = advanced \ {p}
    /\ op' = [op EXCEPT ![p] = "lock"]
    /\ UNCHANGED <<pc, toResume, locked, condMutex, programVars>>

SleepAgain(p) ==
    /\ Tries(p, "wait")
    /\ p \in Natives \ advanced
    /\ condMutex = Nobody
    /\ Wait(p)
    /\ UNCHANGED <<locked, condVars, programVars>>

-----------------------------------------------------------------------------
(* Notifying *)

\* The threads registered with the condition.
Registered == {p \in Natives : op[p] = "wait" /\ pc[p] \in {"parked", "try"}}

\* Fault: the generation is left as it is.
Unchanged == UNCHANGED advanced

Advance == advanced' = advanced \cup Registered

\* absolute_condition_notify_one (o = "signal") and notify_all ("broadcast")
\* up to the unlock: one fiber is popped or, if there is none, the generation
\* advances; notify_all does both for everybody.
CondNotify(p, o) ==
    /\ pc[p] = "idle"
    /\ doing[p] = "notify"
    /\ condMutex = Nobody
    /\ \E S \in SUBSET Waiters("wait") :
        /\ IF o = "signal" THEN PoppedFrom(S, "wait", 1) ELSE S = Waiters("wait")
        /\ Signal(p, o, S)
        /\ IF nativeWaiters > 0 /\ (o = "broadcast" \/ S = {})
           THEN Advance
           ELSE UNCHANGED advanced
    /\ Does(p, IF p \in holds THEN "leave" ELSE "nothing")
    /\ UNCHANGED <<locked, condMutex, nativeWaiters, tokens, holds>>

\* A notification that popped a fiber does not touch the condition variable.
MonNotify(p) ==
    /\ \/ op[p] = "unlock" /\ NotifyOne(p, "lock")
       \/ op[p] = "signal" /\ toResume[p] = {} /\ NotifyOne(p, "wait")
       \/ op[p] = "broadcast" /\ NotifyAll(p, {"wait"})
       \/ /\ op[p] = "signal" /\ toResume[p] # {}
          /\ pc[p] = "notify"
          /\ pc' = [pc EXCEPT ![p] = "resume"]
          /\ UNCHANGED <<op, toResume>>
    /\ UNCHANGED <<locked, condVars, programVars>>

MonWake(p) ==
    /\ \/ ResumeOne(p)
       \/ doing[p] # "consume" /\ Resumed(p)
    /\ UNCHANGED <<locked, condVars, programVars>>

-----------------------------------------------------------------------------
MonContinue(p) ==
    \/ Lock(p) \/ LockBlocks(p) \/ Unlock(p)
    \/ Take(p) \/ Produce(p)
    \/ CondWait(p) \/ Sleep(p) \/ Woken(p) \/ SleepAgain(p)
    \/ CondNotify(p, "signal")
    \/ MonNotify(p)
    \/ MonWake(p)

MonNext ==
    \E p \in Procs :
        \/ \E t \in {"consume", "produce"} : BeginLock(p, t) \/ TryLock(p, t)
        \/ CondNotify(p, "broadcast")
        \/ MonContinue(p)
        \/ SpuriousWake(p) /\ UNCHANGED <<locked, condVars, programVars>>

\* A call that has begun goes on and a program inside the mutex leaves it;
\* nobody has to begin anything.
MonSpec     == MonInit /\ [][MonNext]_monVars
MonFairSpec == MonSpec /\ \A p \in Procs : WF_monVars(MonContinue(p))

-----------------------------------------------------------------------------
(* Properties *)

\* The types; in particular the mutex is locked exactly when one process, and
\* no other, is inside it, and nativeWaiters counts the registered threads.
MonTypeOK ==
    /\ ProcsOK(MonOps)
    /\ locked = (holds # {})
    /\ Cardinality(holds) <= 1
    /\ holds \subseteq Procs
    /\ condMutex \in Procs \cup {Nobody}
    /\ nativeWaiters = Cardinality(Registered \cup ({condMutex} \cap Natives))
    /\ advanced \subseteq Registered
    /\ tokens \in 0 .. MaxTokens
    /\ doing \in [Procs -> Tasks]

\* The consumers that sleep, or are about to sleep, until they are notified.
Asleep ==
    {p \in Procs : doing[p] = "consume" /\
        \/ condMutex = p
        \/ p \in Blocked("wait")
        \/ Tries(p, "wait") /\ p \in Natives \ advanced}

\* The consumers that are up, and the producers whose notification is to come.
Up ==
    {p \in Procs : doing[p] = "consume" /\ p \notin Asleep}
        \cup {p \in Procs : doing[p] = "notify"}
        \cup {p \in At("notify") : op[p] \in {"signal", "broadcast"}}

\* Consumers sleep only as long as every token is spoken for: although a
\* notification may be spent on a thread that goes back to sleep, and a token
\* on a consumer that never slept, no token is left beside a sleeping consumer.
NoStrandedConsumer == Asleep # {} => tokens <= Cardinality(Up)

\* A consumer that sleeps beside a token is woken, or others take every token.
ConsumerIsWoken ==
    \A p \in Procs : p \in Asleep /\ tokens > 0 ~> p \notin Asleep \/ tokens = 0
=============================================================================
