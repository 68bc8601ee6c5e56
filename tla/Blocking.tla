------------------------------ MODULE Blocking ------------------------------
(***************************************************************************)
(* How the synchronization objects of the runtime block and wake their     *)
(* callers (Absolute-Runtime/src/tasks.cpp, the channels, mutex, semaphore,*)
(* reader/writer lock and once).                                           *)
(*                                                                         *)
(* Every blocking call is a loop: lock the object's mutex, succeed if its  *)
(* condition holds, otherwise wait and try again.  A fiber waits in a      *)
(* deque of Task pointers and is suspended; a native thread waits on a     *)
(* condition variable.  Whoever makes a condition true pops waiters from   *)
(* the deque while it holds the mutex, and after the unlock notifies the   *)
(* condition variable and resumes the popped fibers, one call at a time.   *)
(* Between these calls others may run, and take what the woken ones were   *)
(* woken for.                                                              *)
(*                                                                         *)
(* A resumed fiber runs again (FiberScheduler: SuspendedRunsAgain), also   *)
(* when it is resumed before it has switched away (NoLostWakeup).  Which   *)
(* waiter of a deque is popped first is left open: no property depends on  *)
(* the order.  A process is at one of the points                           *)
(*                                                                         *)
(*   idle     outside the object                                           *)
(*   try      at the head of the loop                                      *)
(*   waiting  a fiber in a deque                                           *)
(*   popped   a fiber taken from a deque, to be resumed by another process *)
(*   parked   a native thread on a condition variable                      *)
(*   notify   unlocked after a change, to notify the condition variable    *)
(*   resume   ... and then to resume the popped fibers                     *)
(***************************************************************************)
EXTENDS Integers, FiniteSets

CONSTANTS
    Fibers,       \* tasks that use the object
    Natives       \* threads outside the scheduler that use it

ASSUME ProcsAssumption ==
    IsFiniteSet(Fibers) /\ IsFiniteSet(Natives) /\ Fibers \cap Natives = {}

VARIABLES
    pc,           \* point of each process
    op,           \* the operation it performs, or performed last
    toResume      \* the fibers it has popped and not yet resumed

Procs == Fibers \cup Natives
procVars == <<pc, op, toResume>>

Points == {"idle", "try", "waiting", "popped", "parked", "notify", "resume"}

\* The types, and the hand-over: a fiber taken from a deque is in the hands of
\* exactly one process that will resume it, so a wake-up is not given twice.
ProcsOK(Ops) ==
    /\ pc \in [Procs -> Points]
    /\ op \in [Procs -> Ops]
    /\ toResume \in [Procs -> SUBSET Fibers]
    /\ \A f \in Fibers :
          Cardinality({p \in Procs : f \in toResume[p]})
              = IF pc[f] = "popped" THEN 1 ELSE 0

AllIdle(o) ==
    /\ pc = [p \in Procs |-> "idle"]
    /\ op = [p \in Procs |-> o]
    /\ toResume = [p \in Procs |-> {}]

At(point)  == {p \in Procs : pc[p] = point}

\* A definition marked Fault is a broken variant of the one that follows it.

\* Fault: the fibers that are resumed are not taken out of the deque.
WaitersKept(o) == {p \in At("waiting") \cup At("popped") : op[p] = o}

Waiters(o) == {p \in At("waiting") : op[p] = o}
Parked(o)  == {p \in At("parked") : op[p] = o}
Blocked(o) == Waiters(o) \cup Parked(o)
Trying(o)  == {p \in At("try") \cup At("popped") : op[p] = o}

-----------------------------------------------------------------------------
\* A call of the blocking operation o.
Enter(p, o) ==
    /\ pc[p] = "idle"
    /\ pc' = [pc EXCEPT ![p] = "try"]
    /\ op' = [op EXCEPT ![p] = o]
    /\ UNCHANGED toResume

Tries(p, o) == pc[p] = "try" /\ op[p] = o

\* It succeeds or fails without anything to wake ...
Leave(p) ==
    /\ pc' = [pc EXCEPT ![p] = "idle"]
    /\ UNCHANGED <<op, toResume>>

\* ... or waits.
Wait(p) ==
    /\ pc' = [pc EXCEPT ![p] = IF p \in Fibers THEN "waiting" ELSE "parked"]
    /\ UNCHANGED <<op, toResume>>

\* S is a choice of at most n waiters of the operation o.
PoppedFrom(S, o, n) ==
    /\ S \subseteq Waiters(o)
    /\ IF Cardinality(Waiters(o)) <= n THEN S = Waiters(o) ELSE Cardinality(S) = n

\* p performed o, popped the fibers S and unlocked.
Signal(p, o, S) ==
    /\ pc' = [q \in Procs |->
                IF q = p THEN "notify" ELSE IF q \in S THEN "popped" ELSE pc[q]]
    /\ op' = [op EXCEPT ![p] = o]
    /\ toResume' = [toResume EXCEPT ![p] = S]

\* notify_one on the condition variable of the operation o.
NotifyOne(p, o) ==
    /\ pc[p] = "notify"
    /\ IF Parked(o) = {}
       THEN pc' = [pc EXCEPT ![p] = "resume"]
       ELSE \E n \in Parked(o) : pc' = [pc EXCEPT ![p] = "resume", ![n] = "try"]
    /\ UNCHANGED <<op, toResume>>

\* notify_all on the condition variables of the operations O.
NotifyAll(p, O) ==
    /\ pc[p] = "notify"
    /\ pc' = [q \in Procs |->
                IF q = p THEN "resume"
                ELSE IF pc[q] = "parked" /\ op[q] \in O THEN "try" ELSE pc[q]]
    /\ UNCHANGED <<op, toResume>>

\* ResumeSchedulerTask for one of the popped fibers.
ResumeOne(p) ==
    /\ pc[p] = "resume"
    /\ \E f \in toResume[p] :
        /\ pc' = [pc EXCEPT ![f] = "try"]
        /\ toResume' = [toResume EXCEPT ![p] = @ \ {f}]
    /\ UNCHANGED op

Resumed(p) ==
    /\ pc[p] = "resume"
    /\ toResume[p] = {}
    /\ Leave(p)

\* A condition variable may wake a thread for no reason.
SpuriousWake(p) ==
    /\ pc[p] = "parked"
    /\ pc' = [pc EXCEPT ![p] = "try"]
    /\ UNCHANGED <<op, toResume>>

=============================================================================
