----------------------------- MODULE Semaphore ------------------------------
(***************************************************************************)
(* The counting semaphore (Absolute-Runtime/src/tasks.cpp,                 *)
(* absolute_semaphore_acquire and the others).  permits and maximum are    *)
(* 32-bit integers: the largest is MaxInt here, and sums wrap around.      *)
(***************************************************************************)
EXTENDS Blocking

CONSTANTS
    Maximum,      \* the maximum the semaphore was created with
    MaxInt        \* INT32_MAX in the code

ASSUME MaximumAssumption ==
    /\ MaxInt \in Nat \ {0}
    /\ Maximum \in 1 .. MaxInt

VARIABLE permits

semVars == <<procVars, permits>>

SemOps == {"acquire", "release"}

\* The value of an int expression.
Int32(x) ==
    IF x > MaxInt THEN x - 2 * (MaxInt + 1)
    ELSE IF x < - MaxInt - 1 THEN x + 2 * (MaxInt + 1)
    ELSE x

\* absolute_semaphore_create accepts any initial number up to the maximum.
SemInit == AllIdle("acquire") /\ permits \in 0 .. Maximum

BeginAcquire(p) == Enter(p, "acquire") /\ UNCHANGED permits

Acquire(p) ==
    /\ Tries(p, "acquire")
    /\ permits > 0
    /\ permits' = Int32(permits - 1)
    /\ Leave(p)

Block(p) ==
    /\ Tries(p, "acquire")
    /\ permits <= 0
    /\ Wait(p)
    /\ UNCHANGED permits

TryAcquire(p) ==
    /\ pc[p] = "idle"
    /\ permits > 0
    /\ permits' = Int32(permits - 1)
    /\ UNCHANGED procVars

\* A definition marked Fault is a broken variant of the one that follows it.

\* Fault: the sum is computed first and overflows.
FitsAfterAdding(k) == Int32(permits + k) <= Maximum

Fits(k) == k <= Int32(Maximum - permits)

\* Fault: one waiter is resumed, whatever number of permits is released.
PopsOne(S, k) == PoppedFrom(S, "acquire", 1)

Pops(S, k) == PoppedFrom(S, "acquire", k)

\* A release that does not fit is refused and changes nothing.
Release(p, k) ==
    /\ pc[p] = "idle"
    /\ Fits(k)
    /\ permits' = Int32(permits + k)
    /\ \E S \in SUBSET Waiters("acquire") :
        /\ Pops(S, k)
        /\ Signal(p, "release", S)

SemNotify(p) == NotifyAll(p, {"acquire"}) /\ UNCHANGED permits

SemWake(p) == (ResumeOne(p) \/ Resumed(p)) /\ UNCHANGED permits

SemContinue(p) == Acquire(p) \/ Block(p) \/ SemNotify(p) \/ SemWake(p)

SemNext ==
    \E p \in Procs :
        \/ BeginAcquire(p)
        \/ TryAcquire(p)
        \/ \E k \in 1 .. MaxInt : Release(p, k)
        \/ SemContinue(p)
        \/ SpuriousWake(p) /\ UNCHANGED permits

\* A call that has begun goes on; nobody has to begin one.
SemSpec     == SemInit /\ [][SemNext]_semVars
SemFairSpec == SemSpec /\ \A p \in Procs : WF_semVars(SemContinue(p))

-----------------------------------------------------------------------------
(* Properties *)

\* A release never takes the permits beyond the maximum, not by overflow
\* either, and an acquire never below zero.
PermitsInRange == permits \in 0 .. Maximum

\* The types of the variables.
SemTypeOK == ProcsOK(SemOps) /\ PermitsInRange

\* A fiber waits only as long as every permit is already spoken for by somebody
\* on its way to take it, and a native thread sleeps beside a permit only while
\* the notification of the release is still to come.
NoStrandedWaiter ==
    /\ Waiters("acquire") # {} => permits <= Cardinality(Trying("acquire"))
    /\ Parked("acquire") # {} /\ permits > 0 => At("notify") # {}

\* Whoever is blocked while there is a permit gets to try again, or the permit
\* goes to somebody else.
PermitIsOffered ==
    \A p \in Procs :
        p \in Blocked("acquire") /\ permits > 0
            ~> p \notin Blocked("acquire") \/ permits = 0
=============================================================================
