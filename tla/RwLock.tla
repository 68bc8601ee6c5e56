------------------------------- MODULE RwLock -------------------------------
(***************************************************************************)
(* The reader/writer lock (Absolute-Runtime/src/tasks.cpp,                 *)
(* absolute_rwlock_lock_read and the others).  Waiting writers have        *)
(* priority: while one is registered no reader gets in.  Processes unlock  *)
(* what they hold and nothing else, so the early returns of the unlock     *)
(* calls are not taken.  Nobody asks for the lock while holding it: a      *)
(* nested read lock, which the code grants unless a writer waits and then  *)
(* never, is left out.                                                     *)
(***************************************************************************)
EXTENDS Blocking

VARIABLES
    readers,          \* RwLockImpl::readers
    writer,           \* RwLockImpl::writer
    waitingWriters,   \* RwLockImpl::waitingWriters
    registered,       \* the local of the same name, of the calls in progress
    holds             \* "read", "write" or "none": what each process has locked

lockVars == <<readers, writer, waitingWriters, registered, holds>>
vars == <<procVars, lockVars>>

Ops == {"read", "write", "unlock"}

Init ==
    /\ AllIdle("read")
    /\ readers = 0
    /\ writer = FALSE
    /\ waitingWriters = 0
    /\ registered = {}
    /\ holds = [p \in Procs |-> "none"]

Begin(p, o) ==
    /\ holds[p] = "none"
    /\ Enter(p, o)
    /\ UNCHANGED lockVars

-----------------------------------------------------------------------------
(* Reading.  A definition marked Fault is a broken variant of the one that  *)
(* follows it.                                                              *)

\* Fault: readers get in past a waiting writer.
NoWriterInside == ~ writer

ReadersMayEnter == ~ writer /\ waitingWriters = 0

TakeRead(p) ==
    /\ ReadersMayEnter
    /\ readers' = readers + 1
    /\ holds' = [holds EXCEPT ![p] = "read"]
    /\ UNCHANGED <<writer, waitingWriters, registered>>

LockRead(p) == Tries(p, "read") /\ TakeRead(p) /\ Leave(p)

LockReadBlocks(p) ==
    /\ Tries(p, "read")
    /\ ~ ReadersMayEnter
    /\ Wait(p)
    /\ UNCHANGED lockVars

TryLockRead(p) ==
    /\ pc[p] = "idle" /\ holds[p] = "none"
    /\ TakeRead(p)
    /\ UNCHANGED procVars

\* Fault: a waiting writer is popped only while readers are left.
WriterAfterOthers(S) == PoppedFrom(S, "write", IF readers > 1 THEN 1 ELSE 0)

\* The last reader pops one waiting writer.
WriterAfterReader(S) == PoppedFrom(S, "write", IF readers = 1 THEN 1 ELSE 0)

UnlockRead(p) ==
    /\ pc[p] = "idle" /\ holds[p] = "read"
    /\ readers > 0
    /\ readers' = readers - 1
    /\ holds' = [holds EXCEPT ![p] = "none"]
    /\ \E S \in SUBSET Waiters("write") :
        /\ WriterAfterReader(S)
        /\ Signal(p, "unlock", S)
    /\ UNCHANGED <<writer, waitingWriters, registered>>

-----------------------------------------------------------------------------
(* Writing *)

\* Fault: a writer that has to wait counts itself again on every attempt.
CountsEachAttempt(p) == waitingWriters + 1

\* waitingWriters as the attempt of p sees it: registered once per call.
WithWriter(p) == waitingWriters + (IF p \in registered THEN 0 ELSE 1)

\* Fault: a writer does not look at the readers.
NoOtherWriter == ~ writer

WriterMayEnter == ~ writer /\ readers = 0

LockWrite(p) ==
    /\ Tries(p, "write")
    /\ WriterMayEnter
    /\ waitingWriters' = WithWriter(p) - 1
    /\ registered' = registered \ {p}
    /\ writer' = TRUE
    /\ holds' = [holds EXCEPT ![p] = "write"]
    /\ Leave(p)
    /\ UNCHANGED readers

LockWriteBlocks(p) ==
    /\ Tries(p, "write")
    /\ ~ WriterMayEnter
    /\ waitingWriters' = WithWriter(p)
    /\ registered' = registered \cup {p}
    /\ Wait(p)
    /\ UNCHANGED <<readers, writer, holds>>

\* Does not ask whether writers wait.
TryLockWrite(p) ==
    /\ pc[p] = "idle" /\ holds[p] = "none"
    /\ WriterMayEnter
    /\ writer' = TRUE
    /\ holds' = [holds EXCEPT ![p] = "write"]
    /\ UNCHANGED <<procVars, readers, waitingWriters, registered>>

\* The writer pops one waiting writer or, without one, every waiting reader.
AfterWriter(S) ==
    IF Waiters("write") # {}
    THEN PoppedFrom(S, "write", 1)
    ELSE S = Waiters("read")

UnlockWrite(p) ==
    /\ pc[p] = "idle" /\ holds[p] = "write"
    /\ writer
    /\ writer' = FALSE
    /\ holds' = [holds EXCEPT ![p] = "none"]
    /\ \E S \in SUBSET (Waiters("write") \cup Waiters("read")) :
        /\ AfterWriter(S)
        /\ Signal(p, "unlock", S)
    /\ UNCHANGED <<readers, waitingWriters, registered>>

-----------------------------------------------------------------------------
Notify(p) == NotifyAll(p, {"read", "write"}) /\ UNCHANGED lockVars

Wake(p) == (ResumeOne(p) \/ Resumed(p)) /\ UNCHANGED lockVars

Continue(p) ==
    \/ LockRead(p) \/ LockReadBlocks(p)
    \/ LockWrite(p) \/ LockWriteBlocks(p)
    \/ Notify(p)
    \/ Wake(p)

Unlock(p) == UnlockRead(p) \/ UnlockWrite(p)

Next ==
    \E p \in Procs :
        \/ Begin(p, "read")
        \/ Begin(p, "write")
        \/ TryLockRead(p)
        \/ TryLockWrite(p)
        \/ Unlock(p)
        \/ Continue(p)
        \/ SpuriousWake(p) /\ UNCHANGED lockVars

\* A call that has begun goes on, and whoever holds the lock unlocks it in the
\* end: the program's part of the contract.  Nobody has to lock anything.
Spec     == Init /\ [][Next]_vars
FairSpec == Spec /\ \A p \in Procs : WF_vars(Continue(p)) /\ WF_vars(Unlock(p))

-----------------------------------------------------------------------------
(* Properties *)

Holding(kind) == {p \in Procs : holds[p] = kind}

\* The types, and the counters agree with the processes they count.
TypeOK ==
    /\ ProcsOK(Ops)
    /\ readers = Cardinality(Holding("read"))
    /\ writer = (Holding("write") # {})
    /\ registered \subseteq Procs
    /\ waitingWriters = Cardinality(registered)
    /\ holds \in [Procs -> {"read", "write", "none"}]

\* One writer and nobody else, or readers only, whoever barges in while the
\* woken ones are on their way.
Exclusion ==
    /\ Cardinality(Holding("write")) <= 1
    /\ Holding("write") = {} \/ Holding("read") = {}

\* A writer waits only beside somebody who holds the lock, or while another
\* writer (for a native thread: a notification) is on its way; a reader waits
\* only beside a writer, inside or registered.
NoStrandedWaiter ==
    /\ ~ writer /\ readers = 0 =>
          /\ Waiters("write") # {} => Trying("write") # {}
          /\ Parked("write") # {} => At("notify") # {}
    /\ ~ writer /\ waitingWriters = 0 =>
          /\ Waiters("read") = {}
          /\ Parked("read") # {} => At("notify") # {}

\* Writers have priority: once a writer waits, a writer gets in, however many
\* readers come and go.
WritersGetIn == waitingWriters > 0 ~> writer
=============================================================================
