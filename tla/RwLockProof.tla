---------------------------- MODULE RwLockProof ----------------------------
(***************************************************************************)
(* Proofs about RwLock, for any number of fibers and threads: the lock     *)
(* excludes, and nobody waits beside a lock that would let them in without *)
(* somebody on the way who takes it or wakes them.                         *)
(***************************************************************************)
EXTENDS RwLock, FiniteSetTheorems, TLAPS

Types ==
    /\ pc \in [Procs -> Points]
    /\ op \in [Procs -> Ops]
    /\ toResume \in [Procs -> SUBSET Procs]
    /\ writer \in BOOLEAN
    /\ registered \subseteq Procs
    /\ holds \in [Procs -> {"read", "write", "none"}]

\* The counters agree with the processes they count ...
Counted ==
    /\ readers = Cardinality(Holding("read"))
    /\ waitingWriters = Cardinality(registered)
    /\ writer <=> Holding("write") # {}

\* ... a writer is alone ...
Alone == \A p \in Holding("write") : \A q \in Procs : holds[q] # "none" => q = p

\* ... nobody who is in a call holds the lock ...
Outside == \A p \in Procs : pc[p] # "idle" => holds[p] = "none"

\* ... a writer that waits is registered ...
WaitersCount == Blocked("write") \subseteq registered

\* ... and a fiber that is to be resumed is so once.
HandedOver ==
    \A p \in Procs :
        /\ \A f \in toResume[p] : pc[f] = "popped"
        /\ \A q \in Procs \ {p} : toResume[p] \cap toResume[q] = {}

IInv ==
    /\ Types
    /\ Counted
    /\ Alone
    /\ Outside
    /\ WaitersCount
    /\ HandedOver
    /\ NoStrandedWaiter

-----------------------------------------------------------------------------
(* Counting *)

LEMMA FiniteProcs == IsFiniteSet(Procs)
    BY ProcsAssumption, FS_Union DEF Procs

\* What a counter at zero, or a change of one member, says of the set counted.
LEMMA Counting ==
    ASSUME NEW S \in SUBSET Procs
    PROVE  /\ IsFiniteSet(S)
           /\ Cardinality(S) \in Nat
           /\ Cardinality(S) = 0 <=> S = {}
           /\ \A p \in S : Cardinality(S \ {p}) = Cardinality(S) - 1
           /\ \A p \in Procs \ S : Cardinality(S \cup {p}) = Cardinality(S) + 1
<1>1. IsFiniteSet(S)
    BY FiniteProcs, FS_Subset
<1>2. Cardinality(S) \in Nat
    BY <1>1, FS_CardinalityType
<1>3. Cardinality(S) = 0 <=> S = {}
    BY <1>1, FS_EmptySet
<1>4. \A p \in S : Cardinality(S \ {p}) = Cardinality(S) - 1
    BY <1>1, FS_RemoveElement
<1>5. \A p \in Procs \ S : Cardinality(S \cup {p}) = Cardinality(S) + 1
    BY <1>1, FS_AddElement
<1> QED BY <1>1, <1>2, <1>3, <1>4, <1>5

\* The last reader is the only one.
LEMMA LastReader ==
    ASSUME Types, Counted, NEW p \in Procs, holds[p] = "read", readers = 1
    PROVE  Holding("read") \ {p} = {}
<1>1. Holding("read") \in SUBSET Procs /\ p \in Holding("read")
    BY DEF Holding
<1>2. Cardinality(Holding("read") \ {p}) = 0
    BY <1>1, Counting DEF Counted
<1> QED BY <1>1, <1>2, Counting

\* What the two conditions of entry say of the processes.
LEMMA Entry ==
    ASSUME Types, Counted
    PROVE  /\ readers \in Nat /\ waitingWriters \in Nat
           /\ readers = 0 <=> Holding("read") = {}
           /\ waitingWriters = 0 <=> registered = {}
<1>1. Holding("read") \in SUBSET Procs
    BY DEF Holding
<1> QED BY <1>1, Counting DEF Types, Counted

\* Popping at least one waiter takes one if there is one.
LEMMA PopsSome ==
    ASSUME NEW o, NEW S, PoppedFrom(S, o, 1), Waiters(o) # {}
    PROVE  S # {}
<1>1. CASE Cardinality(Waiters(o)) <= 1
    BY <1>1 DEF PoppedFrom
<1>2. CASE ~ Cardinality(Waiters(o)) <= 1
    BY <1>2, FS_EmptySet DEF PoppedFrom
<1> QED BY <1>1, <1>2

-----------------------------------------------------------------------------
(* The lock: who holds it, and what the counters say *)

LEMMA InitIInv == Init => IInv
<1> SUFFICES ASSUME Init PROVE IInv
    OBVIOUS
<1> USE DEF Init, AllIdle
<1>1. Types
    BY DEF Types, Points, Ops
<1>2. Holding("read") = {} /\ Holding("write") = {}
    BY DEF Holding
<1>3. Counted /\ Alone
    BY <1>2, FS_EmptySet DEF Counted, Alone
<1>4. Outside /\ HandedOver
    BY DEF Outside, HandedOver
<1>5. \A o : Blocked(o) = {}
    BY DEF Blocked, Waiters, Parked, At
<1>6. WaitersCount /\ NoStrandedWaiter
    BY <1>5 DEF WaitersCount, NoStrandedWaiter, Blocked
<1> QED BY <1>1, <1>3, <1>4, <1>6 DEF IInv

\* Every change of the lock keeps its counters exact and its writer alone.
LEMMA TakeReadInside ==
    ASSUME Types, Counted, Alone, NEW p \in Procs, holds[p] = "none", TakeRead(p)
    PROVE  Counted' /\ Alone'
<1> USE DEF TakeRead, Types
<1>1. Holding("read")' = Holding("read") \cup {p} /\ p \notin Holding("read")
    BY DEF Holding
<1>2. Holding("write")' = Holding("write")
    BY DEF Holding
<1>3. Cardinality(Holding("read") \cup {p}) = Cardinality(Holding("read")) + 1
    BY <1>1, Counting DEF Holding
<1>4. Holding("write") = {}
    BY DEF ReadersMayEnter, Counted
<1>5. Counted'
    BY <1>1, <1>2, <1>3 DEF Counted
<1>6. Alone'
    BY <1>2, <1>4 DEF Alone
<1> QED BY <1>5, <1>6

LEMMA UnlockReadInside ==
    ASSUME Types, Counted, Alone, NEW p \in Procs, UnlockRead(p)
    PROVE  Counted' /\ Alone'
<1> USE DEF UnlockRead, Types
<1>1. Holding("read")' = Holding("read") \ {p} /\ p \in Holding("read")
    BY DEF Holding
<1>2. Holding("write")' = Holding("write")
    BY DEF Holding
<1>3. Cardinality(Holding("read") \ {p}) = Cardinality(Holding("read")) - 1
    BY <1>1, Counting DEF Holding
<1> QED BY <1>1, <1>2, <1>3 DEF Counted, Alone, Holding

\* A writer gets in only when nobody is inside.
LEMMA EnterWriteInside ==
    ASSUME Types, Counted, NEW p \in Procs, WriterMayEnter,
           writer' = TRUE, readers' = readers,
           holds' = [holds EXCEPT ![p] = "write"],
           waitingWriters' = Cardinality(registered')
    PROVE  Counted' /\ Alone'
<1>1. Holding("read") = {} /\ Holding("write") = {}
    BY Entry DEF WriterMayEnter, Counted
<1>2. \A q \in Procs : holds[q] = "none"
    BY <1>1 DEF Holding, Types
<1>3. Holding("read")' = Holding("read") /\ Holding("write")' = {p}
    BY <1>2 DEF Holding, Types
<1> QED BY <1>2, <1>3 DEF Counted, Alone, Types

LEMMA LockWriteInside ==
    ASSUME Types, Counted, NEW p \in Procs, LockWrite(p)
    PROVE  Counted' /\ Alone'
<1>1. waitingWriters' = Cardinality(registered')
    <2>1. CASE p \in registered
        BY <2>1, Counting DEF LockWrite, WithWriter, Counted, Types
    <2>2. CASE p \notin registered
        <3>1. registered' = registered
            BY <2>2 DEF LockWrite
        <3> QED BY <2>2, <3>1, Entry DEF LockWrite, WithWriter, Counted
    <2> QED BY <2>1, <2>2
<1> QED BY <1>1, EnterWriteInside DEF LockWrite

LEMMA TryLockWriteInside ==
    ASSUME Types, Counted, NEW p \in Procs, TryLockWrite(p)
    PROVE  Counted' /\ Alone'
    BY EnterWriteInside DEF TryLockWrite, Counted

LEMMA UnlockWriteInside ==
    ASSUME Types, Counted, Alone, NEW p \in Procs, UnlockWrite(p)
    PROVE  Counted' /\ Alone'
<1> USE DEF UnlockWrite, Types
<1>1. \A q \in Procs : q # p => holds[q] = "none"
    BY DEF Alone, Holding
<1>2. Holding("read")' = Holding("read") /\ Holding("write")' = {}
    BY <1>1 DEF Holding
<1> QED BY <1>2 DEF Counted, Alone

LEMMA LockWriteBlocksInside ==
    ASSUME Types, Counted, Alone, NEW p \in Procs, LockWriteBlocks(p)
    PROVE  Counted' /\ Alone'
<1> USE DEF LockWriteBlocks
<1>1. waitingWriters' = Cardinality(registered')
    <2>1. CASE p \in registered
        <3>1. registered' = registered
            BY <2>1
        <3> QED BY <2>1, <3>1, Entry DEF WithWriter, Counted
    <2>2. CASE p \notin registered
        BY <2>2, Counting DEF WithWriter, Counted, Types
    <2> QED BY <2>1, <2>2
<1> QED BY <1>1 DEF Counted, Alone, Holding

-----------------------------------------------------------------------------
(* The steps *)

LEMMA BeginStep ==
    ASSUME IInv, NEW p \in Procs, NEW o \in {"read", "write"}, Begin(p, o)
    PROVE  IInv'
<1> USE DEF IInv, Begin, Enter, lockVars, Types
<1>1. Types'
    BY DEF Points, Ops
<1>2. Counted' /\ Alone'
    BY DEF Counted, Alone, Holding
<1>3. Outside' /\ HandedOver'
    BY DEF Outside, HandedOver
<1>4. /\ \A x : Waiters(x)' \subseteq Waiters(x) /\ Parked(x)' \subseteq Parked(x)
      /\ \A x : Trying(x) \subseteq Trying(x)'
      /\ At("notify")' = At("notify")
    BY DEF Waiters, Parked, Trying, At
<1>5. WaitersCount' /\ NoStrandedWaiter'
    BY <1>4 DEF WaitersCount, Blocked, NoStrandedWaiter
<1> QED BY <1>1, <1>2, <1>3, <1>5

LEMMA LockReadStep ==
    ASSUME IInv, NEW p \in Procs, LockRead(p)
    PROVE  IInv'
<1> USE DEF IInv, LockRead, TakeRead, Tries, Leave, Types
<1>1. Types'
    BY DEF Points
<1>2. Counted' /\ Alone'
    BY TakeReadInside DEF Outside
<1>3. Outside' /\ HandedOver'
    BY DEF Outside, HandedOver
<1>4. /\ \A x : Waiters(x)' = Waiters(x) /\ Parked(x)' = Parked(x)
      /\ At("notify")' = At("notify")
    BY DEF Waiters, Parked, At
<1>5. readers' # 0
    BY Entry
<1>6. WaitersCount' /\ NoStrandedWaiter'
    BY <1>4, <1>5 DEF WaitersCount, Blocked, NoStrandedWaiter
<1> QED BY <1>1, <1>2, <1>3, <1>6

LEMMA TryLockReadStep ==
    ASSUME IInv, NEW p \in Procs, TryLockRead(p)
    PROVE  IInv'
<1> USE DEF IInv, TryLockRead, TakeRead, procVars, Types
<1>1. Types'
    OBVIOUS
<1>2. Counted' /\ Alone'
    BY TakeReadInside
<1>3. Outside' /\ HandedOver'
    BY DEF Outside, HandedOver
<1>4. /\ \A x : Waiters(x)' = Waiters(x) /\ Parked(x)' = Parked(x)
      /\ At("notify")' = At("notify")
    BY DEF Waiters, Parked, At
<1>5. readers' # 0
    BY Entry
<1>6. WaitersCount' /\ NoStrandedWaiter'
    BY <1>4, <1>5 DEF WaitersCount, Blocked, NoStrandedWaiter
<1> QED BY <1>1, <1>2, <1>3, <1>6

\* A reader that waits does so beside a writer, inside or registered.
LEMMA LockReadBlocksStep ==
    ASSUME IInv, NEW p \in Procs, LockReadBlocks(p)
    PROVE  IInv'
<1> USE DEF IInv, LockReadBlocks, lockVars, Tries, Wait, Types
<1>1. Types'
    BY DEF Points
<1>2. Counted' /\ Alone'
    BY DEF Counted, Alone, Holding
<1>3. Outside' /\ HandedOver'
    BY DEF Outside, HandedOver
<1>4. /\ Waiters("write")' = Waiters("write")
      /\ Parked("write")' = Parked("write")
      /\ Trying("write")' = Trying("write")
      /\ At("notify")' = At("notify")
    BY DEF Waiters, Parked, Trying, At
<1>5. ~ (~ writer' /\ waitingWriters' = 0)
    BY DEF ReadersMayEnter
<1>6. WaitersCount' /\ NoStrandedWaiter'
    BY <1>4, <1>5 DEF WaitersCount, Blocked, NoStrandedWaiter
<1> QED BY <1>1, <1>2, <1>3, <1>6

LEMMA LockWriteStep ==
    ASSUME IInv, NEW p \in Procs, LockWrite(p)
    PROVE  IInv'
<1> USE DEF IInv, LockWrite, Tries, Leave, Types
<1>1. Types'
    BY DEF Points
<1>2. Counted' /\ Alone'
    BY LockWriteInside
<1>3. Outside' /\ HandedOver'
    BY DEF Outside, HandedOver
<1>4. \A x : Blocked(x)' = Blocked(x) \ {p}
    BY DEF Blocked, Waiters, Parked, At
<1>5. WaitersCount' /\ NoStrandedWaiter'
    BY <1>4 DEF WaitersCount, NoStrandedWaiter
<1> QED BY <1>1, <1>2, <1>3, <1>5

LEMMA TryLockWriteStep ==
    ASSUME IInv, NEW p \in Procs, TryLockWrite(p)
    PROVE  IInv'
<1> USE DEF IInv, TryLockWrite, procVars, Types
<1>1. Types'
    OBVIOUS
<1>2. Counted' /\ Alone'
    BY TryLockWriteInside
<1>3. Outside' /\ HandedOver'
    BY DEF Outside, HandedOver
<1>4. \A x : Blocked(x)' = Blocked(x)
    BY DEF Blocked, Waiters, Parked, At
<1>5. WaitersCount' /\ NoStrandedWaiter'
    BY <1>4 DEF WaitersCount, NoStrandedWaiter
<1> QED BY <1>1, <1>2, <1>3, <1>5

\* A writer that waits does so beside somebody inside, and is registered.
LEMMA LockWriteBlocksStep ==
    ASSUME IInv, NEW p \in Procs, LockWriteBlocks(p)
    PROVE  IInv'
<1> USE DEF IInv, LockWriteBlocks, Tries, Wait, Types
<1>1. Types'
    BY DEF Points
<1>2. Counted' /\ Alone'
    BY LockWriteBlocksInside
<1>3. Outside' /\ HandedOver'
    BY DEF Outside, HandedOver
<1>4. /\ Blocked("write")' \subseteq Blocked("write") \cup {p}
      /\ p \in registered'
    BY DEF Blocked, Waiters, Parked, At
<1>5. ~ (~ writer' /\ readers' = 0)
    BY DEF WriterMayEnter
<1>6. waitingWriters' # 0
    BY <1>2, <1>4, Counting, registered' \in SUBSET Procs DEF Counted
<1>7. WaitersCount' /\ NoStrandedWaiter'
    BY <1>4, <1>5, <1>6 DEF WaitersCount, NoStrandedWaiter
<1> QED BY <1>1, <1>2, <1>3, <1>7

\* Whoever unlocks moves the waiters it pops onto their way, keeps the others
\* where they are, and is itself about to notify.
LEMMA SignalMoves ==
    ASSUME Types, HandedOver, Outside, NEW p \in Procs, pc[p] = "idle",
           NEW S \in SUBSET (Waiters("write") \cup Waiters("read")),
           Signal(p, "unlock", S),
           holds' = [holds EXCEPT ![p] = "none"]
    PROVE  /\ pc' \in [Procs -> Points]
           /\ op' \in [Procs -> Ops]
           /\ toResume' \in [Procs -> SUBSET Procs]
           /\ HandedOver'
           /\ Outside'
           /\ \A o \in {"read", "write"} :
                 /\ Waiters(o)' = Waiters(o) \ S
                 /\ Parked(o)' = Parked(o)
           /\ S \cap Waiters("write") \subseteq Trying("write")'
           /\ At("notify")' # {}
<1> USE DEF Types, Signal
<1>1. S \subseteq Procs /\ \A f \in S : pc[f] = "waiting" /\ f # p
    BY DEF Waiters, At
<1>2. /\ pc' \in [Procs -> Points]
      /\ op' \in [Procs -> Ops]
      /\ toResume' \in [Procs -> SUBSET Procs]
    BY <1>1 DEF Points, Ops
<1>3. \A q \in Procs : \A f \in toResume'[q] : pc'[f] = "popped"
    BY <1>1 DEF HandedOver
<1>4. \A q, r \in Procs : q # r => toResume'[q] \cap toResume'[r] = {}
    BY <1>1 DEF HandedOver
<1>5. HandedOver'
    BY <1>3, <1>4 DEF HandedOver
<1>6. Outside'
    BY <1>1 DEF Outside
<1>7. \A o \in {"read", "write"} :
          Waiters(o)' = Waiters(o) \ S /\ Parked(o)' = Parked(o)
    BY <1>1 DEF Waiters, Parked, At
<1>8. S \cap Waiters("write") \subseteq Trying("write")'
    BY <1>1 DEF Waiters, Trying, At
<1>9. At("notify")' # {}
    BY DEF At
<1> QED BY <1>2, <1>5, <1>6, <1>7, <1>8, <1>9

LEMMA UnlockReadStep ==
    ASSUME IInv, NEW p \in Procs, UnlockRead(p)
    PROVE  IInv'
<1> USE DEF IInv, UnlockRead
<1>1. PICK S \in SUBSET Waiters("write") :
          WriterAfterReader(S) /\ Signal(p, "unlock", S)
    OBVIOUS
<1>2. Counted' /\ Alone'
    BY UnlockReadInside
<1>3. /\ pc' \in [Procs -> Points]
      /\ op' \in [Procs -> Ops]
      /\ toResume' \in [Procs -> SUBSET Procs]
      /\ HandedOver'
      /\ Outside'
      /\ \A o \in {"read", "write"} :
            /\ Waiters(o)' = Waiters(o) \ S
            /\ Parked(o)' = Parked(o)
      /\ S \subseteq Trying("write")'
      /\ At("notify")' # {}
    BY <1>1, SignalMoves
<1>4. Types'
    BY <1>3 DEF Types
<1>5. WaitersCount'
    BY <1>3 DEF WaitersCount, Blocked
<1>6. readers' = 0 => Waiters("write") = {} \/ S # {}
    <2>1. readers' = 0 => readers = 1
        BY Entry
    <2> QED BY <1>1, <2>1, PopsSome DEF WriterAfterReader
<1>7. ~ writer' /\ readers' = 0 /\ Waiters("write")' # {} => Trying("write")' # {}
    BY <1>3, <1>6
<1>8. ~ writer' /\ waitingWriters' = 0 => Waiters("read")' = {}
    <2>1. Waiters("read")' \subseteq Waiters("read")
        BY <1>3
    <2> QED BY <2>1 DEF NoStrandedWaiter
<1>9. NoStrandedWaiter'
    BY <1>3, <1>7, <1>8 DEF NoStrandedWaiter
<1> QED BY <1>2, <1>3, <1>4, <1>5, <1>9

LEMMA UnlockWriteStep ==
    ASSUME IInv, NEW p \in Procs, UnlockWrite(p)
    PROVE  IInv'
<1> USE DEF IInv, UnlockWrite
<1>1. PICK S \in SUBSET (Waiters("write") \cup Waiters("read")) :
          AfterWriter(S) /\ Signal(p, "unlock", S)
    OBVIOUS
<1>2. Counted' /\ Alone'
    BY UnlockWriteInside
<1>3. /\ pc' \in [Procs -> Points]
      /\ op' \in [Procs -> Ops]
      /\ toResume' \in [Procs -> SUBSET Procs]
      /\ HandedOver'
      /\ Outside'
      /\ \A o \in {"read", "write"} :
            /\ Waiters(o)' = Waiters(o) \ S
            /\ Parked(o)' = Parked(o)
      /\ S \cap Waiters("write") \subseteq Trying("write")'
      /\ At("notify")' # {}
    BY <1>1, SignalMoves
<1>4. Types'
    BY <1>3 DEF Types
<1>5. WaitersCount'
    BY <1>3 DEF WaitersCount, Blocked
<1>6. ASSUME Waiters("write") # {} PROVE NoStrandedWaiter'
    <2>1. S # {} /\ S \subseteq Waiters("write")
        BY <1>1, <1>6, PopsSome DEF AfterWriter, PoppedFrom
    <2>2. Trying("write")' # {}
        BY <1>3, <2>1
    <2>3. waitingWriters' # 0
        BY <1>6, Entry DEF WaitersCount, Blocked
    <2> QED BY <1>3, <2>2, <2>3 DEF NoStrandedWaiter
<1>7. ASSUME Waiters("write") = {} PROVE NoStrandedWaiter'
    <2>1. S = Waiters("read")
        BY <1>1, <1>7 DEF AfterWriter
    <2>2. Waiters("write")' = {} /\ Waiters("read")' = {}
        BY <1>3, <1>7, <2>1
    <2> QED BY <1>3, <2>2 DEF NoStrandedWaiter
<1>8. NoStrandedWaiter'
    BY <1>6, <1>7
<1> QED BY <1>2, <1>3, <1>4, <1>5, <1>8

-----------------------------------------------------------------------------
(* Waking *)

\* A step that leaves the lock alone and blocks nobody.
LEMMA Onwards ==
    ASSUME IInv, UNCHANGED lockVars, Types', Outside', HandedOver',
           \A o \in {"read", "write"} :
               Waiters(o)' \subseteq Waiters(o) /\ Parked(o)' \subseteq Parked(o),
           Trying("write") \subseteq Trying("write")',
           \A o \in {"read", "write"} : Parked(o)' = {} \/ At("notify")' # {}
                                       \/ At("notify") = {}
    PROVE  IInv'
<1> USE DEF IInv, lockVars
<1>1. Counted' /\ Alone'
    BY DEF Counted, Alone, Holding
<1>2. WaitersCount'
    BY DEF WaitersCount, Blocked
<1>3. NoStrandedWaiter'
    BY DEF NoStrandedWaiter
<1> QED BY <1>1, <1>2, <1>3

LEMMA NotifyStep ==
    ASSUME IInv, NEW p \in Procs, Notify(p)
    PROVE  IInv'
<1> USE DEF IInv, Notify, NotifyAll, Types
<1>1. Types'
    BY DEF lockVars, Points, Ops
<1>2. Outside' /\ HandedOver'
    BY DEF Outside, HandedOver, lockVars
<1>3. \A o \in {"read", "write"} : Waiters(o)' = Waiters(o) /\ Parked(o)' = {}
    BY DEF Waiters, Parked, At
<1>4. Trying("write") \subseteq Trying("write")'
    BY DEF Trying, At
<1> QED BY <1>1, <1>2, <1>3, <1>4, Onwards

LEMMA ResumeOneStep ==
    ASSUME IInv, NEW p \in Procs, ResumeOne(p), UNCHANGED lockVars
    PROVE  IInv'
<1> USE DEF IInv, ResumeOne, Types
<1>1. PICK f \in toResume[p] :
          /\ pc' = [pc EXCEPT ![f] = "try"]
          /\ toResume' = [toResume EXCEPT ![p] = @ \ {f}]
    OBVIOUS
<1>2. f \in Procs /\ pc[f] = "popped"
    BY DEF HandedOver
<1>3. Types'
    BY <1>1, <1>2 DEF lockVars, Points
<1>4. Outside'
    BY <1>1, <1>2 DEF Outside, lockVars
<1>5. HandedOver'
    BY <1>1, <1>2 DEF HandedOver
<1>6. \A o \in {"read", "write"} :
          Waiters(o)' = Waiters(o) /\ Parked(o)' = Parked(o)
    BY <1>1, <1>2 DEF Waiters, Parked, At
<1>7. Trying("write") \subseteq Trying("write")' /\ At("notify")' = At("notify")
    BY <1>1, <1>2 DEF Trying, At
<1> QED BY <1>3, <1>4, <1>5, <1>6, <1>7, Onwards

LEMMA ResumedStep ==
    ASSUME IInv, NEW p \in Procs, Resumed(p), UNCHANGED lockVars
    PROVE  IInv'
<1> USE DEF IInv, Resumed, Leave, Types
<1>1. Types'
    BY DEF lockVars, Points
<1>2. Outside' /\ HandedOver'
    BY DEF Outside, HandedOver, lockVars
<1>3. \A o \in {"read", "write"} :
          Waiters(o)' = Waiters(o) /\ Parked(o)' = Parked(o)
    BY DEF Waiters, Parked, At
<1>4. Trying("write") = Trying("write")' /\ At("notify")' = At("notify")
    BY DEF Trying, At
<1> QED BY <1>1, <1>2, <1>3, <1>4, Onwards

LEMMA SpuriousWakeStep ==
    ASSUME IInv, NEW p \in Procs, SpuriousWake(p), UNCHANGED lockVars
    PROVE  IInv'
<1> USE DEF IInv, SpuriousWake, Types
<1>1. Types'
    BY DEF lockVars, Points
<1>2. Outside' /\ HandedOver'
    BY DEF Outside, HandedOver, lockVars
<1>3. \A o \in {"read", "write"} :
          Waiters(o)' = Waiters(o) /\ Parked(o)' \subseteq Parked(o)
    BY DEF Waiters, Parked, At
<1>4. Trying("write") \subseteq Trying("write")' /\ At("notify")' = At("notify")
    BY DEF Trying, At
<1> QED BY <1>1, <1>2, <1>3, <1>4, Onwards

LEMMA StutterStep == IInv /\ UNCHANGED vars => IInv'
    BY DEF IInv, vars, procVars, lockVars, Types, Counted, Alone, Outside,
           WaitersCount, HandedOver, NoStrandedWaiter, Holding, Blocked,
           Waiters, Parked, Trying, At

LEMMA Invariance == Spec => []IInv
<1>1. IInv /\ [Next]_vars => IInv'
    BY BeginStep, LockReadStep, TryLockReadStep, LockReadBlocksStep,
       LockWriteStep, TryLockWriteStep, LockWriteBlocksStep, UnlockReadStep,
       UnlockWriteStep, NotifyStep, ResumeOneStep, ResumedStep,
       SpuriousWakeStep, StutterStep
       DEF Next, Continue, Unlock, Wake
<1> QED BY InitIInv, <1>1, PTL DEF Spec

\* One writer and nobody else, or readers only.
THEOREM AlwaysExcludes == Spec => []Exclusion
<1>1. ASSUME IInv PROVE Exclusion
    <2>1. \A p, q \in Holding("write") : p = q
        BY <1>1 DEF IInv, Alone, Holding
    <2>2. Holding("write") = {} \/ \E p : Holding("write") = {p}
        BY <2>1
    <2>3. Cardinality(Holding("write")) <= 1
        BY <2>2, FS_EmptySet, FS_Singleton
    <2>4. Holding("write") = {} \/ Holding("read") = {}
        BY <1>1 DEF IInv, Alone, Holding
    <2> QED BY <2>3, <2>4 DEF Exclusion
<1> QED BY <1>1, Invariance, PTL

\* No waiter is left behind by an unlock, whichever waiters are popped and
\* whoever takes the lock before they run.
THEOREM NeverStrands == Spec => []NoStrandedWaiter
<1>1. IInv => NoStrandedWaiter
    BY DEF IInv
<1> QED BY <1>1, Invariance, PTL
=============================================================================
