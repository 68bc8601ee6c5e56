---------------------------- MODULE BlockingProof ----------------------------
(***************************************************************************)
(* Proofs about the synchronization objects that are built on Blocking,    *)
(* for any number of fibers and threads.                                   *)
(***************************************************************************)
EXTENDS Semaphore, Channel, Once, Monitor, FiniteSetTheorems, TLAPS

-----------------------------------------------------------------------------
(* Counting *)

LEMMA FiniteProcs == IsFiniteSet(Procs)
    BY ProcsAssumption, FS_Union DEF Procs

LEMMA Counting ==
    ASSUME NEW S \in SUBSET Procs
    PROVE  /\ IsFiniteSet(S)
           /\ Cardinality(S) \in Nat
           /\ \A T \in SUBSET S : Cardinality(T) <= Cardinality(S)
<1>1. IsFiniteSet(S)
    BY FiniteProcs, FS_Subset
<1> QED BY <1>1, FS_CardinalityType, FS_Subset

\* Losing one process costs at most one, whoever it is.
LEMMA LosesOne ==
    ASSUME NEW S \in SUBSET Procs, NEW T \in SUBSET Procs, NEW p \in Procs,
           S \ {p} \subseteq T
    PROVE  Cardinality(S) - 1 <= Cardinality(T)
<1>1. Cardinality(S \ {p}) >= Cardinality(S) - 1
    <2>1. CASE p \in S
        BY <2>1, Counting, FS_RemoveElement
    <2>2. CASE p \notin S
        <3>1. S \ {p} = S
            BY <2>2
        <3> QED BY <3>1, Counting
    <2> QED BY <2>1, <2>2
<1>2. Cardinality(S \ {p}) <= Cardinality(T)
    BY Counting
<1> QED BY <1>1, <1>2, Counting

\* Gaining the processes of D, none of which was counted.
LEMMA GainsAll ==
    ASSUME NEW S \in SUBSET Procs, NEW T \in SUBSET Procs, NEW D \in SUBSET Procs,
           S \cap D = {}, S \cup D \subseteq T
    PROVE  Cardinality(S) + Cardinality(D) <= Cardinality(T)
<1>1. IsFiniteSet(S) /\ IsFiniteSet(D)
    BY Counting
<1>2. Cardinality(S \cap D) = 0
    BY FS_EmptySet
<1>3. Cardinality(S \cup D) = Cardinality(S) + Cardinality(D)
    <2>1. Cardinality(S \cup D)
             = Cardinality(S) + Cardinality(D) - Cardinality(S \cap D)
        BY <1>1, FS_Union
    <2> QED BY <1>2, <2>1, Counting
<1>4. Cardinality(S \cup D) <= Cardinality(T)
    BY Counting
<1> QED BY <1>3, <1>4

LEMMA GainsOne ==
    ASSUME NEW S \in SUBSET Procs, NEW T \in SUBSET Procs, NEW p \in Procs \ S,
           S \cup {p} \subseteq T
    PROVE  Cardinality(S) + 1 <= Cardinality(T)
<1>1. Cardinality(S \cup {p}) = Cardinality(S) + 1
    BY Counting, FS_AddElement
<1> QED BY <1>1, Counting

-----------------------------------------------------------------------------
(* Handing over: whoever is popped is in exactly one process's hands. *)

HandedOver ==
    /\ pc \in [Procs -> Points]
    /\ toResume \in [Procs -> SUBSET Fibers]
    /\ \A p \in Procs :
        /\ pc[p] \in {"waiting", "popped"} => p \in Fibers
        /\ toResume[p] # {} => pc[p] \in {"notify", "resume"}
        /\ \A f \in toResume[p] : pc[f] = "popped"
        /\ \A q \in Procs : p # q => toResume[p] \cap toResume[q] = {}
    /\ \A f \in Fibers : pc[f] = "popped" => \E p \in Procs : f \in toResume[p]

LEMMA HandedOverOK ==
    ASSUME HandedOver, NEW Ops, op \in [Procs -> Ops]
    PROVE  ProcsOK(Ops)
<1>1. ASSUME NEW f \in Fibers
      PROVE  Cardinality({p \in Procs : f \in toResume[p]})
                = IF pc[f] = "popped" THEN 1 ELSE 0
    <2>1. CASE pc[f] = "popped"
        <3>1. PICK q \in Procs : f \in toResume[q]
            BY <2>1 DEF HandedOver
        <3>2. {p \in Procs : f \in toResume[p]} = {q}
            BY <3>1 DEF HandedOver
        <3> QED BY <2>1, <3>2, FS_Singleton
    <2>2. CASE pc[f] # "popped"
        <3>1. {p \in Procs : f \in toResume[p]} = {}
            BY <2>2 DEF HandedOver
        <3> QED BY <2>2, <3>1, FS_EmptySet
    <2> QED BY <2>1, <2>2
<1> QED BY <1>1 DEF HandedOver, ProcsOK

\* A process moves between points that hold nobody.
LEMMA MoveKeepsHands ==
    ASSUME HandedOver, NEW p \in Procs, NEW x \in Points,
           pc[p] \notin {"notify", "popped"}, toResume[p] = {},
           x = "waiting" => p \in Fibers, x # "popped",
           pc' = [pc EXCEPT ![p] = x], UNCHANGED toResume
    PROVE  HandedOver'
BY DEF HandedOver

\* Threads wake up.
LEMMA ThreadsWake ==
    ASSUME HandedOver, NEW p \in Procs, pc[p] \in {"notify", "parked"},
           pc' \in [Procs -> Points],
           pc[p] = "notify" => pc'[p] = "resume",
           \A q \in Procs : pc'[q] # pc[q] =>
               \/ q = p /\ pc[p] = "notify"
               \/ pc[q] = "parked" /\ pc'[q] = "try",
           UNCHANGED toResume
    PROVE  HandedOver'
<1>1. \A q \in Procs : /\ pc[q] = "popped" <=> pc'[q] = "popped"
                       /\ pc'[q] = "waiting" => pc[q] = "waiting"
                       /\ pc[q] \in {"notify", "resume"} =>
                             pc'[q] \in {"notify", "resume"}
    BY DEF HandedOver
<1> QED BY <1>1, ProcsAssumption DEF HandedOver, Procs

LEMMA SignalKeepsHands ==
    ASSUME HandedOver, NEW p \in Procs, NEW o, NEW S \in SUBSET At("waiting"),
           pc[p] \in {"idle", "try"}, Signal(p, o, S)
    PROVE  HandedOver'
<1>1. /\ toResume' = [toResume EXCEPT ![p] = S]
      /\ S \subseteq Fibers
      /\ p \notin S
      /\ \A q \in S : pc'[q] = "popped" /\ pc[q] = "waiting"
      /\ \A q \in Procs \ (S \cup {p}) : pc'[q] = pc[q]
      /\ pc'[p] = "notify"
      /\ pc' \in [Procs -> Points]
    BY DEF Signal, HandedOver, At, Procs, Points
<1>2. toResume[p] = {}
    BY DEF HandedOver
<1>3. \A q \in Procs : S \cap toResume[q] = {}
    BY <1>1 DEF HandedOver
<1>4. toResume' \in [Procs -> SUBSET Fibers]
    BY <1>1 DEF HandedOver
<1>5. \A q \in Procs : /\ q # p => toResume'[q] = toResume[q]
                       /\ q = p => toResume'[q] = S
    BY <1>1 DEF HandedOver
<1>6. \A q \in Procs : \A f \in toResume[q] : f \in Procs /\ pc'[f] = "popped"
    <2> SUFFICES ASSUME NEW q \in Procs, NEW f \in toResume[q]
                 PROVE  f \in Procs /\ pc'[f] = "popped"
        OBVIOUS
    <2>1. f \in Procs /\ pc[f] = "popped"
        BY DEF HandedOver, Procs
    <2> QED BY <1>1, <2>1
<1>7. \A q \in Procs :
        /\ pc'[q] \in {"waiting", "popped"} => q \in Fibers
        /\ toResume'[q] # {} => pc'[q] \in {"notify", "resume"}
    BY <1>1, <1>5 DEF HandedOver
<1>8. \A q, r \in Procs : q # r => toResume'[q] \cap toResume'[r] = {}
    BY <1>3, <1>5 DEF HandedOver
<1>9. \A f \in Fibers : pc'[f] = "popped" => \E q \in Procs : f \in toResume'[q]
    <2> SUFFICES ASSUME NEW f \in Fibers, pc'[f] = "popped"
                 PROVE  \E q \in Procs : f \in toResume'[q]
        OBVIOUS
    <2>1. CASE f \in S
        BY <1>5, <2>1
    <2>2. CASE f \notin S
        <3>1. f # p /\ pc[f] = "popped"
            BY <1>1, <2>2 DEF Procs
        <3>2. PICK q \in Procs : f \in toResume[q]
            BY <3>1 DEF HandedOver
        <3> QED BY <1>2, <1>5, <3>2
    <2> QED BY <2>1, <2>2
<1> QED BY <1>1, <1>4, <1>5, <1>6, <1>7, <1>8, <1>9 DEF HandedOver

LEMMA ResumeKeepsHands ==
    ASSUME HandedOver, NEW p \in Procs, ResumeOne(p)
    PROVE  HandedOver'
<1>1. PICK f \in toResume[p] : /\ pc' = [pc EXCEPT ![f] = "try"]
                               /\ toResume' = [toResume EXCEPT ![p] = @ \ {f}]
    BY DEF ResumeOne
<1>2. f \in Fibers /\ f \in Procs /\ pc[f] = "popped" /\ f # p
    BY <1>1 DEF ResumeOne, HandedOver, Procs
<1>3. \A q \in Procs : q # p => f \notin toResume[q] /\ toResume'[q] = toResume[q]
    BY <1>1 DEF HandedOver
<1>4. toResume'[p] = toResume[p] \ {f} /\ toResume' \in [Procs -> SUBSET Fibers]
    BY <1>1 DEF HandedOver
<1>5. pc' \in [Procs -> Points] /\ \A q \in Procs \ {f} : pc'[q] = pc[q]
    BY <1>1, <1>2 DEF HandedOver, Points
<1>6. pc'[f] = "try"
    BY <1>1, <1>2 DEF HandedOver
<1>7. \A q \in Procs : toResume'[q] \subseteq toResume[q] \ {f}
    BY <1>3, <1>4
<1>8. \A q \in Procs :
        /\ pc'[q] \in {"waiting", "popped"} => q \in Fibers
        /\ toResume'[q] # {} => pc'[q] \in {"notify", "resume"}
        /\ \A g \in toResume'[q] : pc'[g] = "popped"
        /\ \A r \in Procs : q # r => toResume'[q] \cap toResume'[r] = {}
    <2> TAKE q \in Procs
    <2>1. pc'[q] \in {"waiting", "popped"} => q \in Fibers
        BY <1>5, <1>6 DEF HandedOver
    <2>2. toResume'[q] # {} => pc'[q] \in {"notify", "resume"}
        BY <1>2, <1>5, <1>7 DEF HandedOver
    <2>3. \A g \in toResume'[q] : pc'[g] = "popped"
        BY <1>5, <1>7 DEF HandedOver, Procs
    <2>4. \A r \in Procs : q # r => toResume'[q] \cap toResume'[r] = {}
        BY <1>7 DEF HandedOver
    <2> QED BY <2>1, <2>2, <2>3, <2>4
<1>9. \A g \in Fibers : pc'[g] = "popped" => \E q \in Procs : g \in toResume'[q]
    <2> SUFFICES ASSUME NEW g \in Fibers, pc'[g] = "popped"
                 PROVE  \E q \in Procs : g \in toResume'[q]
        OBVIOUS
    <2>1. g # f /\ pc[g] = "popped"
        BY <1>5, <1>6 DEF Procs
    <2>2. PICK q \in Procs : g \in toResume[q]
        BY <2>1 DEF HandedOver
    <2>3. g \in toResume'[q]
        BY <1>3, <1>4, <2>1, <2>2
    <2> QED BY <2>3
<1> QED BY <1>4, <1>5, <1>8, <1>9 DEF HandedOver

-----------------------------------------------------------------------------
(* Who waits, tries and sleeps after a step *)

LEMMA SignalMoves ==
    ASSUME HandedOver, NEW Ops, op \in [Procs -> Ops], NEW p \in Procs, NEW o,
           NEW S \in SUBSET At("waiting"), pc[p] \in {"idle", "try"},
           Signal(p, o, S), NEW x
    PROVE  /\ Waiters(x)' = Waiters(x) \ S
           /\ Trying(x)' = (Trying(x) \ {p}) \cup {q \in S : op[q] = x}
           /\ Parked(x)' = Parked(x)
           /\ At("notify")' = At("notify") \cup {p}
           /\ \A q \in Procs \ {p} : op'[q] = op[q]
           /\ op'[p] = o
<1>1. /\ p \notin S
      /\ \A q \in S : pc'[q] = "popped" /\ pc[q] = "waiting"
      /\ \A q \in Procs \ (S \cup {p}) : pc'[q] = pc[q]
      /\ pc'[p] = "notify"
      /\ \A q \in Procs \ {p} : op'[q] = op[q]
      /\ op'[p] = o
    BY DEF Signal, HandedOver, At
<1>2. Waiters(x)' = Waiters(x) \ S
    BY <1>1 DEF Waiters, At
<1>3. Trying(x)' = (Trying(x) \ {p}) \cup {q \in S : op[q] = x}
    BY <1>1 DEF Trying, At
<1>4. Parked(x)' = Parked(x)
    BY <1>1 DEF Parked, At
<1>5. At("notify")' = At("notify") \cup {p}
    BY <1>1 DEF At
<1> QED BY <1>1, <1>2, <1>3, <1>4, <1>5

\* A call at its loop head leaves ...
LEMMA LeaveMoves ==
    ASSUME HandedOver, NEW p \in Procs, pc[p] = "try", Leave(p), NEW x
    PROVE  /\ HandedOver'
           /\ op' = op
           /\ Waiters(x)' = Waiters(x)
           /\ Parked(x)' = Parked(x)
           /\ Trying(x)' = Trying(x) \ {p}
           /\ At("notify")' = At("notify")
<1>1. /\ pc' = [pc EXCEPT ![p] = "idle"]
      /\ pc'[p] = "idle"
      /\ \A q \in Procs \ {p} : pc'[q] = pc[q]
      /\ op' = op /\ toResume' = toResume
    BY DEF Leave, HandedOver
<1>2. toResume[p] = {}
    BY DEF HandedOver
<1>3. HandedOver'
    BY <1>1, <1>2, MoveKeepsHands DEF Points
<1>4. /\ Waiters(x)' = Waiters(x)
      /\ Parked(x)' = Parked(x)
      /\ Trying(x)' = Trying(x) \ {p}
      /\ At("notify")' = At("notify")
    BY <1>1 DEF Waiters, Parked, Trying, At
<1> QED BY <1>1, <1>3, <1>4

\* ... or waits.
LEMMA WaitMoves ==
    ASSUME HandedOver, NEW p \in Procs, pc[p] = "try", Wait(p)
    PROVE  /\ HandedOver'
           /\ op' = op
           /\ At("notify")' = At("notify")
           /\ \A x : /\ Trying(x)' = Trying(x) \ {p}
                     /\ x # op[p] => /\ Waiters(x)' = Waiters(x)
                                     /\ Parked(x)' = Parked(x)
<1>1. PICK y \in {"waiting", "parked"} :
          /\ pc' = [pc EXCEPT ![p] = y]
          /\ pc'[p] = y
          /\ y = "waiting" => p \in Fibers
    BY DEF Wait, HandedOver
<1>2. /\ \A q \in Procs \ {p} : pc'[q] = pc[q]
      /\ op' = op /\ toResume' = toResume
    BY <1>1 DEF Wait, HandedOver
<1>3. toResume[p] = {}
    BY DEF HandedOver
<1>4. HandedOver'
    BY <1>1, <1>2, <1>3, MoveKeepsHands DEF Points
<1>5. /\ At("notify")' = At("notify")
      /\ \A x : Trying(x)' = Trying(x) \ {p}
    BY <1>1, <1>2 DEF Trying, At
<1>6. \A x : x # op[p] => /\ Waiters(x)' = Waiters(x)
                          /\ Parked(x)' = Parked(x)
    BY <1>1, <1>2 DEF Waiters, Parked, At
<1> QED BY <1>2, <1>4, <1>5, <1>6

\* A call begins.
LEMMA EnterMoves ==
    ASSUME HandedOver, NEW Ops, op \in [Procs -> Ops], NEW p \in Procs, NEW o,
           Enter(p, o), NEW x
    PROVE  /\ HandedOver'
           /\ Waiters(x)' = Waiters(x)
           /\ Parked(x)' = Parked(x)
           /\ Trying(x)' = Trying(x) \cup {q \in {p} : o = x}
           /\ At("notify")' = At("notify")
<1>1. /\ pc' = [pc EXCEPT ![p] = "try"]
      /\ pc[p] = "idle" /\ pc'[p] = "try" /\ op'[p] = o
      /\ \A q \in Procs \ {p} : pc'[q] = pc[q] /\ op'[q] = op[q]
      /\ UNCHANGED toResume
    BY DEF Enter, HandedOver
<1>2. HandedOver'
    BY <1>1, MoveKeepsHands DEF HandedOver, Points
<1>3. Waiters(x)' = Waiters(x) /\ Parked(x)' = Parked(x)
    BY <1>1 DEF Waiters, Parked, At
<1>4. Trying(x)' = Trying(x) \cup {q \in {p} : o = x}
    BY <1>1 DEF Trying, At
<1>5. At("notify")' = At("notify")
    BY <1>1 DEF At
<1> QED BY <1>2, <1>3, <1>4, <1>5

\* A fiber is resumed, a notifier is through, a thread wakes for no reason.
LEMMA WakeMoves ==
    ASSUME HandedOver, NEW p \in Procs,
           ResumeOne(p) \/ Resumed(p) \/ SpuriousWake(p), NEW x
    PROVE  /\ HandedOver'
           /\ op' = op
           /\ Waiters(x)' = Waiters(x)
           /\ Parked(x)' \subseteq Parked(x)
           /\ Trying(x) \subseteq Trying(x)'
           /\ At("notify")' = At("notify")
<1>1. CASE ResumeOne(p)
    <2>1. PICK f \in toResume[p] : pc' = [pc EXCEPT ![f] = "try"]
        BY <1>1 DEF ResumeOne
    <2>2. /\ f \in Procs /\ pc[f] = "popped" /\ pc'[f] = "try"
          /\ \A q \in Procs \ {f} : pc'[q] = pc[q]
        BY <2>1 DEF HandedOver, Procs
    <2>3. op' = op
        BY <1>1 DEF ResumeOne
    <2> QED
        BY <1>1, <2>2, <2>3, ResumeKeepsHands DEF Waiters, Parked, Trying, At
<1>2. CASE Resumed(p)
    <2>1. /\ pc' = [pc EXCEPT ![p] = "idle"] /\ UNCHANGED <<op, toResume>>
          /\ pc[p] = "resume" /\ toResume[p] = {}
          /\ pc'[p] = "idle" /\ \A q \in Procs \ {p} : pc'[q] = pc[q]
        BY <1>2 DEF Resumed, Leave, HandedOver
    <2>2. HandedOver'
        BY <2>1, MoveKeepsHands DEF Points
    <2> QED BY <2>1, <2>2 DEF Waiters, Parked, Trying, At
<1>3. CASE SpuriousWake(p)
    <2>1. /\ pc' = [pc EXCEPT ![p] = "try"] /\ UNCHANGED <<op, toResume>>
          /\ pc[p] = "parked"
          /\ pc'[p] = "try" /\ \A q \in Procs \ {p} : pc'[q] = pc[q]
        BY <1>3 DEF SpuriousWake, HandedOver
    <2>2. toResume[p] = {}
        BY <2>1 DEF HandedOver
    <2>3. HandedOver'
        BY <2>1, <2>2, MoveKeepsHands DEF Points
    <2> QED BY <2>1, <2>3 DEF Waiters, Parked, Trying, At
<1> QED BY <1>1, <1>2, <1>3

\* notify_all wakes every thread of the operations O.
LEMMA NotifyAllMoves ==
    ASSUME HandedOver, NEW p \in Procs, NEW O, NotifyAll(p, O), NEW x
    PROVE  /\ HandedOver'
           /\ op' = op
           /\ Waiters(x)' = Waiters(x)
           /\ Parked(x)' = IF x \in O THEN {} ELSE Parked(x)
           /\ Trying(x) \subseteq Trying(x)'
           /\ At("notify")' = At("notify") \ {p}
<1>1. /\ pc[p] = "notify" /\ pc'[p] = "resume"
      /\ \A q \in Procs \ {p} :
            pc'[q] = IF pc[q] = "parked" /\ op[q] \in O THEN "try" ELSE pc[q]
      /\ pc' \in [Procs -> Points]
      /\ UNCHANGED <<op, toResume>>
    BY DEF NotifyAll, HandedOver, Points
<1>2. HandedOver'
    BY <1>1, ThreadsWake
<1>3. Waiters(x)' = Waiters(x) /\ Trying(x) \subseteq Trying(x)'
    BY <1>1 DEF Waiters, Trying, At
<1>4. Parked(x)' = IF x \in O THEN {} ELSE Parked(x)
    BY <1>1 DEF Parked, At
<1>5. At("notify")' = At("notify") \ {p}
    BY <1>1 DEF At
<1> QED BY <1>1, <1>2, <1>3, <1>4, <1>5

\* notify_one wakes one thread of the operation o, if there is one.
LEMMA NotifyOneMoves ==
    ASSUME HandedOver, NEW p \in Procs, NEW o, NotifyOne(p, o)
    PROVE  /\ HandedOver'
           /\ op' = op
           /\ At("notify")' = At("notify") \ {p}
           /\ \A x : Waiters(x)' = Waiters(x)
           /\ \E N \in SUBSET Parked(o) :
                /\ Parked(o) # {} => \E n \in Procs : N = {n}
                /\ Parked(o)' = Parked(o) \ N
                /\ Trying(o)' = Trying(o) \cup N
                /\ \A x : x # o => /\ Parked(x)' = Parked(x)
                                   /\ Trying(x)' = Trying(x)
<1>1. CASE Parked(o) = {}
    <2>1. /\ pc[p] = "notify" /\ pc'[p] = "resume"
          /\ \A q \in Procs \ {p} : pc'[q] = pc[q]
          /\ pc' \in [Procs -> Points]
          /\ UNCHANGED <<op, toResume>>
        BY <1>1 DEF NotifyOne, HandedOver, Points
    <2>2. HandedOver'
        BY <2>1, ThreadsWake
    <2>3. /\ At("notify")' = At("notify") \ {p}
          /\ \A x : /\ Waiters(x)' = Waiters(x)
                    /\ Parked(x)' = Parked(x)
                    /\ Trying(x)' = Trying(x)
        BY <2>1 DEF Waiters, Parked, Trying, At
    <2> QED BY <1>1, <2>1, <2>2, <2>3
<1>2. CASE Parked(o) # {}
    <2>1. PICK n \in Parked(o) :
              pc' = [pc EXCEPT ![p] = "resume", ![n] = "try"]
        BY <1>2 DEF NotifyOne
    <2>2. /\ pc[p] = "notify" /\ n \in Procs /\ n # p
          /\ pc[n] = "parked" /\ op[n] = o
          /\ pc'[p] = "resume" /\ pc'[n] = "try"
          /\ \A q \in Procs \ {p, n} : pc'[q] = pc[q]
          /\ pc' \in [Procs -> Points]
          /\ UNCHANGED <<op, toResume>>
        BY <1>2, <2>1 DEF NotifyOne, HandedOver, Points, Parked, At
    <2>3. HandedOver'
        BY <2>2, ThreadsWake
    <2>4. /\ At("notify")' = At("notify") \ {p}
          /\ \A x : Waiters(x)' = Waiters(x)
        BY <2>2 DEF Waiters, At
    <2>5. /\ Parked(o)' = Parked(o) \ {n}
          /\ Trying(o)' = Trying(o) \cup {n}
          /\ \A x : x # o => /\ Parked(x)' = Parked(x)
                             /\ Trying(x)' = Trying(x)
        BY <2>2 DEF Parked, Trying, At
    <2>6. \E N \in SUBSET Parked(o) :
            /\ Parked(o) # {} => \E m \in Procs : N = {m}
            /\ Parked(o)' = Parked(o) \ N
            /\ Trying(o)' = Trying(o) \cup N
            /\ \A x : x # o => /\ Parked(x)' = Parked(x)
                               /\ Trying(x)' = Trying(x)
        <3>1. {n} \in SUBSET Parked(o) /\ \E m \in Procs : {n} = {m}
            BY <2>1, <2>2
        <3> QED BY <2>5, <3>1
    <2> QED BY <2>2, <2>3, <2>4, <2>6
<1> QED BY <1>1, <1>2
-----------------------------------------------------------------------------
(* The semaphore *)

SemInv ==
    /\ HandedOver
    /\ op \in [Procs -> SemOps]
    /\ permits \in 0 .. Maximum
    /\ Waiters("acquire") # {} => permits <= Cardinality(Trying("acquire"))
    /\ Parked("acquire") # {} /\ permits > 0 => At("notify") # {}

LEMMA SemInvInit == SemInit => SemInv
<1> SUFFICES ASSUME SemInit PROVE SemInv
    OBVIOUS
<1>1. AllIdle("acquire") /\ permits \in 0 .. Maximum
    BY DEF SemInit
<1>2. HandedOver
    BY <1>1 DEF AllIdle, HandedOver, Points, Procs
<1>3. op \in [Procs -> SemOps]
    BY <1>1 DEF AllIdle, SemOps
<1>4. Waiters("acquire") = {} /\ Parked("acquire") = {}
    BY <1>1 DEF AllIdle, Waiters, Parked, At
<1> QED BY <1>1, <1>2, <1>3, <1>4 DEF SemInv

\* No release and no acquire overflows: the sums that are computed fit.
LEMMA SemNoOverflow ==
    ASSUME SemInv
    PROVE  /\ Int32(Maximum - permits) = Maximum - permits
           /\ \A k \in Nat : permits + k <= Maximum =>
                 Int32(permits + k) = permits + k
           /\ permits > 0 => Int32(permits - 1) = permits - 1
    BY MaximumAssumption DEF Int32, SemInv

LEMMA SemAcquire ==
    ASSUME SemInv, NEW p \in Procs, Acquire(p)
    PROVE  SemInv'
<1>1. /\ pc[p] = "try" /\ op[p] = "acquire" /\ permits > 0
      /\ permits' = permits - 1 /\ Leave(p)
    BY SemNoOverflow DEF Acquire, Tries
<1>2. HandedOver' /\ op' = op
    BY <1>1, LeaveMoves DEF SemInv
<1>3. /\ Waiters("acquire")' = Waiters("acquire")
      /\ Parked("acquire")' = Parked("acquire")
      /\ Trying("acquire")' = Trying("acquire") \ {p}
      /\ At("notify")' = At("notify")
    BY <1>1, LeaveMoves DEF SemInv
<1>4. Cardinality(Trying("acquire")) - 1 <= Cardinality(Trying("acquire")')
    BY <1>3, LosesOne DEF Trying, At
<1>5. permits' \in 0 .. Maximum
    BY <1>1, MaximumAssumption DEF SemInv
<1>6. Cardinality(Trying("acquire")) \in Nat /\ Cardinality(Trying("acquire")') \in Nat
    BY <1>3, Counting DEF Trying, At
<1>7. Waiters("acquire")' # {} => permits' <= Cardinality(Trying("acquire")')
    BY <1>1, <1>3, <1>4, <1>6 DEF SemInv
<1> QED BY <1>1, <1>2, <1>3, <1>5, <1>7, MaximumAssumption DEF SemInv

LEMMA SemBlock ==
    ASSUME SemInv, NEW p \in Procs, Block(p)
    PROVE  SemInv'
<1>1. /\ pc[p] = "try" /\ op[p] = "acquire" /\ permits = 0
      /\ permits' = permits /\ Wait(p)
    BY DEF Block, Tries, SemInv
<1>2. HandedOver' /\ op' = op
    BY <1>1, WaitMoves DEF SemInv
<1>3. Cardinality(Trying("acquire")') \in Nat
    <2>1. Trying("acquire")' \in SUBSET Procs
        BY DEF Trying, At
    <2> QED BY <2>1, Counting
<1> QED BY <1>1, <1>2, <1>3, MaximumAssumption DEF SemInv

\* The popped fibers take the permits that were released, or nobody waits.
LEMMA SemRelease ==
    ASSUME SemInv, NEW p \in Procs, NEW k \in 1 .. MaxInt, Release(p, k)
    PROVE  SemInv'
<1> USE MaximumAssumption
<1>1. /\ pc[p] = "idle"
      /\ permits + k <= Maximum
      /\ permits' = permits + k
    <2>1. /\ k \in Nat /\ permits \in Nat /\ Maximum \in Nat
        BY DEF SemInv
    <2>2. permits + k <= Maximum
        BY <2>1, SemNoOverflow DEF Release, Fits
    <2> QED BY <2>1, <2>2, SemNoOverflow DEF Release
<1>2. PICK S \in SUBSET Waiters("acquire") :
          /\ PoppedFrom(S, "acquire", k)
          /\ Signal(p, "release", S)
    BY DEF Release, Pops
<1>3. S \in SUBSET At("waiting") /\ \A q \in S : op[q] = "acquire"
    BY DEF Waiters
<1>4. HandedOver'
    BY <1>1, <1>2, <1>3, SignalKeepsHands DEF SemInv
<1>5. op' \in [Procs -> SemOps]
    BY <1>2 DEF Signal, SemInv, SemOps
<1>6. /\ Waiters("acquire")' = Waiters("acquire") \ S
      /\ Trying("acquire")' = (Trying("acquire") \ {p}) \cup {q \in S : op[q] = "acquire"}
      /\ p \in At("notify")'
    BY <1>1, <1>2, <1>3, SignalMoves DEF SemInv
<1>7. p \notin Trying("acquire")
    BY <1>1 DEF Trying, At
<1>8. Waiters("acquire")' # {} => permits' <= Cardinality(Trying("acquire")')
    <2> SUFFICES ASSUME Waiters("acquire")' # {}
                 PROVE  permits' <= Cardinality(Trying("acquire")')
        OBVIOUS
    <2>1. Cardinality(S) = k
        BY <1>2, <1>6 DEF PoppedFrom
    <2>2. Trying("acquire")' = Trying("acquire") \cup S
        BY <1>3, <1>6, <1>7
    <2>3. /\ Trying("acquire") \in SUBSET Procs /\ S \in SUBSET Procs
          /\ Trying("acquire") \cap S = {}
        BY <1>3 DEF Trying, At
    <2>4. Cardinality(Trying("acquire")) + Cardinality(S)
              <= Cardinality(Trying("acquire")')
        BY <2>2, <2>3, GainsAll
    <2>5. permits <= Cardinality(Trying("acquire"))
        BY <1>6 DEF SemInv
    <2>6. Cardinality(Trying("acquire")) \in Nat /\ Cardinality(Trying("acquire")') \in Nat
        BY <2>2, <2>3, Counting
    <2> QED BY <1>1, <2>1, <2>4, <2>5, <2>6 DEF SemInv
<1>9. permits' \in 0 .. Maximum
    BY <1>1 DEF SemInv
<1> QED BY <1>4, <1>5, <1>6, <1>8, <1>9 DEF SemInv

\* The other steps add nothing to the permits and lose nobody on the way.
LEMMA SemOther ==
    ASSUME SemInv, HandedOver', op' \in [Procs -> SemOps],
           permits' \in 0 .. permits,
           Waiters("acquire")' = Waiters("acquire"),
           Trying("acquire") \subseteq Trying("acquire")',
           \/ /\ Parked("acquire")' \subseteq Parked("acquire")
              /\ At("notify")' = At("notify")
           \/ Parked("acquire")' = {}
    PROVE  SemInv'
<1>1. Trying("acquire")' \in SUBSET Procs /\ Trying("acquire") \in SUBSET Trying("acquire")'
    BY DEF Trying, At
<1>2. /\ Cardinality(Trying("acquire")) <= Cardinality(Trying("acquire")')
      /\ Cardinality(Trying("acquire")) \in Nat
      /\ Cardinality(Trying("acquire")') \in Nat
    BY <1>1, Counting
<1>3. permits' \in 0 .. Maximum
    BY MaximumAssumption DEF SemInv
<1>4. Waiters("acquire")' # {} => permits' <= Cardinality(Trying("acquire")')
    BY <1>2, <1>3, MaximumAssumption DEF SemInv
<1>5. Parked("acquire")' # {} /\ permits' > 0 => At("notify")' # {}
    BY <1>3, MaximumAssumption DEF SemInv
<1> QED BY <1>3, <1>4, <1>5, MaximumAssumption DEF SemInv

LEMMA SemInvNext == SemInv /\ [SemNext]_semVars => SemInv'
<1> SUFFICES ASSUME SemInv, [SemNext]_semVars PROVE SemInv'
    OBVIOUS
<1>1. HandedOver /\ op \in [Procs -> SemOps] /\ permits \in 0 .. permits
    BY MaximumAssumption DEF SemInv
<1>2. ASSUME NEW p \in Procs, BeginAcquire(p) PROVE SemInv'
    <2>1. Enter(p, "acquire") /\ permits' = permits
        BY <1>2 DEF BeginAcquire
    <2>2. op' \in [Procs -> SemOps]
        BY <1>1, <2>1 DEF Enter, SemOps
    <2> QED BY <1>1, <2>1, <2>2, EnterMoves, SemOther
<1>3. ASSUME NEW p \in Procs, TryAcquire(p) PROVE SemInv'
    <2>1. /\ UNCHANGED <<pc, op, toResume>>
          /\ permits' = permits - 1 /\ permits > 0
        BY <1>3, SemNoOverflow DEF TryAcquire, procVars
    <2>2. permits' \in 0 .. permits
        BY <2>1 DEF SemInv
    <2>3. HandedOver'
        BY <1>1, <2>1 DEF HandedOver
    <2>4. /\ Waiters("acquire")' = Waiters("acquire")
          /\ Trying("acquire") \subseteq Trying("acquire")'
          /\ Parked("acquire")' = Parked("acquire")
          /\ At("notify")' = At("notify")
        BY <2>1 DEF Waiters, Trying, Parked, At
    <2> QED BY <1>1, <2>1, <2>2, <2>3, <2>4, SemOther
<1>4. ASSUME NEW p \in Procs, SemNotify(p) PROVE SemInv'
    <2>1. NotifyAll(p, {"acquire"}) /\ permits' = permits
        BY <1>4 DEF SemNotify
    <2> QED BY <1>1, <2>1, NotifyAllMoves, SemOther
<1>5. ASSUME NEW p \in Procs, ResumeOne(p) \/ Resumed(p) \/ SpuriousWake(p),
             permits' = permits
      PROVE  SemInv'
    BY <1>1, <1>5, WakeMoves, SemOther
<1>6. ASSUME NEW p \in Procs, SemWake(p) PROVE SemInv'
    BY <1>5, <1>6 DEF SemWake
<1>7. CASE UNCHANGED semVars
    <2>1. UNCHANGED <<pc, op, toResume, permits>>
        BY <1>7 DEF semVars, procVars
    <2>2. HandedOver'
        BY <1>1, <2>1 DEF HandedOver
    <2> QED BY <2>1, <2>2, MaximumAssumption DEF SemInv, Waiters, Parked, Trying, At
<1>8. CASE SemNext
    <2>1. PICK p \in Procs :
            \/ BeginAcquire(p)
            \/ TryAcquire(p)
            \/ \E k \in 1 .. MaxInt : Release(p, k)
            \/ SemContinue(p)
            \/ SpuriousWake(p) /\ UNCHANGED permits
        BY <1>8 DEF SemNext
    <2>2. CASE SemContinue(p)
        BY <1>4, <1>6, <2>2, SemAcquire, SemBlock DEF SemContinue
    <2>3. CASE SpuriousWake(p) /\ UNCHANGED permits
        BY <1>5, <2>3
    <2> QED BY <1>2, <1>3, <2>1, <2>2, <2>3, SemRelease
<1> QED BY <1>7, <1>8

\* Type correctness; in particular whoever is popped is resumed once.
THEOREM SemaphoreTypes == SemSpec => []SemTypeOK
<1>1. SemInv => SemTypeOK
    BY HandedOverOK DEF SemInv, SemTypeOK, PermitsInRange
<1> QED BY <1>1, SemInvInit, SemInvNext, PTL DEF SemSpec

\* A release never takes the permits beyond the maximum, not by overflow
\* either, and an acquire never below zero.
THEOREM SemaphorePermits == SemSpec => []PermitsInRange
<1>1. SemTypeOK => PermitsInRange
    BY DEF SemTypeOK
<1> QED BY <1>1, SemaphoreTypes, PTL

\* Nobody waits beside a permit that nobody is on the way to take.
THEOREM SemaphoreNeverStrands ==
    SemSpec => []NoStrandedWaiter
<1>1. SemInv => NoStrandedWaiter
    BY DEF SemInv, NoStrandedWaiter
<1> QED BY <1>1, SemInvInit, SemInvNext, PTL DEF SemSpec

-----------------------------------------------------------------------------
(* The channel *)

\* Whoever waits for the operation o waits because each of the n things it
\* could take is spoken for.
Supplied(o, by, n) ==
    /\ Waiters(o) # {} => n <= Cardinality(Trying(o))
    /\ Parked(o) # {} => n <= Cardinality(Coming(o, by))

\* The same after a step, for a number n of the state before it.
SuppliedAfter(o, by, n) ==
    /\ Waiters(o)' # {} => n <= Cardinality(Trying(o)')
    /\ Parked(o)' # {} => n <= Cardinality(Coming(o, by)')

ChanInv ==
    /\ HandedOver
    /\ op \in [Procs -> ChanOps]
    /\ count \in 0 .. (IF Capacity = 0 THEN MaxCount ELSE Capacity)
    /\ closed \in BOOLEAN
    /\ failed \subseteq Procs
    /\ Supplied("receive", "send", count)
    /\ ~ closed => Supplied("send", "receive", Capacity - count)
    /\ EndMeansDrained

LEMMA ComingSets ==
    ASSUME NEW o, NEW by
    PROVE  Trying(o) \in SUBSET Procs /\ Coming(o, by) \in SUBSET Procs
BY DEF Coming, Trying, At

\* Nothing more to take, nobody lost on the way.
LEMMA SuppliedStays ==
    ASSUME NEW o, NEW by, NEW n \in Int, Supplied(o, by, n),
           NEW m \in Int, m <= n,
           Waiters(o)' \subseteq Waiters(o),
           Parked(o)' \subseteq Parked(o),
           Trying(o) \subseteq Trying(o)',
           Coming(o, by) \subseteq Coming(o, by)'
    PROVE  SuppliedAfter(o, by, m)
<1>1. /\ Trying(o)' \in SUBSET Procs /\ Trying(o) \in SUBSET Trying(o)'
      /\ Coming(o, by)' \in SUBSET Procs
      /\ Coming(o, by) \in SUBSET Coming(o, by)'
    BY DEF Coming, Trying, At
<1>2. /\ Cardinality(Trying(o)) <= Cardinality(Trying(o)')
      /\ Cardinality(Coming(o, by)) <= Cardinality(Coming(o, by)')
      /\ Cardinality(Trying(o)) \in Nat /\ Cardinality(Trying(o)') \in Nat
      /\ Cardinality(Coming(o, by)) \in Nat /\ Cardinality(Coming(o, by)') \in Nat
    BY <1>1, ComingSets, Counting
<1>3. Waiters(o)' # {} => m <= Cardinality(Trying(o)')
    BY <1>2 DEF Supplied
<1>4. Parked(o)' # {} => m <= Cardinality(Coming(o, by)')
    BY <1>2 DEF Supplied
<1> QED BY <1>3, <1>4 DEF SuppliedAfter

\* p takes one of the things: it is the only one that is no longer coming.
LEMMA SuppliedTakes ==
    ASSUME NEW o, NEW by, NEW n \in Int, Supplied(o, by, n), NEW p \in Procs,
           Waiters(o)' \subseteq Waiters(o),
           Parked(o)' \subseteq Parked(o),
           Trying(o) \ {p} \subseteq Trying(o)',
           Coming(o, by) \ {p} \subseteq Coming(o, by)'
    PROVE  SuppliedAfter(o, by, n - 1)
<1>1. Trying(o)' \in SUBSET Procs /\ Coming(o, by)' \in SUBSET Procs
    BY DEF Coming, Trying, At
<1>2. /\ Cardinality(Trying(o)) - 1 <= Cardinality(Trying(o)')
      /\ Cardinality(Coming(o, by)) - 1 <= Cardinality(Coming(o, by)')
    BY <1>1, ComingSets, LosesOne
<1>3. /\ Cardinality(Trying(o)) \in Nat /\ Cardinality(Trying(o)') \in Nat
      /\ Cardinality(Coming(o, by)) \in Nat /\ Cardinality(Coming(o, by)') \in Nat
    BY <1>1, ComingSets, Counting
<1>4. Waiters(o)' # {} => n - 1 <= Cardinality(Trying(o)')
    BY <1>2, <1>3 DEF Supplied
<1>5. Parked(o)' # {} => n - 1 <= Cardinality(Coming(o, by)')
    BY <1>2, <1>3 DEF Supplied
<1> QED BY <1>4, <1>5 DEF SuppliedAfter

\* p provides one more: it pops a waiter and is going to notify.
LEMMA SuppliedGrows ==
    ASSUME NEW o, NEW by, NEW n \in Int, Supplied(o, by, n),
           HandedOver, NEW Ops, op \in [Procs -> Ops], NEW p \in Procs,
           NEW S, PoppedFrom(S, o, 1), Signal(p, by, S),
           pc[p] \in {"idle", "try"}, pc[p] = "try" => op[p] # o
    PROVE  SuppliedAfter(o, by, n + 1)
<1>1. S \in SUBSET At("waiting") /\ \A q \in S : op[q] = o
    BY DEF PoppedFrom, Waiters
<1>2. /\ Waiters(o)' = Waiters(o) \ S
      /\ Trying(o)' = (Trying(o) \ {p}) \cup {q \in S : op[q] = o}
      /\ Parked(o)' = Parked(o)
      /\ At("notify")' = At("notify") \cup {p}
      /\ \A q \in Procs \ {p} : op'[q] = op[q]
      /\ op'[p] = by
    BY <1>1, SignalMoves
<1>3. p \notin Trying(o) /\ p \notin Coming(o, by)
    BY DEF Coming, Trying, At
<1>4. Trying(o)' = Trying(o) \cup S
    BY <1>1, <1>2, <1>3
<1>5. Coming(o, by) \cup {p} \subseteq Coming(o, by)'
    BY <1>2, <1>3, <1>4 DEF Coming, At
<1>6. /\ Trying(o)' \in SUBSET Procs /\ Coming(o, by)' \in SUBSET Procs
      /\ S \in SUBSET Procs /\ Trying(o) \cap S = {}
    BY <1>1 DEF Coming, Trying, At
<1>7. /\ Cardinality(Trying(o)) \in Nat /\ Cardinality(Trying(o)') \in Nat
      /\ Cardinality(Coming(o, by)) \in Nat /\ Cardinality(Coming(o, by)') \in Nat
    BY <1>6, ComingSets, Counting
<1>8. Waiters(o)' # {} => n + 1 <= Cardinality(Trying(o)')
    <2> SUFFICES ASSUME Waiters(o)' # {} PROVE n + 1 <= Cardinality(Trying(o)')
        OBVIOUS
    <2>1. Cardinality(S) = 1 /\ Waiters(o) # {}
        BY <1>2 DEF PoppedFrom
    <2>2. Cardinality(Trying(o)) + Cardinality(S) <= Cardinality(Trying(o)')
        BY <1>4, <1>6, ComingSets, GainsAll
    <2> QED BY <1>7, <2>1, <2>2 DEF Supplied
<1>9. Parked(o)' # {} => n + 1 <= Cardinality(Coming(o, by)')
    <2>1. Cardinality(Coming(o, by)) + 1 <= Cardinality(Coming(o, by)')
        BY <1>3, <1>5, <1>6, ComingSets, GainsOne
    <2> QED BY <1>2, <1>7, <2>1 DEF Supplied
<1> QED BY <1>8, <1>9 DEF SuppliedAfter

\* p notifies one of the threads that wait for what it provided.
LEMMA SuppliedNotified ==
    ASSUME NEW o, NEW by, NEW n \in Int, Supplied(o, by, n),
           HandedOver, NEW p \in Procs, NotifyOne(p, o)
    PROVE  SuppliedAfter(o, by, n)
<1>1. PICK N \in SUBSET Parked(o) :
          /\ Parked(o) # {} => \E m \in Procs : N = {m}
          /\ Parked(o)' = Parked(o) \ N
          /\ Trying(o)' = Trying(o) \cup N
    BY NotifyOneMoves
<1>2. /\ Waiters(o)' = Waiters(o) /\ At("notify")' = At("notify") \ {p} /\ op' = op
    BY NotifyOneMoves
<1>3. Coming(o, by)' = Trying(o)' \cup {q \in At("notify") \ {p} : op[q] = by}
    BY <1>2 DEF Coming
<1>4. Trying(o)' \in SUBSET Procs /\ Coming(o, by)' \in SUBSET Procs
    BY DEF Coming, Trying, At
<1>5. /\ Cardinality(Trying(o)) \in Nat /\ Cardinality(Trying(o)') \in Nat
      /\ Cardinality(Coming(o, by)) \in Nat /\ Cardinality(Coming(o, by)') \in Nat
    BY <1>4, ComingSets, Counting
<1>6. Cardinality(Trying(o)) <= Cardinality(Trying(o)')
    <2>1. Trying(o) \in SUBSET Trying(o)'
        BY <1>1
    <2> QED BY <1>4, <2>1, Counting
<1>7. Parked(o)' # {} => n <= Cardinality(Coming(o, by)')
    <2> SUFFICES ASSUME Parked(o)' # {} PROVE n <= Cardinality(Coming(o, by)')
        OBVIOUS
    <2>1. PICK m \in Procs : N = {m}
        BY <1>1
    <2>2. m \in Parked(o) /\ m \notin Coming(o, by)
        BY <1>1, <2>1 DEF Parked, Coming, Trying, At
    <2>3. (Coming(o, by) \cup {m}) \ {p} \subseteq Coming(o, by)'
        BY <1>1, <1>3, <2>1 DEF Coming
    <2>4. Coming(o, by) \cup {m} \in SUBSET Procs
        BY ComingSets
    <2>5. Cardinality(Coming(o, by) \cup {m}) - 1 <= Cardinality(Coming(o, by)')
        BY <1>4, <2>3, <2>4, LosesOne
    <2>6. Cardinality(Coming(o, by) \cup {m}) = Cardinality(Coming(o, by)) + 1
        BY <2>2, ComingSets, Counting, FS_AddElement
    <2>7. n <= Cardinality(Coming(o, by))
        BY <2>2 DEF Supplied
    <2> QED BY <1>5, <2>5, <2>6, <2>7
<1> QED BY <1>2, <1>5, <1>6, <1>7 DEF Supplied, SuppliedAfter

LEMMA ChanInvInit == ChanInit => ChanInv
<1> SUFFICES ASSUME ChanInit PROVE ChanInv
    OBVIOUS
<1>1. AllIdle("send") /\ count = 0 /\ closed = FALSE /\ failed = {}
    BY DEF ChanInit
<1>2. HandedOver
    BY <1>1 DEF AllIdle, HandedOver, Points, Procs
<1>3. op \in [Procs -> ChanOps]
    BY <1>1 DEF AllIdle, ChanOps
<1>4. ASSUME NEW o, NEW by, NEW n PROVE Supplied(o, by, n)
    BY <1>1 DEF AllIdle, Supplied, Waiters, Parked, At
<1>5. EndMeansDrained
    BY <1>1 DEF EndMeansDrained
<1>6. count \in 0 .. (IF Capacity = 0 THEN MaxCount ELSE Capacity)
    BY <1>1, CapacityAssumption
<1> QED BY <1>1, <1>2, <1>3, <1>4, <1>5, <1>6 DEF ChanInv

LEMMA ChanCounts ==
    ASSUME ChanInv
    PROVE  /\ count \in Nat /\ Capacity \in Nat /\ MaxCount \in Nat
           /\ count \in Int /\ Capacity - count \in Int
           /\ \A q \in failed : q \in Procs
BY CapacityAssumption DEF ChanInv

\* A value is queued, and whoever is popped or notified can take it.
LEMMA ChanPush ==
    ASSUME ChanInv, NEW p \in Procs, Push(p), pc[p] \in {"idle", "try"},
           pc[p] = "try" => op[p] = "send"
    PROVE  ChanInv'
<1>1. /\ ~ closed /\ closed' = closed
      /\ count' = count + 1
      /\ Capacity = 0 => count < MaxCount
      /\ Capacity # 0 => count < Capacity
      /\ failed' = failed \ {p}
    BY DEF Push, HasRoom, Succeeds
<1>2. PICK S : PoppedFrom(S, "receive", 1) /\ Signal(p, "send", S)
    BY DEF Push
<1>3. S \in SUBSET At("waiting") /\ \A q \in S : op[q] = "receive"
    BY <1>2 DEF PoppedFrom, Waiters
<1>4. HandedOver /\ op \in [Procs -> ChanOps]
    BY DEF ChanInv
<1>5. HandedOver'
    BY <1>2, <1>3, <1>4, SignalKeepsHands
<1>6. op' \in [Procs -> ChanOps]
    BY <1>2, <1>4 DEF Signal, ChanOps
<1>7. count' \in 0 .. (IF Capacity = 0 THEN MaxCount ELSE Capacity)
    BY <1>1, ChanCounts
<1>8. SuppliedAfter("receive", "send", count + 1)
    <2>1. Supplied("receive", "send", count)
        BY DEF ChanInv
    <2> QED BY <1>2, <1>4, <2>1, ChanCounts, SuppliedGrows
<1>9. SuppliedAfter("send", "receive", Capacity - count - 1)
    <2>1. Supplied("send", "receive", Capacity - count)
        BY <1>1 DEF ChanInv
    <2>2. /\ Waiters("send")' = Waiters("send") \ S
          /\ Trying("send")' = (Trying("send") \ {p}) \cup {q \in S : op[q] = "send"}
          /\ Parked("send")' = Parked("send")
          /\ At("notify")' = At("notify") \cup {p}
          /\ \A q \in Procs \ {p} : op'[q] = op[q]
        BY <1>2, <1>3, <1>4, SignalMoves
    <2>3. /\ Trying("send") \ {p} \subseteq Trying("send")'
          /\ Coming("send", "receive") \ {p} \subseteq Coming("send", "receive")'
        BY <2>2 DEF Coming, At
    <2> QED BY <2>1, <2>2, <2>3, ChanCounts, SuppliedTakes
<1>10. EndMeansDrained'
    BY <1>1 DEF ChanInv, EndMeansDrained
<1>11. Supplied("receive", "send", count)' /\ Supplied("send", "receive", Capacity - count)'
    <2>1. Capacity - count' = Capacity - count - 1
        BY <1>1, ChanCounts
    <2> QED BY <1>1, <1>8, <1>9, <2>1 DEF Supplied, SuppliedAfter
<1>12. failed' \subseteq Procs /\ closed' \in BOOLEAN
    BY <1>1 DEF ChanInv
<1> QED BY <1>5, <1>6, <1>7, <1>10, <1>11, <1>12 DEF ChanInv

\* A value is taken, and whoever is popped or notified can use the room.
LEMMA ChanPop ==
    ASSUME ChanInv, NEW p \in Procs, Pop(p), pc[p] \in {"idle", "try"},
           pc[p] = "try" => op[p] = "receive"
    PROVE  ChanInv'
<1>1. /\ count > 0 /\ closed' = closed
      /\ count' = count - 1
      /\ failed' = failed \ {p}
    BY DEF Pop, Succeeds
<1>2. PICK S : PoppedFrom(S, "send", 1) /\ Signal(p, "receive", S)
    BY DEF Pop
<1>3. S \in SUBSET At("waiting") /\ \A q \in S : op[q] = "send"
    BY <1>2 DEF PoppedFrom, Waiters
<1>4. HandedOver /\ op \in [Procs -> ChanOps]
    BY DEF ChanInv
<1>5. HandedOver'
    BY <1>2, <1>3, <1>4, SignalKeepsHands
<1>6. op' \in [Procs -> ChanOps]
    BY <1>2, <1>4 DEF Signal, ChanOps
<1>7. count' \in 0 .. (IF Capacity = 0 THEN MaxCount ELSE Capacity)
    BY <1>1, ChanCounts DEF ChanInv
<1>8. ~ closed => SuppliedAfter("send", "receive", Capacity - count + 1)
    <2>1. ~ closed => Supplied("send", "receive", Capacity - count)
        BY DEF ChanInv
    <2> QED BY <1>2, <1>4, <2>1, ChanCounts, SuppliedGrows
<1>9. /\ Waiters("receive")' = Waiters("receive") \ S
      /\ Trying("receive")'
            = (Trying("receive") \ {p}) \cup {q \in S : op[q] = "receive"}
      /\ Parked("receive")' = Parked("receive")
      /\ At("notify")' = At("notify") \cup {p}
      /\ \A q \in Procs \ {p} : op'[q] = op[q]
    BY <1>2, <1>3, <1>4, SignalMoves
<1>10. SuppliedAfter("receive", "send", count - 1)
    <2>1. Supplied("receive", "send", count)
        BY DEF ChanInv
    <2>2. /\ Trying("receive") \ {p} \subseteq Trying("receive")'
          /\ Coming("receive", "send") \ {p} \subseteq Coming("receive", "send")'
        BY <1>9 DEF Coming, At
    <2> QED BY <1>9, <2>1, <2>2, ChanCounts, SuppliedTakes
<1>11. EndMeansDrained'
    <2> SUFFICES ASSUME NEW q \in failed \ {p}
                 PROVE  closed' /\ (op'[q] = "receive" => count' = 0)
        BY <1>1 DEF EndMeansDrained
    <2>1. closed /\ op[q] # "receive"
        BY <1>1, ChanCounts DEF ChanInv, EndMeansDrained
    <2> QED BY <1>1, <1>9, <2>1, ChanCounts
<1>12. /\ Supplied("receive", "send", count)'
       /\ (~ closed => Supplied("send", "receive", Capacity - count))'
    <2>1. Capacity - count' = Capacity - count + 1
        BY <1>1, ChanCounts
    <2> QED BY <1>1, <1>8, <1>10, <2>1 DEF Supplied, SuppliedAfter
<1>13. failed' \subseteq Procs /\ closed' \in BOOLEAN
    BY <1>1 DEF ChanInv
<1> QED BY <1>5, <1>6, <1>7, <1>11, <1>12, <1>13 DEF ChanInv

\* The close pops everybody who waits.
LEMMA ChanClose ==
    ASSUME ChanInv, NEW p \in Procs, Close(p)
    PROVE  ChanInv'
<1> DEFINE S == Waiters("send") \cup Waiters("receive")
<1>1. /\ pc[p] = "idle" /\ closed' = TRUE /\ count' = count
      /\ failed' = failed \ {p}
      /\ Signal(p, "close", S)
    BY DEF Close, Succeeds
<1>2. S \in SUBSET At("waiting")
    BY DEF Waiters
<1>3. HandedOver /\ op \in [Procs -> ChanOps]
    BY DEF ChanInv
<1>4. HandedOver'
    BY <1>1, <1>2, <1>3, SignalKeepsHands
<1>5. op' \in [Procs -> ChanOps]
    BY <1>1, <1>3 DEF Signal, ChanOps
<1>6. /\ Waiters("receive")' = Waiters("receive") \ S
      /\ Trying("receive")'
            = (Trying("receive") \ {p}) \cup {q \in S : op[q] = "receive"}
      /\ Parked("receive")' = Parked("receive")
      /\ At("notify")' = At("notify") \cup {p}
      /\ \A q \in Procs \ {p} : op'[q] = op[q]
    BY <1>1, <1>2, <1>3, SignalMoves
<1>7. p \notin Trying("receive") /\ p \notin At("notify")
    BY <1>1 DEF Trying, At
<1>8. Supplied("receive", "send", count)'
    <2>1. Supplied("receive", "send", count)
        BY DEF ChanInv
    <2>2. /\ Trying("receive") \subseteq Trying("receive")'
          /\ Coming("receive", "send") \subseteq Coming("receive", "send")'
        BY <1>6, <1>7 DEF Coming, At
    <2>3. SuppliedAfter("receive", "send", count)
        BY <1>6, <2>1, <2>2, ChanCounts, SuppliedStays
    <2> QED BY <1>1, <2>3 DEF Supplied, SuppliedAfter
<1>9. EndMeansDrained'
    BY <1>1, <1>6, ChanCounts DEF ChanInv, EndMeansDrained
<1> QED BY <1>1, <1>4, <1>5, <1>8, <1>9 DEF ChanInv

LEMMA SuppliedNone ==
    ASSUME NEW o, NEW by, NEW n \in Int, n <= 0
    PROVE  SuppliedAfter(o, by, n)
<1>1. Trying(o)' \in SUBSET Procs /\ Coming(o, by)' \in SUBSET Procs
    BY DEF Coming, Trying, At
<1>2. Cardinality(Trying(o)') \in Nat /\ Cardinality(Coming(o, by)') \in Nat
    BY <1>1, Counting
<1> QED BY <1>2 DEF SuppliedAfter

\* The steps that change neither the queue nor whether the channel is closed.
LEMMA ChanKeeps ==
    ASSUME ChanInv, HandedOver', op' \in [Procs -> ChanOps],
           count' = count, closed' = closed, failed' \subseteq Procs,
           EndMeansDrained',
           SuppliedAfter("receive", "send", count),
           ~ closed => SuppliedAfter("send", "receive", Capacity - count)
    PROVE  ChanInv'
<1>1. /\ Supplied("receive", "send", count)'
      /\ (~ closed => Supplied("send", "receive", Capacity - count))'
    BY DEF Supplied, SuppliedAfter
<1>2. /\ count' \in 0 .. (IF Capacity = 0 THEN MaxCount ELSE Capacity)
      /\ closed' \in BOOLEAN
    BY DEF ChanInv
<1> QED BY <1>1, <1>2 DEF ChanInv

LEMMA ChanSendEnds ==
    ASSUME ChanInv, NEW p \in Procs, SendClosed(p) \/ SendBlocks(p)
    PROVE  ChanInv'
<1>1. /\ pc[p] = "try" /\ op[p] = "send"
      /\ count' = count /\ closed' = closed
      /\ \/ closed /\ Leave(p) /\ failed' = failed \cup {p}
         \/ ~ closed /\ Capacity - count <= 0 /\ Wait(p) /\ failed' = failed
    BY ChanCounts
       DEF SendClosed, SendBlocks, HasRoom, Fails, chanState,
           Tries
<1>2. HandedOver /\ op \in [Procs -> ChanOps]
    BY DEF ChanInv
<1>3. /\ HandedOver' /\ op' = op
      /\ Waiters("receive")' = Waiters("receive")
      /\ Parked("receive")' = Parked("receive")
      /\ Trying("receive")' = Trying("receive") \ {p}
      /\ At("notify")' = At("notify")
    BY <1>1, <1>2, LeaveMoves, WaitMoves
<1>4. SuppliedAfter("receive", "send", count)
    <2>1. p \notin Trying("receive")
        BY <1>1 DEF Trying
    <2>2. Coming("receive", "send")' = Coming("receive", "send")
        BY <1>3, <2>1 DEF Coming
    <2>3. Supplied("receive", "send", count)
        BY DEF ChanInv
    <2> QED BY <1>3, <2>1, <2>2, <2>3, ChanCounts, SuppliedStays
<1>5. ~ closed => SuppliedAfter("send", "receive", Capacity - count)
    BY <1>1, ChanCounts, SuppliedNone
<1>6. EndMeansDrained'
    BY <1>1, <1>3 DEF ChanInv, EndMeansDrained
<1>7. failed' \subseteq Procs
    BY <1>1, ChanCounts
<1> QED BY <1>1, <1>2, <1>3, <1>4, <1>5, <1>6, <1>7, ChanKeeps

LEMMA ChanReceiveEnds ==
    ASSUME ChanInv, NEW p \in Procs, ReceiveClosed(p) \/ ReceiveBlocks(p)
    PROVE  ChanInv'
<1>1. /\ pc[p] = "try" /\ op[p] = "receive" /\ count = 0
      /\ count' = count /\ closed' = closed
      /\ \/ closed /\ Leave(p) /\ failed' = failed \cup {p}
         \/ ~ closed /\ Wait(p) /\ failed' = failed
    BY DEF ReceiveClosed, ReceiveBlocks, Fails,
       chanState, Tries
<1>2. HandedOver /\ op \in [Procs -> ChanOps]
    BY DEF ChanInv
<1>3. HandedOver' /\ op' = op
    BY <1>1, <1>2, LeaveMoves, WaitMoves
<1>4. SuppliedAfter("receive", "send", count)
    BY <1>1, ChanCounts, SuppliedNone
<1>5. ~ closed => SuppliedAfter("send", "receive", Capacity - count)
    <2> SUFFICES ASSUME ~ closed
                 PROVE  SuppliedAfter("send", "receive", Capacity - count)
        OBVIOUS
    <2>1. /\ Waiters("send")' = Waiters("send")
          /\ Parked("send")' = Parked("send")
          /\ Trying("send")' = Trying("send") \ {p}
          /\ At("notify")' = At("notify")
        BY <1>1, <1>2, WaitMoves
    <2>2. p \notin Trying("send")
        BY <1>1 DEF Trying
    <2>3. Coming("send", "receive")' = Coming("send", "receive")
        BY <1>3, <2>1, <2>2 DEF Coming
    <2>4. Supplied("send", "receive", Capacity - count)
        BY DEF ChanInv
    <2> QED BY <2>1, <2>2, <2>3, <2>4, ChanCounts, SuppliedStays
<1>6. EndMeansDrained'
    BY <1>1, <1>3 DEF ChanInv, EndMeansDrained
<1>7. failed' \subseteq Procs
    BY <1>1, ChanCounts
<1> QED BY <1>1, <1>2, <1>3, <1>4, <1>5, <1>6, <1>7, ChanKeeps

LEMMA ChanInvNotify ==
    ASSUME ChanInv, NEW p \in Procs, ChanNotify(p)
    PROVE  ChanInv'
<1>1. count' = count /\ closed' = closed /\ failed' = failed
    BY DEF ChanNotify, chanState
<1>2. /\ HandedOver /\ op \in [Procs -> ChanOps]
      /\ Supplied("receive", "send", count)
      /\ ~ closed => Supplied("send", "receive", Capacity - count)
    BY DEF ChanInv
<1>3. op' = op => EndMeansDrained' /\ failed' \subseteq Procs
    BY <1>1 DEF ChanInv, EndMeansDrained
<1>4. CASE op[p] = "send" /\ NotifyOne(p, "receive")
    <2>1. /\ HandedOver' /\ op' = op
          /\ At("notify")' = At("notify") \ {p}
          /\ Waiters("send")' = Waiters("send")
          /\ Parked("send")' = Parked("send")
          /\ Trying("send")' = Trying("send")
        BY <1>2, <1>4, NotifyOneMoves
    <2>2. SuppliedAfter("receive", "send", count)
        BY <1>2, <1>4, ChanCounts, SuppliedNotified
    <2>3. Coming("send", "receive")' = Coming("send", "receive")
        BY <1>4, <2>1 DEF Coming
    <2>4. ~ closed => SuppliedAfter("send", "receive", Capacity - count)
        BY <1>2, <2>1, <2>3, ChanCounts, SuppliedStays
    <2> QED BY <1>1, <1>2, <1>3, <2>1, <2>2, <2>4, ChanKeeps
<1>5. CASE op[p] = "receive" /\ NotifyOne(p, "send")
    <2>1. /\ HandedOver' /\ op' = op
          /\ At("notify")' = At("notify") \ {p}
          /\ Waiters("receive")' = Waiters("receive")
          /\ Parked("receive")' = Parked("receive")
          /\ Trying("receive")' = Trying("receive")
        BY <1>2, <1>5, NotifyOneMoves
    <2>2. ~ closed => SuppliedAfter("send", "receive", Capacity - count)
        BY <1>2, <1>5, ChanCounts, SuppliedNotified
    <2>3. Coming("receive", "send")' = Coming("receive", "send")
        BY <1>5, <2>1 DEF Coming
    <2>4. SuppliedAfter("receive", "send", count)
        BY <1>2, <2>1, <2>3, ChanCounts, SuppliedStays
    <2> QED BY <1>1, <1>2, <1>3, <2>1, <2>2, <2>4, ChanKeeps
<1>6. CASE op[p] = "close" /\ NotifyAll(p, {"send", "receive"})
    <2>1. ASSUME NEW x \in {"send", "receive"}
          PROVE  /\ HandedOver' /\ op' = op
                 /\ Waiters(x)' = Waiters(x)
                 /\ Parked(x)' = {}
                 /\ Trying(x) \subseteq Trying(x)'
                 /\ At("notify")' = At("notify") \ {p}
        BY <1>2, <1>6, NotifyAllMoves
    <2>2. /\ Coming("receive", "send") \subseteq Coming("receive", "send")'
          /\ Coming("send", "receive") \subseteq Coming("send", "receive")'
        BY <1>6, <2>1 DEF Coming
    <2>3. SuppliedAfter("receive", "send", count)
        BY <1>2, <2>1, <2>2, ChanCounts, SuppliedStays
    <2>4. ~ closed => SuppliedAfter("send", "receive", Capacity - count)
        BY <1>2, <2>1, <2>2, ChanCounts, SuppliedStays
    <2>5. HandedOver' /\ op' = op
        BY <2>1
    <2> QED BY <1>1, <1>2, <1>3, <2>3, <2>4, <2>5, ChanKeeps
<1> QED BY <1>4, <1>5, <1>6 DEF ChanNotify

\* The other steps lose nobody on the way.
LEMMA ChanOther ==
    ASSUME ChanInv, HandedOver', op' \in [Procs -> ChanOps],
           count' = count, closed' = closed, failed' \subseteq failed,
           \A q \in failed' : op'[q] = op[q],
           \A x : /\ Waiters(x)' = Waiters(x)
                  /\ Parked(x)' \subseteq Parked(x)
                  /\ Trying(x) \subseteq Trying(x)',
           \A q \in At("notify") : q \in At("notify")' /\ op'[q] = op[q]
    PROVE  ChanInv'
<1>1. \A x, by : Coming(x, by) \subseteq Coming(x, by)'
    BY DEF Coming
<1>2. /\ Supplied("receive", "send", count)
      /\ ~ closed => Supplied("send", "receive", Capacity - count)
    BY DEF ChanInv
<1>3. SuppliedAfter("receive", "send", count)
    BY <1>1, <1>2, ChanCounts, SuppliedStays
<1>4. ~ closed => SuppliedAfter("send", "receive", Capacity - count)
    BY <1>1, <1>2, ChanCounts, SuppliedStays
<1>5. EndMeansDrained' /\ failed' \subseteq Procs
    BY DEF ChanInv, EndMeansDrained
<1> QED BY <1>3, <1>4, <1>5, ChanKeeps

LEMMA ChanInvNext == ChanInv /\ [ChanNext]_chanVars => ChanInv'
<1> SUFFICES ASSUME ChanInv, [ChanNext]_chanVars PROVE ChanInv'
    OBVIOUS
<1>1. HandedOver /\ op \in [Procs -> ChanOps]
    BY DEF ChanInv
<1>2. ASSUME NEW p \in Procs, NEW o \in {"send", "receive"}, BeginCall(p, o)
      PROVE  ChanInv'
    <2>1. /\ Enter(p, o) /\ count' = count /\ closed' = closed
          /\ failed' = failed \ {p}
        BY <1>2 DEF BeginCall
    <2>2. /\ op' \in [Procs -> ChanOps] /\ p \notin At("notify")
          /\ \A q \in Procs \ {p} : op'[q] = op[q]
        BY <1>1, <2>1 DEF Enter, ChanOps, At
    <2>3. \A x : /\ HandedOver'
                 /\ Waiters(x)' = Waiters(x)
                 /\ Parked(x)' = Parked(x)
                 /\ Trying(x) \subseteq Trying(x)'
                 /\ At("notify")' = At("notify")
        BY <1>1, <2>1, EnterMoves
    <2>4. \A q \in failed' : op'[q] = op[q]
        BY <2>1, <2>2, ChanCounts
    <2>5. \A q \in At("notify") : q \in At("notify")' /\ op'[q] = op[q]
        BY <2>2, <2>3 DEF At
    <2> QED BY <2>1, <2>2, <2>3, <2>4, <2>5, ChanOther
<1>3. ASSUME NEW p \in Procs, ResumeOne(p) \/ Resumed(p) \/ SpuriousWake(p),
             UNCHANGED chanState
      PROVE  ChanInv'
    <2>1. count' = count /\ closed' = closed /\ failed' = failed
        BY <1>3 DEF chanState
    <2>2. \A x : /\ HandedOver' /\ op' = op
                 /\ Waiters(x)' = Waiters(x)
                 /\ Parked(x)' \subseteq Parked(x)
                 /\ Trying(x) \subseteq Trying(x)'
                 /\ At("notify")' = At("notify")
        BY <1>1, <1>3, WakeMoves
    <2> QED BY <1>1, <2>1, <2>2, ChanOther
<1>4. CASE UNCHANGED chanVars
    <2>1. UNCHANGED <<pc, op, toResume, count, closed, failed>>
        BY <1>4 DEF chanVars, chanState, procVars
    <2>2. HandedOver'
        BY <1>1, <2>1 DEF HandedOver
    <2>3. \A x : /\ Waiters(x)' = Waiters(x) /\ Parked(x)' = Parked(x)
                 /\ Trying(x)' = Trying(x) /\ At(x)' = At(x)
        BY <2>1 DEF Waiters, Parked, Trying, At
    <2> QED BY <1>1, <2>1, <2>2, <2>3, ChanOther
<1>5. CASE ChanNext
    <2>1. PICK p \in Procs :
            \/ BeginCall(p, "send") \/ BeginCall(p, "receive")
            \/ TrySend(p) \/ TryReceive(p) \/ Close(p)
            \/ ChanContinue(p)
            \/ SpuriousWake(p) /\ UNCHANGED chanState
        BY <1>5 DEF ChanNext
    <2>2. CASE ChanContinue(p)
        <3>1. CASE Send(p)
            BY <3>1, ChanPush DEF Send, Tries
        <3>2. CASE Receive(p)
            BY <3>2, ChanPop DEF Receive, Tries
        <3>3. CASE ChanWake(p)
            BY <1>3, <3>3 DEF ChanWake
        <3> QED
            BY <2>2, <3>1, <3>2, <3>3, ChanSendEnds, ChanReceiveEnds, ChanInvNotify
               DEF ChanContinue
    <2>3. CASE TrySend(p)
        BY <2>3, ChanPush DEF TrySend
    <2>4. CASE TryReceive(p)
        BY <2>4, ChanPop DEF TryReceive
    <2>5. CASE SpuriousWake(p) /\ UNCHANGED chanState
        BY <1>3, <2>5
    <2> QED BY <1>2, <2>1, <2>2, <2>3, <2>4, <2>5, ChanClose
<1> QED BY <1>4, <1>5

\* A bounded channel never holds more values than its capacity, and whoever is
\* popped is resumed once.
THEOREM ChannelTypes == ChanSpec => []ChanTypeOK
<1>1. ChanInv => ChanTypeOK
    BY HandedOverOK DEF ChanInv, ChanTypeOK
<1> QED BY <1>1, ChanInvInit, ChanInvNext, PTL DEF ChanSpec

\* Nobody waits beside a value, or in an open channel beside a free place, that
\* nobody is on the way to take.
THEOREM ChannelNeverStrands == ChanSpec => []NoneStranded
<1>1. ChanInv => NoneStranded
    BY DEF ChanInv, Supplied, NoneStranded
<1> QED BY <1>1, ChanInvInit, ChanInvNext, PTL DEF ChanSpec

\* A receive reports the end only of a channel that is closed and drained.
THEOREM ChannelDrains == ChanSpec => []EndMeansDrained
<1>1. ChanInv => EndMeansDrained
    BY DEF ChanInv
<1> QED BY <1>1, ChanInvInit, ChanInvNext, PTL DEF ChanSpec

-----------------------------------------------------------------------------
(* Once *)

\* Who is inside the initializer follows from the state, whatever the waiters
\* do; who has returned found it complete.
OnceInv ==
    /\ state \in {"idle", "running", "complete"}
    /\ running \subseteq Procs
    /\ returned \subseteq Procs
    /\ state # "running" => running = {}
    /\ \A p, q \in running : p = q
    /\ returned # {} => state = "complete"

LEMMA OnceInvInit == OnceInit => OnceInv
    BY DEF OnceInit, OnceInv

LEMMA OnceInvNext == OnceInv /\ [OnceNext]_onceVars => OnceInv'
<1> SUFFICES ASSUME OnceInv, [OnceNext]_onceVars PROVE OnceInv'
    OBVIOUS
<1> USE DEF OnceInv
<1>1. ASSUME NEW p \in Procs, Call(p) PROVE OnceInv'
    BY <1>1 DEF Call
<1>2. ASSUME NEW p \in Procs, Begin(p) PROVE OnceInv'
    BY <1>2 DEF Begin
<1>3. ASSUME NEW p \in Procs, BeginComplete(p) PROVE OnceInv'
    BY <1>3 DEF BeginComplete
<1>4. ASSUME NEW p \in Procs, Complete(p) PROVE OnceInv'
    BY <1>4 DEF Complete, End
<1>5. ASSUME NEW p \in Procs, Reset(p) PROVE OnceInv'
    BY <1>5 DEF Reset, End
<1>6. ASSUME UNCHANGED onceState PROVE OnceInv'
    BY <1>6 DEF onceState
<1> QED
    BY <1>1, <1>2, <1>3, <1>4, <1>5, <1>6
       DEF OnceNext, OnceContinue, BeginBlocks, OnceNotify, OnceWake, onceVars

LEMMA OnceInvariance == OnceSpec => []OnceInv
<1> QED BY OnceInvInit, OnceInvNext, PTL DEF OnceSpec

\* No caller returns normally from Once.call while the initializer has not
\* succeeded, also when it throws and is run again.
THEOREM AlwaysReturnsInitialized == OnceSpec => []ReturnsInitialized
<1>1. OnceInv => ReturnsInitialized
    BY DEF OnceInv, ReturnsInitialized
<1> QED BY <1>1, OnceInvariance, PTL

\* The initializer is not run again after it has succeeded, although callers
\* that were waiting for it try to begin.
THEOREM AlwaysOnce == OnceSpec => ExactlyOnce
<1>1. ASSUME OnceInv, [OnceNext]_onceVars, state = "complete"
      PROVE  running' = {} /\ state' = "complete"
    <2> USE <1>1 DEF OnceInv
    <2>1. ASSUME NEW p \in Procs, Call(p) \/ BeginComplete(p)
          PROVE  running' = running /\ state' = state
        BY <2>1 DEF Call, BeginComplete
    <2>2. \A p \in Procs : ~ Begin(p) /\ ~ Complete(p) /\ ~ Reset(p)
        BY DEF Begin, Complete, Reset, End
    <2>3. ASSUME UNCHANGED onceState
          PROVE  running' = running /\ state' = state
        BY <2>3 DEF onceState
    <2> QED
        BY <2>1, <2>2, <2>3
           DEF OnceNext, OnceContinue, BeginBlocks, OnceNotify, OnceWake, onceVars
<1>2. OnceInv /\ [OnceNext]_onceVars => [state = "complete" => running' = {} /\ state' = "complete"]_onceVars
    BY <1>1
<1> QED BY <1>2, OnceInvariance, PTL DEF OnceSpec, ExactlyOnce


-----------------------------------------------------------------------------
(* The mutex and the condition variable *)

\* Where the processes are.  The condition's mutex is held from the call of a
\* wait until the process sleeps.
MonBase ==
    /\ HandedOver
    /\ op \in [Procs -> MonOps]
    /\ doing \in [Procs -> Tasks]
    /\ tokens \in 0 .. MaxTokens
    /\ condMutex \in Procs \cup {Nobody}
    /\ \A p \in Procs :
        /\ condMutex = p
             <=> pc[p] \in {"notify", "resume"} /\ doing[p] = "consume"
        /\ condMutex = p => op[p] = "unlock"
        /\ pc[p] \in {"try", "waiting", "popped", "parked"} =>
             op[p] = "lock" \/ (op[p] = "wait" /\ doing[p] = "consume")
        /\ pc[p] = "parked" => p \in Natives

MutexInv ==
    /\ holds \in SUBSET Procs
    /\ locked = (holds # {})
    /\ \A p, q \in holds : p = q

\* nativeWaiters counts the threads between the registration and the wake-up.
GenerationInv ==
    /\ advanced \subseteq Registered
    /\ nativeWaiters = Cardinality(Registered \cup ({condMutex} \cap Natives))

\* The sleepers no notification has come for since they registered, ...
Fresh ==
    {p \in Procs : doing[p] = "consume" /\
        \/ condMutex = p
        \/ p \in Waiters("wait")
        \/ p \in Registered \ advanced}

\* ... and the threads whose generation has passed and who sleep on.
Passed == Parked("wait") \cap advanced

\* The consumers that are up and the producers that have not notified yet.
Awake ==
    {p \in Procs : doing[p] = "consume" /\ p \notin Fresh \cup Passed}
        \cup {p \in Procs : doing[p] = "notify"}

\* The notifiers that popped no fiber, or all, and have still to wake a thread.
Notes ==
    {p \in At("notify") :
        op[p] = "broadcast" \/ (op[p] = "signal" /\ toResume[p] = {})}

\* A consumer registers when there is no token, and a notifier that pops no
\* fiber leaves no fresh sleeper: beside a fresh sleeper every token has an
\* Awake process.  Beside the others, also the Notes count: a thread woken
\* by one of them that goes back to sleep was a fresh one.
TokenInv ==
    /\ Fresh # {} => tokens <= Cardinality(Awake)
    /\ Passed # {} => tokens <= Cardinality(Awake \cup Notes)

MonInv == MonBase /\ MutexInv /\ GenerationInv /\ TokenInv

LEMMA MonInvInit == MonInit => MonInv
<1> SUFFICES ASSUME MonInit PROVE MonInv
    OBVIOUS
<1>1. /\ pc = [p \in Procs |-> "idle"] /\ op = [p \in Procs |-> "unlock"]
      /\ toResume = [p \in Procs |-> {}]
    BY DEF MonInit, AllIdle
<1>2. HandedOver
    BY <1>1 DEF HandedOver, Points, Procs
<1>3. MonBase
    BY <1>1, <1>2, MonitorAssumption DEF MonInit, MonBase, MonOps, Tasks
<1>4. MutexInv
    BY DEF MonInit, MutexInv
<1>5. Registered \cup ({condMutex} \cap Natives) = {}
    BY <1>1, MonitorAssumption DEF MonInit, Registered, Procs
<1>6. GenerationInv
    BY <1>5, FS_EmptySet DEF MonInit, GenerationInv
<1>7. Fresh = {} /\ Passed = {}
    BY <1>1 DEF MonInit, Fresh, Passed
<1> QED BY <1>3, <1>4, <1>6, <1>7 DEF MonInv, TokenInv

\* What the invariant says of the sleepers.
LEMMA Sleepers ==
    ASSUME MonInv
    PROVE  /\ Asleep = Fresh \cup Passed
           /\ Awake \in SUBSET Procs /\ Notes \in SUBSET Procs
           /\ Awake \cup Notes \subseteq Up
           /\ Up \in SUBSET Procs
<1>1. Asleep = Fresh \cup Passed
    BY DEF Asleep, Fresh, Passed, Registered, Tries, Blocked, Waiters, Parked,
           At, MonInv, MonBase, GenerationInv, Procs
<1>2. Awake \in SUBSET Procs /\ Notes \in SUBSET Procs /\ Up \in SUBSET Procs
    BY DEF Awake, Notes, Up, At
<1>3. Awake \cup Notes \subseteq Up
    BY <1>1 DEF Awake, Notes, Up
<1> QED BY <1>1, <1>2, <1>3

LEMMA SpokenFor == MonInv => NoStrandedConsumer
<1> SUFFICES ASSUME MonInv, Asleep # {} PROVE tokens <= Cardinality(Up)
    BY DEF NoStrandedConsumer
<1>1. tokens <= Cardinality(Awake \cup Notes)
  <2>1. Cardinality(Awake) <= Cardinality(Awake \cup Notes)
    BY Sleepers, Counting
  <2> QED
    BY <2>1, Sleepers, Counting DEF MonInv, MonBase, TokenInv
<1>2. Cardinality(Awake \cup Notes) <= Cardinality(Up)
    BY Sleepers, Counting
<1> QED BY <1>1, <1>2, Sleepers, Counting DEF MonInv, MonBase

-----------------------------------------------------------------------------
(* What a step may do to the counts *)

LEMMA CountedSets ==
    /\ Awake \in SUBSET Procs /\ Notes \in SUBSET Procs
    /\ Awake \cup Notes \in SUBSET Procs
BY DEF Awake, Notes, At

LEMMA CountedSetsAfter ==
    /\ Awake' \in SUBSET Procs /\ Notes' \in SUBSET Procs
    /\ (Awake \cup Notes)' \in SUBSET Procs
BY DEF Awake, Notes, At

\* As many tokens, and as many to take them.
LEMMA TokensCounted ==
    ASSUME MonInv, tokens' = tokens,
           Fresh' # {} => /\ Fresh # {}
                          /\ Cardinality(Awake) <= Cardinality(Awake'),
           Passed' # {} =>
              \/ /\ Passed # {}
                 /\ Cardinality(Awake \cup Notes)
                      <= Cardinality((Awake \cup Notes)')
              \/ Fresh # {} /\ Awake \subseteq (Awake \cup Notes)'
    PROVE  TokenInv'
<1>1. /\ Cardinality(Awake) \in Nat /\ Cardinality(Awake \cup Notes) \in Nat
      /\ Cardinality(Awake') \in Nat /\ Cardinality((Awake \cup Notes)') \in Nat
    BY CountedSets, CountedSetsAfter, Counting
<1>2. Fresh' # {} => tokens' <= Cardinality(Awake')
    BY <1>1 DEF MonInv, MonBase, TokenInv
<1>3. ASSUME Fresh # {}, Awake \subseteq (Awake \cup Notes)'
      PROVE  tokens' <= Cardinality((Awake \cup Notes)')
  <2>1. Cardinality(Awake) <= Cardinality((Awake \cup Notes)')
    BY <1>3, CountedSetsAfter, Counting
  <2> QED BY <1>1, <1>3, <2>1 DEF MonInv, MonBase, TokenInv
<1>4. Passed' # {} => tokens' <= Cardinality((Awake \cup Notes)')
    BY <1>1, <1>3 DEF MonInv, MonBase, TokenInv
<1> QED BY <1>2, <1>4 DEF TokenInv

\* Nobody who counted stops to count.
LEMMA TokensKept ==
    ASSUME MonInv, tokens' = tokens,
           Fresh' # {} => Fresh # {} /\ Awake \subseteq Awake',
           Passed' # {} => /\ Fresh \cup Passed # {}
                           /\ Awake \cup Notes \subseteq (Awake \cup Notes)'
    PROVE  TokenInv'
<1>1. Fresh' # {} => Cardinality(Awake) <= Cardinality(Awake')
    BY CountedSetsAfter, Counting
<1>2. Passed' # {} => Cardinality(Awake \cup Notes)
                        <= Cardinality((Awake \cup Notes)')
    BY CountedSetsAfter, Counting
<1> QED BY <1>1, <1>2, TokensCounted

\* One process counts instead of another.
LEMMA Exchanged ==
    ASSUME NEW S \in SUBSET Procs, NEW T \in SUBSET Procs, NEW p \in Procs,
           NEW q \in T, q \notin S, S \ {p} \subseteq T
    PROVE  Cardinality(S) <= Cardinality(T)
<1>1. Cardinality(S \ {p}) + 1 <= Cardinality(T)
    BY GainsOne
<1>2. Cardinality(S) - 1 <= Cardinality(S \ {p})
    BY LosesOne
<1> QED BY <1>1, <1>2, Counting

\* The threads registered with the condition stay, and their generation.
LEMMA GenerationKept ==
    ASSUME GenerationInv, Registered' = Registered,
           UNCHANGED <<condMutex, nativeWaiters, advanced>>
    PROVE  GenerationInv'
BY DEF GenerationInv

\* A step of p outside the condition variable: p does not sleep, neither
\* before nor after, and nobody else moves but by a wake-up for the mutex.
LEMMA OutsideCondition ==
    ASSUME MonInv, HandedOver', NEW p \in Procs,
           pc' \in [Procs -> Points], op' \in [Procs -> MonOps],
           doing' \in [Procs -> Tasks],
           \A q \in Procs \ {p} :
              /\ doing'[q] = doing[q] /\ op'[q] = op[q]
              /\ \/ pc'[q] = pc[q]
                 \/ op[q] = "lock" /\ pc[q] \in {"waiting", "parked"}
                                   /\ pc'[q] \in {"popped", "try"},
           \A q \in Procs \ {p} : toResume'[q] = toResume[q],
           condMutex # p,
           pc'[p] \in {"idle", "try", "waiting", "parked", "notify", "resume"},
           pc[p] \in {"idle", "try", "parked", "notify", "resume"},
           pc[p] \in {"try", "parked"} => op[p] = "lock",
           pc'[p] \in {"try", "waiting", "parked"} => op'[p] = "lock",
           pc'[p] \in {"notify", "resume"} => doing'[p] # "consume",
           pc'[p] = "parked" => p \in Natives,
           tokens' = tokens, UNCHANGED condVars,
           doing[p] \in {"consume", "notify"} => doing'[p] = doing[p],
           pc[p] = "notify" => op[p] = "unlock"
    PROVE  MonBase' /\ GenerationInv' /\ TokenInv'
<1>1. p \notin Registered /\ p \notin Fresh /\ p \notin Passed /\ p \notin Notes
    BY DEF Registered, Fresh, Passed, Waiters, Parked, At, Notes, MonInv,
           MonBase, HandedOver
<1>2. p \notin Registered' /\ p \notin Fresh' /\ p \notin Passed'
    BY DEF Registered, Fresh, Passed, Waiters, Parked, At, condVars, MonBase,
           MonInv
<1>3. Registered' = Registered
    BY <1>1, <1>2 DEF Registered, MonInv, MonBase, Procs
<1>4. Fresh' = Fresh
    BY <1>1, <1>2, <1>3 DEF Fresh, Waiters, At, condVars, MonInv, MonBase
<1>5. Passed' = Passed
    BY <1>1, <1>2 DEF Passed, Parked, At, condVars, MonInv, MonBase
<1>6. Awake \subseteq Awake' /\ Notes \subseteq Notes'
  <2>1. Awake \subseteq Awake'
    BY <1>4, <1>5, <1>1 DEF Awake
  <2>2. Notes \subseteq Notes'
    BY <1>1 DEF Notes, At
  <2> QED BY <2>1, <2>2
<1>7. MonBase'
    BY DEF MonBase, MonInv, condVars
<1>8. GenerationInv'
    BY <1>3, GenerationKept DEF MonInv, condVars
<1>9. TokenInv'
    BY <1>4, <1>5, <1>6, TokensKept
<1> QED BY <1>7, <1>8, <1>9

\* The calls of the mutex: none of them touches the condition variable.
LEMMA MutexCalls ==
    ASSUME MonInv, NEW p \in Procs,
           \/ \E t \in {"consume", "produce"} : BeginLock(p, t) \/ TryLock(p, t)
           \/ Lock(p) \/ LockBlocks(p)
    PROVE  MonBase' /\ GenerationInv' /\ TokenInv'
<1>1. /\ \A q \in Procs \ {p} :
            /\ doing'[q] = doing[q] /\ op'[q] = op[q] /\ pc'[q] = pc[q]
            /\ toResume'[q] = toResume[q]
      /\ pc'[p] \in {"idle", "try", "waiting", "parked"}
      /\ pc[p] \in {"idle", "try"}
      /\ pc[p] = "try" => op[p] = "lock"
      /\ pc'[p] \in {"try", "waiting", "parked"} => op'[p] = "lock"
      /\ pc'[p] = "parked" => p \in Natives
      /\ doing[p] \in {"consume", "notify"} => doing'[p] = doing[p]
      /\ pc' \in [Procs -> Points] /\ op' \in [Procs -> MonOps]
      /\ doing' \in [Procs -> Tasks]
      /\ tokens' = tokens /\ UNCHANGED condVars
      /\ toResume' = toResume /\ toResume[p] = {}
      /\ pc'[p] = "waiting" => p \in Fibers
    BY DEF BeginLock, TryLock, Lock, LockBlocks, Enter, Out, Tries, TakeMutex,
           Does, Leave, Wait, programVars, procVars, condVars, MonInv, MonBase,
           HandedOver, Points, MonOps, Tasks, Procs
<1>2. HandedOver'
  <2>1. PICK x \in Points : /\ pc' = [pc EXCEPT ![p] = x]
                            /\ x \notin {"waiting", "popped"} \/ p \in Fibers
                            /\ x # "popped"
    <3>1. pc' = [pc EXCEPT ![p] = pc'[p]]
      BY <1>1 DEF MonInv, MonBase, HandedOver
    <3> QED BY <1>1, <3>1
  <2> QED
    BY <1>1, <2>1, MoveKeepsHands DEF MonInv, MonBase
<1>3. condMutex # p
    BY <1>1 DEF MonInv, MonBase
<1> QED BY <1>1, <1>2, <1>3, OutsideCondition

LEMMA MutexUnlock ==
    ASSUME MonInv, NEW p \in Procs, Unlock(p)
    PROVE  MonBase' /\ GenerationInv' /\ TokenInv'
<1>1. PICK S \in SUBSET Waiters("lock") : Signal(p, "unlock", S)
    BY DEF Unlock, ReleaseMutex
<1>2. /\ pc[p] = "idle" /\ doing[p] \in {"leave", "notify"}
      /\ doing' = [doing EXCEPT ![p] =
                     IF doing[p] = "leave" THEN "nothing" ELSE "notify"]
      /\ tokens' = tokens /\ UNCHANGED condVars
    BY DEF Unlock, In, Does
<1>3. S \in SUBSET At("waiting")
    BY DEF Waiters
<1>4. HandedOver'
    BY <1>1, <1>2, <1>3, SignalKeepsHands DEF MonInv, MonBase
<1>5. /\ p \notin S
      /\ \A q \in S : pc[q] = "waiting" /\ op[q] = "lock" /\ pc'[q] = "popped"
      /\ \A q \in Procs \ {p} : /\ doing'[q] = doing[q] /\ op'[q] = op[q]
                                /\ toResume'[q] = toResume[q]
                                /\ q \notin S => pc'[q] = pc[q]
      /\ pc'[p] = "notify" /\ op'[p] = "unlock"
      /\ doing'[p] # "consume"
      /\ doing[p] = "notify" => doing'[p] = "notify"
      /\ pc' \in [Procs -> Points] /\ op' \in [Procs -> MonOps]
      /\ doing' \in [Procs -> Tasks]
    BY <1>1, <1>2 DEF Signal, Waiters, At, MonInv, MonBase, HandedOver, Points,
       MonOps, Tasks
<1>6. condMutex # p
    BY <1>2 DEF MonInv, MonBase
<1> QED BY <1>2, <1>4, <1>5, <1>6, OutsideCondition

LEMMA MutexNotify ==
    ASSUME MonInv, NEW p \in Procs, op[p] = "unlock", MonNotify(p)
    PROVE  MonBase' /\ GenerationInv' /\ TokenInv'
<1>1. NotifyOne(p, "lock") /\ UNCHANGED <<condVars, programVars>>
    BY DEF MonNotify
<1>2. HandedOver' /\ op' = op
    BY <1>1, NotifyOneMoves DEF MonInv, MonBase
<1>3. /\ pc[p] = "notify" /\ pc'[p] = "resume" /\ toResume' = toResume
      /\ pc' \in [Procs -> Points]
      /\ \A q \in Procs \ {p} :
            \/ pc'[q] = pc[q]
            \/ op[q] = "lock" /\ pc[q] = "parked" /\ pc'[q] = "try"
    BY <1>1 DEF NotifyOne, Parked, At, MonInv, MonBase, HandedOver, Points
<1>4. CASE condMutex # p
  <2>1. doing[p] # "consume"
    BY <1>3, <1>4 DEF MonInv, MonBase
  <2> QED
    BY <1>1, <1>2, <1>3, <1>4, <2>1, OutsideCondition
       DEF programVars, MonInv, MonBase
<1>5. CASE condMutex = p
  <2>1. Registered' = Registered
    BY <1>2, <1>3 DEF Registered, Procs
  <2>2. Fresh' = Fresh /\ Passed' = Passed
    BY <1>1, <1>2, <1>3, <2>1
       DEF Fresh, Passed, Waiters, Parked, At, condVars, programVars
  <2>3. Awake' = Awake /\ Notes \subseteq Notes'
    BY <1>1, <1>2, <1>3, <2>2 DEF Awake, Notes, At, programVars
  <2>4. MonBase'
    BY <1>1, <1>2, <1>3 DEF MonBase, MonInv, condVars, programVars
  <2>5. GenerationInv'
    BY <1>1, <2>1, GenerationKept DEF MonInv, condVars
  <2>6. TokenInv'
    BY <1>1, <2>2, <2>3, TokensKept DEF programVars
  <2> QED BY <2>4, <2>5, <2>6
<1> QED BY <1>4, <1>5

LEMMA WakeKeeps ==
    ASSUME MonInv, NEW p \in Procs,
           MonWake(p) \/ (SpuriousWake(p) /\ UNCHANGED <<locked, condVars, programVars>>)
    PROVE  MonBase' /\ GenerationInv' /\ TokenInv'
<1>1. /\ HandedOver' /\ op' = op
      /\ UNCHANGED <<condVars, programVars>>
      /\ pc' \in [Procs -> Points]
    BY WakeMoves DEF MonWake, MonInv, MonBase, HandedOver
<1>2. ASSUME NEW q \in Procs,
             \A r \in Procs \ {q} : pc'[r] = pc[r],
             \/ pc[q] = "popped" /\ pc'[q] = "try"
             \/ pc[q] = "parked" /\ pc'[q] = "try"
             \/ pc[q] = "resume" /\ pc'[q] = "idle" /\ doing[q] # "consume"
      PROVE  MonBase' /\ GenerationInv' /\ TokenInv'
  <2>1. MonBase'
    BY <1>1, <1>2 DEF MonBase, MonInv, condVars, programVars
  <2>2. pc[q] = "popped" => q \notin Natives
    BY ProcsAssumption DEF MonInv, MonBase, HandedOver
  <2>3. Registered' = Registered
    BY <1>1, <1>2, <2>2 DEF Registered, Procs
  <2>4. Fresh' = Fresh
    BY <1>1, <1>2, <2>3 DEF Fresh, Waiters, At, condVars, programVars
  <2>5. Passed' \subseteq Passed
    BY <1>1, <1>2 DEF Passed, Parked, At, condVars
  <2>6. Awake \subseteq Awake' /\ Notes \subseteq Notes'
    <3>1. Awake \subseteq Awake'
      BY <1>1, <2>4, <2>5 DEF Awake, programVars
    <3>2. \A r \in Procs : pc[r] = "notify" => pc'[r] = "notify"
      BY <1>2
    <3>3. \A r \in Procs : toResume[r] = {} => toResume'[r] = {}
      BY DEF MonWake, ResumeOne, Resumed, Leave, SpuriousWake, MonInv, MonBase,
             HandedOver
    <3> QED BY <1>1, <3>1, <3>2, <3>3 DEF Notes, At
  <2>7. GenerationInv'
    BY <1>1, <2>3, GenerationKept DEF MonInv, condVars
  <2>8. TokenInv'
    BY <1>1, <2>4, <2>5, <2>6, TokensKept DEF programVars
  <2> QED BY <2>1, <2>7, <2>8
<1>3. CASE ResumeOne(p)
  <2>1. PICK f \in toResume[p] : pc' = [pc EXCEPT ![f] = "try"]
    BY <1>3 DEF ResumeOne
  <2>2. f \in Procs /\ pc[f] = "popped"
    BY DEF MonInv, MonBase, HandedOver, Procs
  <2> QED BY <1>2, <2>1, <2>2 DEF MonInv, MonBase, HandedOver
<1>4. CASE doing[p] # "consume" /\ Resumed(p)
    BY <1>2, <1>4 DEF Resumed, Leave, MonInv, MonBase, HandedOver
<1>5. CASE SpuriousWake(p)
    BY <1>2, <1>5 DEF SpuriousWake, MonInv, MonBase, HandedOver
<1> QED BY <1>3, <1>4, <1>5 DEF MonWake

\* A token is taken or added by a process inside the mutex.
LEMMA TokenMoves ==
    ASSUME MonInv, NEW p \in Procs, Take(p) \/ Produce(p)
    PROVE  MonBase' /\ GenerationInv' /\ TokenInv'
<1>1. /\ pc[p] = "idle" /\ doing' \in [Procs -> Tasks]
      /\ \A q \in Procs \ {p} : doing'[q] = doing[q]
      /\ doing[p] \in {"consume", "produce"}
      /\ UNCHANGED <<procVars, condVars>>
      /\ tokens \in Nat /\ tokens' \in 0 .. MaxTokens
    BY MonitorAssumption
       DEF Take, Produce, In, Does, MonInv, MonBase, Tasks
<1>2. MonBase'
  <2>1. HandedOver'
    BY <1>1 DEF MonInv, MonBase, HandedOver, procVars
  <2> QED BY <1>1, <2>1 DEF MonInv, MonBase, procVars, condVars
<1>3. p \notin Fresh /\ p \notin Passed /\ p \notin Notes
    BY <1>1 DEF Fresh, Passed, Registered, Waiters, Parked, At, Notes, MonInv,
       MonBase
<1>4. Registered' = Registered
    BY <1>1 DEF Registered, procVars
<1>5. Fresh' = Fresh
  <2>1. p \notin Fresh'
    BY <1>1 DEF Fresh, Registered, Waiters, At, procVars, condVars, MonInv,
       MonBase
  <2> QED
    BY <1>1, <1>3, <1>4, <2>1 DEF Fresh, Waiters, At, procVars, condVars
<1>6. Passed' = Passed /\ Notes' = Notes
    BY <1>1 DEF Passed, Parked, Notes, At, procVars, condVars
<1>7. Awake \ {p} \subseteq Awake'
    BY <1>1, <1>5, <1>6 DEF Awake
<1>8. GenerationInv'
    BY <1>1, <1>4, GenerationKept DEF MonInv, condVars
<1>9. /\ Awake \in SUBSET Procs /\ Awake' \in SUBSET Procs
      /\ Awake \cup Notes \in SUBSET Procs
      /\ (Awake \cup Notes)' \in SUBSET Procs
    BY DEF Awake, Notes, At
<1>10. /\ Cardinality(Awake) \in Nat /\ Cardinality(Awake') \in Nat
       /\ Cardinality(Awake \cup Notes) \in Nat
       /\ Cardinality((Awake \cup Notes)') \in Nat
    BY <1>9, Counting
<1>11. CASE Take(p)
  <2>1. tokens' = tokens - 1
    BY <1>11 DEF Take
  <2>2. (Awake \cup Notes) \ {p} \subseteq (Awake \cup Notes)'
    BY <1>6, <1>7
  <2>3. /\ Cardinality(Awake) - 1 <= Cardinality(Awake')
        /\ Cardinality(Awake \cup Notes) - 1 <= Cardinality((Awake \cup Notes)')
    BY <1>7, <1>9, <2>2, LosesOne
  <2>4. TokenInv'
    <3>1. Fresh' # {} => tokens' <= Cardinality(Awake')
      BY <1>1, <1>5, <1>10, <2>1, <2>3 DEF MonInv, TokenInv
    <3>2. Passed' # {} => tokens' <= Cardinality((Awake \cup Notes)')
      BY <1>1, <1>6, <1>10, <2>1, <2>3 DEF MonInv, TokenInv
    <3> QED BY <3>1, <3>2 DEF TokenInv
  <2> QED BY <1>2, <1>8, <2>4
<1>12. CASE Produce(p) /\ tokens < MaxTokens
  <2>1. /\ tokens' = tokens + 1
        /\ doing[p] = "produce" /\ doing'[p] = "notify"
    BY <1>12 DEF Produce, Does, MonInv, MonBase
  <2>2. p \notin Awake \cup Notes /\ p \in Awake'
    BY <1>3, <2>1 DEF Awake
  <2>3. Awake \cup {p} \subseteq Awake'
    BY <1>7, <2>2
  <2>4. (Awake \cup Notes) \cup {p} \subseteq (Awake \cup Notes)'
    BY <1>6, <2>3
  <2>5. /\ Cardinality(Awake) + 1 <= Cardinality(Awake')
        /\ Cardinality(Awake \cup Notes) + 1 <= Cardinality((Awake \cup Notes)')
    BY <1>9, <2>2, <2>3, <2>4, GainsOne
  <2>6. TokenInv'
    <3>1. Fresh' # {} => tokens' <= Cardinality(Awake')
      BY <1>1, <1>5, <1>10, <2>1, <2>5 DEF MonInv, TokenInv
    <3>2. Passed' # {} => tokens' <= Cardinality((Awake \cup Notes)')
      BY <1>1, <1>6, <1>10, <2>1, <2>5 DEF MonInv, TokenInv
    <3> QED BY <3>1, <3>2 DEF TokenInv
  <2> QED BY <1>2, <1>8, <2>6
<1>13. CASE Produce(p) /\ ~ tokens < MaxTokens
  <2>1. tokens' = tokens /\ doing[p] = "produce"
    BY <1>13 DEF Produce
  <2>2. p \notin Awake
    BY <2>1 DEF Awake
  <2>3. Awake \subseteq Awake' /\ Awake \cup Notes \subseteq (Awake \cup Notes)'
    BY <1>6, <1>7, <2>2
  <2>4. TokenInv'
    BY <1>5, <1>6, <2>1, <2>3, TokensKept
  <2> QED BY <1>2, <1>8, <2>4
<1> QED BY <1>11, <1>12, <1>13

\* A wait, from the call to the sleep.
LEMMA CondWaitKeeps ==
    ASSUME MonInv, NEW p \in Procs, CondWait(p)
    PROVE  MonBase' /\ GenerationInv' /\ TokenInv'
<1>1. PICK S \in SUBSET Waiters("lock") : Signal(p, "unlock", S)
    BY DEF CondWait, ReleaseMutex
<1>2. /\ pc[p] = "idle" /\ doing[p] = "consume" /\ doing' = doing
      /\ tokens = 0 /\ tokens' = tokens /\ advanced' = advanced
      /\ condMutex = Nobody /\ condMutex' = p
      /\ nativeWaiters' = nativeWaiters + (IF p \in Natives THEN 1 ELSE 0)
    BY DEF CondWait, In, LocksFirst
<1>3. S \in SUBSET At("waiting")
    BY DEF Waiters
<1>4. HandedOver'
    BY <1>1, <1>2, <1>3, SignalKeepsHands DEF MonInv, MonBase
<1>5. /\ p \notin S
      /\ \A q \in S : pc[q] = "waiting" /\ op[q] = "lock" /\ pc'[q] = "popped"
      /\ \A q \in Procs \ {p} : op'[q] = op[q] /\ (q \notin S => pc'[q] = pc[q])
      /\ pc'[p] = "notify" /\ op'[p] = "unlock"
      /\ pc' \in [Procs -> Points] /\ op' \in [Procs -> MonOps]
    BY <1>1, <1>2 DEF Signal, Waiters, At, MonInv, MonBase, HandedOver, Points,
       MonOps
<1>6. MonBase'
    BY <1>2, <1>4, <1>5, MonitorAssumption DEF MonInv, MonBase
<1>7. Registered' = Registered /\ p \notin Registered
    BY <1>2, <1>5 DEF Registered, Procs
<1>8. GenerationInv'
  <2>1. Registered \cup ({condMutex} \cap Natives) = Registered
    BY <1>2, MonitorAssumption DEF Procs
  <2>2. Registered \in SUBSET Procs
    BY DEF Registered, Procs
  <2>3. CASE p \in Natives
    <3>1. {condMutex'} \cap Natives = {p}
      BY <1>2, <2>3
    <3>2. Cardinality(Registered \cup {p}) = Cardinality(Registered) + 1
      BY <1>7, <2>2, Counting, FS_AddElement
    <3> QED
      BY <1>2, <1>7, <2>1, <2>3, <3>1, <3>2 DEF MonInv, GenerationInv
  <2>4. CASE p \notin Natives
    <3>1. {condMutex'} \cap Natives = {}
      BY <1>2, <2>4
    <3>2. (Registered \cup ({condMutex} \cap Natives))' = Registered
      BY <1>7, <3>1
    <3>3. nativeWaiters = Cardinality(Registered) /\ Cardinality(Registered) \in Nat
      BY <2>1, <2>2, Counting DEF MonInv, GenerationInv
    <3>4. nativeWaiters' = Cardinality(Registered)
      BY <1>2, <2>4, <3>3
    <3> QED
      BY <1>2, <1>7, <3>2, <3>4 DEF MonInv, GenerationInv
  <2> QED BY <2>3, <2>4
<1>9. TokenInv'
    BY <1>2, CountedSetsAfter, Counting DEF TokenInv
<1> QED BY <1>6, <1>8, <1>9

LEMMA SleepKeeps ==
    ASSUME MonInv, NEW p \in Procs, Sleep(p)
    PROVE  MonBase' /\ GenerationInv' /\ TokenInv'
<1>1. /\ pc[p] = "resume" /\ toResume[p] = {} /\ doing[p] = "consume"
      /\ condMutex = p /\ condMutex' = Nobody
      /\ UNCHANGED <<toResume, nativeWaiters, advanced, tokens, doing>>
      /\ pc'[p] = IF p \in Fibers THEN "waiting" ELSE "parked"
      /\ op'[p] = "wait"
      /\ \A q \in Procs \ {p} : pc'[q] = pc[q] /\ op'[q] = op[q]
      /\ op' \in [Procs -> MonOps] /\ pc' \in [Procs -> Points]
    BY DEF Sleep, programVars, MonInv, MonBase, HandedOver, MonOps, Points
<1>2. HandedOver'
  <2>1. PICK x \in Points : /\ pc' = [pc EXCEPT ![p] = x]
                            /\ x = "waiting" => p \in Fibers
                            /\ x # "popped"
    BY DEF Sleep, Points
  <2> QED BY <1>1, <2>1, MoveKeepsHands DEF MonInv, MonBase
<1>3. p \in Fibers \/ p \in Natives
    BY DEF Procs
<1>4. MonBase'
    BY <1>1, <1>2, <1>3, MonitorAssumption DEF MonInv, MonBase
<1>5. Registered' = Registered \cup ({p} \cap Natives) /\ p \notin Registered
    BY <1>1, <1>3, ProcsAssumption DEF Registered, Procs
<1>6. GenerationInv'
  <2>1. {condMutex'} \cap Natives = {}
    BY <1>1, MonitorAssumption DEF Procs
  <2>2. (Registered \cup ({condMutex} \cap Natives))
           = Registered' \cup ({condMutex'} \cap Natives)
    BY <1>1, <1>5, <2>1
  <2> QED BY <1>1, <1>5, <2>2 DEF MonInv, GenerationInv
<1>7. Fresh' = Fresh
  <2>1. p \in Fresh /\ p \in Fresh'
    BY <1>1, <1>3, <1>5 DEF Fresh, Waiters, At, MonInv, GenerationInv
  <2>2. \A q \in Procs \ {p} : q \in Fresh' <=> q \in Fresh
    BY <1>1, <1>5, MonitorAssumption DEF Fresh, Waiters, At
  <2> QED BY <2>1, <2>2 DEF Fresh
<1>8. Passed' = Passed
    BY <1>1, <1>5 DEF Passed, Parked, At, MonInv, GenerationInv
<1>9. Awake' = Awake /\ Notes' = Notes
    BY <1>1, <1>7, <1>8 DEF Awake, Notes, At
<1>10. TokenInv'
    BY <1>1, <1>7, <1>8, <1>9, TokensKept
<1> QED BY <1>4, <1>6, <1>10

LEMMA WokenKeeps ==
    ASSUME MonInv, NEW p \in Procs, Woken(p) \/ SleepAgain(p)
    PROVE  MonBase' /\ GenerationInv' /\ TokenInv'
<1>1. /\ pc[p] = "try" /\ op[p] = "wait" /\ doing[p] = "consume"
      /\ toResume[p] = {} /\ condMutex # p
      /\ UNCHANGED <<condMutex, toResume, tokens, doing>>
      /\ \A q \in Procs \ {p} : pc'[q] = pc[q] /\ op'[q] = op[q]
      /\ op' \in [Procs -> MonOps] /\ pc' \in [Procs -> Points]
    BY DEF Woken, SleepAgain, Wait, Tries, programVars, condVars, MonInv,
           MonBase, HandedOver, MonOps, Points
<1>2. CASE Woken(p)
  <2>1. pc' = pc /\ op'[p] = "lock" /\ HandedOver'
    BY <1>1, <1>2 DEF Woken, MonInv, MonBase, HandedOver
  <2>2. MonBase'
    BY <1>1, <2>1 DEF MonInv, MonBase
  <2>3. Registered' = Registered \ {p}
    BY <1>1, <2>1 DEF Registered, Procs
  <2>4. \/ p \notin Natives /\ UNCHANGED <<nativeWaiters, advanced>>
        \/ /\ p \in advanced /\ p \in Natives /\ condMutex = Nobody
           /\ nativeWaiters' = nativeWaiters - 1
           /\ advanced' = advanced \ {p}
    BY <1>2, ProcsAssumption
       DEF Woken, Registered, MonInv, GenerationInv
  <2>5. GenerationInv'
    <3>1. Registered \in SUBSET Procs
      BY DEF Registered, Procs
    <3>2. CASE p \notin Natives /\ UNCHANGED <<nativeWaiters, advanced>>
      <4>1. Registered' = Registered
        BY <2>3, <3>2 DEF Registered
      <4> QED BY <1>1, <3>2, <4>1, GenerationKept DEF MonInv
    <3>3. CASE p \in advanced /\ condMutex = Nobody
      <4>1. {condMutex} \cap Natives = {}
        BY <3>3, MonitorAssumption DEF Procs
      <4>2. Registered \cup ({condMutex} \cap Natives) = Registered
            /\ (Registered \cup ({condMutex} \cap Natives))' = Registered \ {p}
        BY <1>1, <2>3, <4>1
      <4>3. p \in Registered
        BY <3>3 DEF MonInv, GenerationInv
      <4>4. Cardinality(Registered \ {p}) = Cardinality(Registered) - 1
        BY <3>1, <4>3, Counting, FS_RemoveElement
      <4>5. nativeWaiters' = nativeWaiters - 1 /\ advanced' = advanced \ {p}
        BY <2>4, <3>3, <4>3 DEF Registered
      <4> QED BY <2>3, <4>2, <4>4, <4>5 DEF MonInv, GenerationInv
    <3> QED BY <2>4, <3>2, <3>3
  <2>6. p \notin Fresh /\ p \notin Fresh' /\ p \notin Passed /\ p \notin Passed'
    BY <1>1, <2>1, <2>3, <2>4 DEF Fresh, Passed, Registered, Waiters, Parked, At
  <2>7. Fresh' = Fresh /\ Passed' = Passed
    BY <1>1, <2>1, <2>3, <2>4, <2>6 DEF Fresh, Passed, Waiters, Parked, At
  <2>8. Awake' = Awake /\ Notes' = Notes
    BY <1>1, <2>1, <2>7 DEF Awake, Notes, At
  <2>9. TokenInv'
    BY <1>1, <2>7, <2>8, TokensKept
  <2> QED BY <2>2, <2>5, <2>9
<1>3. CASE SleepAgain(p)
  <2>1. /\ p \in Natives \ advanced /\ p \notin Fibers
        /\ pc' = [pc EXCEPT ![p] = "parked"] /\ pc'[p] = "parked"
        /\ op' = op /\ UNCHANGED condVars
    <3>1. p \in Natives \ advanced /\ Wait(p) /\ UNCHANGED condVars
      BY <1>3 DEF SleepAgain
    <3>2. p \notin Fibers
      BY <3>1, ProcsAssumption
    <3>3. pc' = [pc EXCEPT ![p] = "parked"] /\ op' = op
      BY <3>1, <3>2 DEF Wait
    <3> QED
      BY <3>1, <3>2, <3>3 DEF MonInv, MonBase, HandedOver
  <2>2. HandedOver'
    BY <1>1, <2>1, MoveKeepsHands DEF MonInv, MonBase, Points
  <2>3. MonBase'
    BY <1>1, <2>1, <2>2 DEF MonInv, MonBase
  <2>4. Registered' = Registered
    BY <1>1, <2>1 DEF Registered, Procs
  <2>5. GenerationInv'
    BY <2>1, <2>4, GenerationKept DEF MonInv, condVars
  <2>6. Fresh' = Fresh /\ Passed' = Passed
    BY <1>1, <2>1, <2>4 DEF Fresh, Passed, Waiters, Parked, At, condVars
  <2>7. Awake' = Awake /\ Notes' = Notes
    BY <1>1, <2>1, <2>6 DEF Awake, Notes, At
  <2>8. TokenInv'
    BY <1>1, <2>6, <2>7, TokensKept
  <2> QED BY <2>3, <2>5, <2>8
<1> QED BY <1>2, <1>3

\* A notification, up to the unlock.
LEMMA CondNotifyKeeps ==
    ASSUME MonInv, NEW p \in Procs, NEW o \in {"signal", "broadcast"},
           CondNotify(p, o)
    PROVE  MonBase' /\ GenerationInv' /\ TokenInv'
<1>1. PICK S \in SUBSET Waiters("wait") :
        /\ IF o = "signal" THEN PoppedFrom(S, "wait", 1) ELSE S = Waiters("wait")
        /\ Signal(p, o, S)
        /\ IF nativeWaiters > 0 /\ (o = "broadcast" \/ S = {})
           THEN Advance
           ELSE UNCHANGED advanced
    BY DEF CondNotify
<1>2. /\ pc[p] = "idle" /\ doing[p] = "notify" /\ condMutex = Nobody
      /\ doing'[p] \in {"leave", "nothing"}
      /\ \A q \in Procs \ {p} : doing'[q] = doing[q]
      /\ doing' \in [Procs -> Tasks]
      /\ UNCHANGED <<condMutex, nativeWaiters, tokens>>
    BY DEF CondNotify, Does, MonInv, MonBase, Tasks
<1>3. S \in SUBSET At("waiting")
    BY DEF Waiters
<1>4. HandedOver'
    BY <1>1, <1>2, <1>3, SignalKeepsHands DEF MonInv, MonBase
<1>5. /\ p \notin S
      /\ \A q \in S : /\ pc[q] = "waiting" /\ op[q] = "wait"
                      /\ pc'[q] = "popped" /\ doing[q] = "consume"
                      /\ q \notin Natives
      /\ \A q \in Procs \ {p} : /\ op'[q] = op[q] /\ toResume'[q] = toResume[q]
                                /\ q \notin S => pc'[q] = pc[q]
      /\ pc'[p] = "notify" /\ op'[p] = o /\ toResume'[p] = S
      /\ pc' \in [Procs -> Points] /\ op' \in [Procs -> MonOps]
    BY <1>1, <1>2, ProcsAssumption DEF Signal, Waiters, At, MonInv, MonBase,
       HandedOver, Points, MonOps
<1>6. MonBase'
    BY <1>2, <1>4, <1>5, MonitorAssumption DEF MonInv, MonBase
<1>7. Registered' = Registered
    BY <1>2, <1>5 DEF Registered, Procs
<1>8. /\ Registered \cup ({condMutex} \cap Natives) = Registered
      /\ Registered \in SUBSET Procs
    BY <1>2, MonitorAssumption DEF Registered, Procs
<1>9. advanced' \subseteq Registered
    BY <1>1 DEF Advance, MonInv, GenerationInv
<1>10. GenerationInv'
    BY <1>2, <1>7, <1>9 DEF MonInv, GenerationInv
<1>11. /\ \A q \in Notes : q # p /\ q \in Notes'
       /\ p \notin Fresh \cup Passed /\ p \notin Fresh' \cup Passed'
    BY <1>2, <1>5 DEF Notes, Fresh, Passed, Waiters, Parked, At, Registered,
       MonInv, MonBase
<1>12. Parked("wait")' = Parked("wait")
    BY <1>2, <1>5 DEF Parked, At
<1>13. CASE Waiters("wait") = S /\ (o = "broadcast" \/ S = {})
  <2>1. Registered \subseteq advanced'
    <3>1. nativeWaiters > 0 \/ Registered = {}
      BY <1>8, FS_EmptySet, Counting DEF MonInv, GenerationInv
    <3> QED BY <1>1, <1>13, <3>1 DEF Advance
  <2>2. Fresh' = {}
    BY <1>2, <1>5, <1>7, <1>13, <2>1, MonitorAssumption
       DEF Fresh, Waiters, At
  <2>3. Parked("wait") \subseteq Fresh \cup Passed
    BY DEF Fresh, Passed, Registered, Parked, At, MonInv, MonBase
  <2>4. p \in Notes'
    BY <1>5, <1>13 DEF Notes, At
  <2>5. Awake \ {p} \subseteq Awake'
    BY <1>2, <1>12, <2>2, <2>3 DEF Awake, Passed
  <2>6. Awake \cup Notes \subseteq (Awake \cup Notes)'
    BY <1>11, <2>4, <2>5
  <2>7. Passed' # {} => Fresh \cup Passed # {}
    BY <1>12, <2>3 DEF Passed
  <2>8. TokenInv'
    BY <1>2, <2>2, <2>6, <2>7, TokensKept
  <2> QED BY <1>6, <1>10, <2>8
<1>14. CASE S # {} /\ o = "signal"
  <2>1. advanced' = advanced
    BY <1>1, <1>14
  <2>2. Passed' = Passed
    BY <1>12, <2>1 DEF Passed
  <2>3. Fresh' \subseteq Fresh /\ \A q \in S : q \in Fresh /\ q \notin Fresh'
    BY <1>2, <1>5, <1>7, <1>11, <2>1, MonitorAssumption
       DEF Fresh, Waiters, At, Registered
  <2>4. PICK f \in S : TRUE
    BY <1>14
  <2>5. /\ f \in Procs /\ f # p
        /\ f \notin Awake \cup Notes /\ f \in Awake'
    BY <1>2, <1>5, <2>2, <2>3, <2>4
       DEF Awake, Notes, Passed, Parked, Waiters, At
  <2>6. Awake \ {p} \subseteq Awake'
    BY <1>2, <2>2, <2>3 DEF Awake
  <2>7. Cardinality(Awake) <= Cardinality(Awake')
    BY <2>5, <2>6, CountedSets, CountedSetsAfter, Exchanged
  <2>8. Cardinality(Awake \cup Notes) <= Cardinality((Awake \cup Notes)')
    <3>1. (Awake \cup Notes) \ {p} \subseteq (Awake \cup Notes)'
      BY <1>11, <2>6
    <3> QED BY <2>5, <3>1, CountedSets, CountedSetsAfter, Exchanged
  <2>9. TokenInv'
    BY <1>2, <2>2, <2>3, <2>7, <2>8, TokensCounted
  <2> QED BY <1>6, <1>10, <2>9
<1>15. S = {} /\ o = "signal" => Waiters("wait") = {}
  <2>1. Cardinality(S) = 0 \/ S # {}
    BY FS_EmptySet
  <2> QED BY <1>1, <2>1 DEF PoppedFrom
<1> QED BY <1>1, <1>13, <1>14, <1>15

\* ... and after it: the thread that is woken.
LEMMA CondWakesThread ==
    ASSUME MonInv, NEW p \in Procs, op[p] \in {"signal", "broadcast"},
           MonNotify(p)
    PROVE  MonBase' /\ GenerationInv' /\ TokenInv'
<1>1. /\ UNCHANGED <<condVars, programVars>>
      /\ \/ op[p] = "signal" /\ toResume[p] = {} /\ NotifyOne(p, "wait")
         \/ op[p] = "broadcast" /\ NotifyAll(p, {"wait"})
         \/ /\ op[p] = "signal" /\ toResume[p] # {}
            /\ pc[p] = "notify" /\ pc' = [pc EXCEPT ![p] = "resume"]
            /\ UNCHANGED <<op, toResume>>
    BY DEF MonNotify
<1>2. /\ pc[p] = "notify" /\ pc'[p] = "resume"
      /\ UNCHANGED <<op, toResume>>
      /\ pc' \in [Procs -> Points]
      /\ \A q \in Procs \ {p} :
            \/ pc'[q] = pc[q]
            \/ op[q] = "wait" /\ pc[q] = "parked" /\ pc'[q] = "try"
    BY <1>1 DEF NotifyOne, NotifyAll, Parked, At, MonInv, MonBase, HandedOver,
       Points
<1>3. HandedOver'
    BY <1>2, ThreadsWake DEF MonInv, MonBase
<1>4. /\ doing[p] # "consume" /\ condMutex # p
    BY <1>2 DEF MonInv, MonBase
<1>5. MonBase'
    BY <1>1, <1>2, <1>3, <1>4 DEF MonBase, MonInv, condVars, programVars
<1>6. Registered' = Registered
    BY <1>2 DEF Registered, Procs
<1>7. GenerationInv'
    BY <1>1, <1>6, GenerationKept DEF MonInv, condVars
<1>8. Fresh' = Fresh
    BY <1>1, <1>2, <1>6 DEF Fresh, Waiters, At, condVars, programVars
<1>9. Passed' \subseteq Passed
    BY <1>1, <1>2 DEF Passed, Parked, At, condVars
<1>10. Awake \subseteq Awake' /\ Notes \ {p} \subseteq Notes'
  <2>1. Awake \subseteq Awake'
    BY <1>1, <1>8, <1>9 DEF Awake, programVars
  <2>2. Notes \ {p} \subseteq Notes'
    BY <1>2 DEF Notes, At
  <2> QED BY <2>1, <2>2
<1>11. tokens' = tokens
    BY <1>1 DEF programVars
<1>12. CASE op[p] = "signal" /\ toResume[p] # {}
  <2>1. Notes \subseteq Notes'
    BY <1>10, <1>12 DEF Notes
  <2> QED
    BY <1>5, <1>7, <1>8, <1>9, <1>10, <1>11, <2>1, TokensKept
<1>13. CASE op[p] = "broadcast"
  <2>1. Passed' = {}
    BY <1>1, <1>13, NotifyAllMoves DEF Passed, MonInv, MonBase
  <2> QED
    BY <1>5, <1>7, <1>8, <1>10, <1>11, <2>1, TokensKept
<1>14. CASE op[p] = "signal" /\ toResume[p] = {} /\ Parked("wait") = {}
  <2>1. Passed' = {}
    BY <1>9, <1>14 DEF Passed
  <2> QED
    BY <1>5, <1>7, <1>8, <1>10, <1>11, <2>1, TokensKept
<1>15. CASE op[p] = "signal" /\ toResume[p] = {} /\ Parked("wait") # {}
  <2>1. PICK n \in Parked("wait") :
           pc' = [pc EXCEPT ![p] = "resume", ![n] = "try"]
    BY <1>1, <1>15 DEF NotifyOne
  <2>2. /\ n \in Procs /\ n # p /\ pc[n] = "parked" /\ op[n] = "wait"
        /\ pc'[n] = "try" /\ n \in Registered /\ doing[n] = "consume"
    BY <1>2, <2>1 DEF Parked, At, Registered, MonInv, MonBase, HandedOver
  <2>3. CASE n \in advanced
    <3>1. n \in Passed /\ n \notin Awake \cup Notes
      BY <2>2, <2>3 DEF Passed, Parked, Awake, Notes, At
    <3>2. n \notin Fresh' /\ n \notin Passed'
      BY <1>1, <2>2, <2>3, <1>5
         DEF Fresh, Passed, Waiters, Parked, At, condVars, MonBase
    <3>3. n \in Awake'
      BY <1>1, <2>2, <3>2 DEF Awake, programVars
    <3>4. (Awake \cup Notes) \ {p} \subseteq (Awake \cup Notes)'
      BY <1>10
    <3>5. Cardinality(Awake \cup Notes) <= Cardinality((Awake \cup Notes)')
      BY <3>1, <3>3, <3>4, CountedSets, CountedSetsAfter, Exchanged
    <3>6. Cardinality(Awake) <= Cardinality(Awake')
      BY <1>10, CountedSetsAfter, Counting
    <3> QED
      BY <1>5, <1>7, <1>8, <1>11, <3>1, <3>5, <3>6, TokensCounted
  <2>4. CASE n \notin advanced
    <3>1. n \in Fresh
      BY <2>2, <2>4 DEF Fresh
    <3>2. Cardinality(Awake) <= Cardinality(Awake')
      BY <1>10, CountedSetsAfter, Counting
    <3> QED
      BY <1>5, <1>7, <1>8, <1>10, <1>11, <3>1, <3>2, TokensCounted
  <2> QED BY <2>3, <2>4
<1> QED BY <1>12, <1>13, <1>14, <1>15

\* Only Lock and TryLock lock the mutex, when it is free, and only who is
\* inside frees it.
LEMMA MutexKeeps ==
    ASSUME MonInv, [MonNext]_monVars
    PROVE  MutexInv'
<1>1. ASSUME NEW p \in Procs, TakeMutex(p)
      PROVE  MutexInv'
    BY <1>1 DEF TakeMutex, MonInv, MutexInv
<1>2. ASSUME NEW p \in Procs, In(p), ReleaseMutex(p)
      PROVE  MutexInv'
    BY <1>2 DEF In, ReleaseMutex, Freed, MonInv, MutexInv
<1>3. CASE UNCHANGED <<locked, holds>>
    BY <1>3 DEF MonInv, MutexInv
<1>4. ASSUME NEW p \in Procs, MonContinue(p)
      PROVE  MutexInv'
  <2>1. CASE Lock(p) \/ Unlock(p) \/ CondWait(p)
    BY <1>1, <1>2, <2>1 DEF Lock, Unlock, CondWait
  <2>2. CASE LockBlocks(p) \/ Take(p) \/ Produce(p) \/ Sleep(p) \/ Woken(p)
    BY <1>3, <2>2 DEF LockBlocks, Take, Produce, Sleep, Woken, programVars
  <2>3. CASE \/ SleepAgain(p) \/ CondNotify(p, "signal") \/ MonNotify(p)
             \/ MonWake(p)
    BY <1>3, <2>3 DEF SleepAgain, CondNotify, MonNotify, MonWake, programVars
  <2> QED BY <1>4, <2>1, <2>2, <2>3 DEF MonContinue
<1>5. ASSUME NEW p \in Procs, NEW t \in {"consume", "produce"},
             BeginLock(p, t) \/ TryLock(p, t)
      PROVE  MutexInv'
    BY <1>1, <1>3, <1>5 DEF BeginLock, TryLock
<1>6. ASSUME NEW p \in Procs,
             \/ CondNotify(p, "broadcast")
             \/ SpuriousWake(p) /\ UNCHANGED <<locked, condVars, programVars>>
      PROVE  MutexInv'
    BY <1>3, <1>6 DEF CondNotify, programVars
<1>7. CASE UNCHANGED monVars
    BY <1>3, <1>7 DEF monVars, programVars
<1> QED BY <1>4, <1>5, <1>6, <1>7 DEF MonNext

LEMMA MonInvNext == MonInv /\ [MonNext]_monVars => MonInv'
<1> SUFFICES ASSUME MonInv, [MonNext]_monVars PROVE MonInv'
    OBVIOUS
<1> DEFINE Kept == MonBase' /\ GenerationInv' /\ TokenInv'
<1>1. ASSUME NEW p \in Procs, MonContinue(p)
      PROVE  Kept
  <2>1. CASE MonNotify(p)
    <3>1. op[p] = "unlock" \/ op[p] \in {"signal", "broadcast"}
      BY <2>1 DEF MonNotify
    <3> QED BY <2>1, <3>1, MutexNotify, CondWakesThread
  <2> QED
    BY <1>1, <2>1, MutexCalls, MutexUnlock, TokenMoves, CondWaitKeeps,
       SleepKeeps, WokenKeeps, CondNotifyKeeps, WakeKeeps DEF MonContinue
<1>2. ASSUME NEW p \in Procs, NEW t \in {"consume", "produce"},
             BeginLock(p, t) \/ TryLock(p, t)
      PROVE  Kept
    BY <1>2, MutexCalls
<1>3. ASSUME NEW p \in Procs,
             \/ CondNotify(p, "broadcast")
             \/ SpuriousWake(p) /\ UNCHANGED <<locked, condVars, programVars>>
      PROVE  Kept
    BY <1>3, CondNotifyKeeps, WakeKeeps
<1>4. ASSUME UNCHANGED monVars
      PROVE  Kept
  <2>1. UNCHANGED <<pc, op, toResume, locked, condMutex, nativeWaiters,
                    advanced, tokens, doing, holds>>
    BY <1>4 DEF monVars, procVars, condVars, programVars
  <2>2. HandedOver' /\ MonBase'
    BY <2>1 DEF HandedOver, MonInv, MonBase
  <2>3. Registered' = Registered /\ Fresh' = Fresh /\ Passed' = Passed
    BY <2>1 DEF Registered, Fresh, Passed, Waiters, Parked, At
  <2>4. Awake' = Awake /\ Notes' = Notes
    BY <2>1, <2>3 DEF Awake, Notes, At
  <2>5. GenerationInv' /\ TokenInv'
    BY <2>1, <2>3, <2>4, GenerationKept, TokensKept DEF MonInv
  <2> QED BY <2>2, <2>5
<1>5. Kept
    BY <1>1, <1>2, <1>3, <1>4 DEF MonNext
<1> QED BY <1>5, MutexKeeps DEF MonInv

LEMMA MonInvariance == MonSpec => []MonInv
<1> QED BY MonInvInit, MonInvNext, PTL DEF MonSpec

\* One process at a time is inside the mutex, and every other variable of the
\* monitor has its type.
THEOREM MonitorTypes == MonSpec => []MonTypeOK
<1>1. MonInv => MonTypeOK
  <2> SUFFICES ASSUME MonInv PROVE MonTypeOK
    OBVIOUS
  <2>1. ProcsOK(MonOps)
    BY HandedOverOK DEF MonInv, MonBase
  <2>2. Cardinality(holds) <= 1
    <3>1. CASE holds = {}
      BY <3>1, FS_EmptySet
    <3>2. CASE holds # {}
      <4>1. PICK p \in holds : TRUE
        BY <3>2
      <4>2. \A q \in holds : q = p
        BY DEF MonInv, MutexInv
      <4>3. holds = {p}
        BY <4>1, <4>2
      <4>4. Cardinality({p}) = 1
        BY FS_Singleton
      <4> QED BY <4>3, <4>4
    <3> QED BY <3>1, <3>2
  <2> QED
    BY <2>1, <2>2 DEF MonTypeOK, MonInv, MonBase, MutexInv, GenerationInv
<1> QED BY <1>1, MonInvariance, PTL

\* No consumer sleeps beside a token that nobody is on the way to take or to
\* announce, however many fibers and threads wait, are woken early or for no
\* reason, or take tokens without having slept.
THEOREM MonitorNeverStrands == MonSpec => []NoStrandedConsumer
<1> QED BY SpokenFor, MonInvariance, PTL
==============================================================================
