------------------------- MODULE SocketReactorProof -------------------------
(***************************************************************************)
(* Proofs about SocketReactor, for any set of waits and descriptors: every *)
(* wait is in one place until it is completed, and the kernel is armed for *)
(* exactly what the waits ask for whenever the thread may sleep.           *)
(***************************************************************************)
EXTENDS SocketReactor, TLAPS

Types ==
    /\ where \in [Waits -> {"idle", "submitting", "waking", "suspended"}]
    /\ desc \in [Waits -> Descriptors]
    /\ asked \in [Waits -> Events]
    /\ done \subseteq Waits
    /\ pending \subseteq Waits
    /\ taken \subseteq Waits
    /\ finishing \subseteq Waits
    /\ active \in [Descriptors -> SUBSET Waits]
    /\ got \in [Descriptors -> SUBSET (Events \cup {"hangup"})]
    /\ interest \in [Descriptors -> SUBSET Events]
    /\ ready \in [Descriptors -> SUBSET (Events \cup {"hangup"})]
    /\ known \subseteq Descriptors
    /\ pc \in {"top", "poll", "batch", "swap", "register", "cancel", "ended"}

\* Where a wait is: held in exactly one place from its submission until its
\* completion, and at its own descriptor if it is active.
Holders ==
    /\ \A w \in Waits :
        /\ w \in done => where[w] \in {"waking", "suspended"}
        /\ w \in pending \cup taken \cup finishing
              => where[w] \in {"waking", "suspended"} /\ w \notin done
        /\ \A d \in Descriptors : w \in active[d] =>
              /\ where[w] \in {"waking", "suspended"} /\ w \notin done
              /\ desc[w] = d
              /\ w \notin pending \cup taken \cup finishing
        /\ where[w] \in {"waking", "suspended"} /\ w \notin done =>
              w \in pending \cup taken \cup finishing \cup active[desc[w]]
    /\ pending \cap taken = {}
    /\ pending \cap finishing = {}
    /\ taken \cap finishing = {}

\* What the place of the thread says of its own variables.
Phases ==
    /\ taken # {} => pc = "register"
    /\ leaving => pc \in {"swap", "register", "cancel", "ended"}
    /\ leaving => stopping
    /\ pc \in {"top", "poll"} => \A d \in Descriptors : got[d] = {}

\* A descriptor is armed for its waits unless its event is still to be
\* processed.
Armed ==
    ~ leaving =>
        \A d \in Descriptors :
            /\ d \in known <=> active[d] # {}
            /\ \/ interest[d] = RequestedEvents(active[d])
               \/ got[d] # {} /\ interest[d] = {}

IInv == Types /\ Holders /\ Phases /\ Armed

-----------------------------------------------------------------------------
(* The fibers and the surroundings *)

LEMMA InitIInv == Init => IInv
<1> SUFFICES ASSUME Init PROVE IInv
    OBVIOUS
<1>1. Types
    BY DEF Init, Types
<1>2. Holders
    BY DEF Init, Holders
<1>3. Phases
    BY DEF Init, Phases
<1>4. Armed
    BY DEF Init, Armed, RequestedEvents
<1> QED BY <1>1, <1>2, <1>3, <1>4 DEF IInv

\* A wait that is not active may be changed without touching what is armed.
LEMMA ArmedKept ==
    ASSUME IInv, UNCHANGED <<loopVars, kernelVars>>,
           \A d \in Descriptors : \A w \in active[d] : asked'[w] = asked[w]
    PROVE  Armed'
<1>1. \A d \in Descriptors : RequestedEvents(active[d])' = RequestedEvents(active[d])
    BY DEF RequestedEvents, loopVars
<1> QED BY <1>1 DEF IInv, Armed, loopVars, kernelVars

LEMMA FibersKeep ==
    ASSUME IInv, NEW w \in Waits,
           Begin(w) \/ Enqueue(w) \/ Wake(w) \/ Return(w) \/ DeadlinePasses(w)
    PROVE  IInv'
<1>1. CASE Begin(w)
    <2>1. Types'
        BY <1>1 DEF Begin, IInv, Types, sharedVars, loopVars, kernelVars
    <2>2. Holders'
        BY <1>1 DEF Begin, IInv, Types, Holders, sharedVars, loopVars
    <2>3. Phases'
        BY <1>1 DEF Begin, IInv, Phases, sharedVars, loopVars
    <2>4. \A d \in Descriptors : \A v \in active[d] : asked'[v] = asked[v]
        BY <1>1 DEF Begin, IInv, Types, Holders
    <2>5. Armed'
        BY <1>1, <2>4, ArmedKept DEF Begin
    <2> QED BY <2>1, <2>2, <2>3, <2>5 DEF IInv
<1>2. CASE Enqueue(w)
    <2>1. Types'
        BY <1>2 DEF Enqueue, IInv, Types, loopVars, kernelVars
    <2>2. Holders'
        BY <1>2 DEF Enqueue, IInv, Types, Holders, loopVars
    <2>3. Phases'
        BY <1>2 DEF Enqueue, IInv, Phases, loopVars
    <2>4. Armed'
        BY <1>2, ArmedKept DEF Enqueue
    <2> QED BY <2>1, <2>2, <2>3, <2>4 DEF IInv
<1>3. CASE Wake(w)
    <2>1. Types'
        BY <1>3 DEF Wake, IInv, Types, loopVars, kernelVars
    <2>2. Holders'
        BY <1>3 DEF Wake, IInv, Types, Holders, loopVars
    <2>3. Phases'
        BY <1>3 DEF Wake, IInv, Phases, loopVars
    <2>4. Armed'
        BY <1>3, ArmedKept DEF Wake
    <2> QED BY <2>1, <2>2, <2>3, <2>4 DEF IInv
<1>4. CASE Return(w)
    <2>1. Types'
        BY <1>4 DEF Return, IInv, Types, sharedVars, loopVars, kernelVars
    <2>2. Holders'
        BY <1>4 DEF Return, IInv, Types, Holders, sharedVars, loopVars
    <2>3. Phases'
        BY <1>4 DEF Return, IInv, Phases, sharedVars, loopVars
    <2>4. Armed'
        BY <1>4, ArmedKept DEF Return
    <2> QED BY <2>1, <2>2, <2>3, <2>4 DEF IInv
<1>5. CASE DeadlinePasses(w)
    <2>1. Types' /\ Holders' /\ Phases'
        BY <1>5 DEF DeadlinePasses, IInv, Types, Holders, Phases, sharedVars,
            loopVars, kernelVars
    <2>2. Armed'
        BY <1>5, ArmedKept DEF DeadlinePasses
    <2> QED BY <2>1, <2>2 DEF IInv
<1> QED BY <1>1, <1>2, <1>3, <1>4, <1>5

LEMMA SurroundingsKeep ==
    ASSUME IInv, StopSet \/ StopWake \/ \E d \in Descriptors : SocketChanges(d)
    PROVE  IInv'
<1>1. CASE StopSet
    <2>1. Types' /\ Holders' /\ Phases'
        BY <1>1 DEF StopSet, IInv, Types, Holders, Phases, fiberVars, loopVars,
            kernelVars
    <2>2. Armed'
        BY <1>1, ArmedKept DEF StopSet, fiberVars
    <2> QED BY <2>1, <2>2 DEF IInv
<1>2. CASE StopWake
    <2>1. Types' /\ Holders' /\ Phases'
        BY <1>2 DEF StopWake, IInv, Types, Holders, Phases, fiberVars, loopVars,
            kernelVars
    <2>2. Armed'
        BY <1>2, ArmedKept DEF StopWake, fiberVars
    <2> QED BY <2>1, <2>2 DEF IInv
<1>3. CASE \E d \in Descriptors : SocketChanges(d)
    <2> PICK d \in Descriptors : SocketChanges(d)
        BY <1>3
    <2>1. Types' /\ Holders' /\ Phases'
        BY DEF SocketChanges, IInv, Types, Holders, Phases, fiberVars,
            sharedVars, loopVars, kernelVars, Events
    <2>2. Armed'
        BY ArmedKept DEF SocketChanges, fiberVars
    <2> QED BY <2>1, <2>2 DEF IInv
<1> QED BY <1>1, <1>2, <1>3

-----------------------------------------------------------------------------
(* The reactor thread *)

\* Late waits leave their descriptors, the others are armed or fail with them.
LEMMA ExpireKeeps ==
    ASSUME IInv, ProcessExpired, finishing = {}, ~ leaving,
           \A d \in Descriptors : got[d] = {},
           UNCHANGED <<fiberVars, sharedVars, leaving, taken, got>>
    PROVE  /\ active' \in [Descriptors -> SUBSET Waits]
           /\ finishing' \subseteq Waits
           /\ known' \subseteq Descriptors
           /\ interest' \in [Descriptors -> SUBSET Events]
           /\ Holders'
           /\ Armed'
<1> DEFINE touched == {d \in Descriptors : active[d] \cap late # {}}
<1> PICK refused \in SUBSET touched :
        LET kept(d) == IF d \in refused THEN {} ELSE active[d] \ late IN
        /\ active' = [d \in Descriptors |-> kept(d)]
        /\ finishing' = UNION {active[d] \ kept(d) : d \in Descriptors}
        /\ known' = known \ {d \in touched : kept(d) = {}}
        /\ interest' = [d \in Descriptors |->
               IF d \in touched THEN RequestedEvents(kept(d))
                                ELSE interest[d]]
    BY DEF ProcessExpired
<1>1. \A d \in Descriptors :
          active'[d] = IF d \in refused THEN {} ELSE active[d] \ late
    OBVIOUS
<1>2. \A w : w \in finishing' <=>
          \E d \in Descriptors : w \in active[d] /\ w \notin active'[d]
    BY <1>1
<1>3. active' \in [Descriptors -> SUBSET Waits]
    BY DEF IInv, Types
<1>4. finishing' \subseteq Waits
    BY <1>2 DEF IInv, Types
<1>5. known' \subseteq Descriptors
    BY DEF IInv, Types
<1>6. \A W \in SUBSET Waits : RequestedEvents(W) \subseteq Events
    BY DEF RequestedEvents, IInv, Types
<1>7. interest' \in [Descriptors -> SUBSET Events]
    BY <1>6 DEF IInv, Types
<1>8. Holders'
    BY <1>1, <1>2 DEF IInv, Types, Holders, fiberVars, sharedVars
<1>9. Armed'
    <2> SUFFICES ASSUME NEW d \in Descriptors
                 PROVE  /\ d \in known' <=> active'[d] # {}
                        /\ interest'[d] = RequestedEvents(active[d])'
        BY DEF Armed
    <2>1. /\ d \in known <=> active[d] # {}
          /\ interest[d] = RequestedEvents(active[d])
        BY DEF IInv, Armed
    <2>2. RequestedEvents(active[d])' = RequestedEvents(active'[d])
        BY DEF RequestedEvents, fiberVars
    <2>3. CASE d \in touched
        BY <1>1, <2>1, <2>2, <2>3
    <2>4. CASE d \notin touched
        <3>1. active'[d] = active[d]
            BY <1>1, <2>4
        <3> QED BY <2>1, <2>2, <2>4, <3>1
    <2> QED BY <2>3, <2>4
<1> QED BY <1>3, <1>4, <1>5, <1>7, <1>8, <1>9

LEMMA LoopKeeps == ASSUME IInv, Loop PROVE IInv'
<1>1. CASE stopping
    <2>1. Types' /\ Holders' /\ Phases'
        BY <1>1 DEF Loop, At, IInv, Types, Holders, Phases, fiberVars,
            sharedVars, kernelVars
    <2>2. Armed'
        BY <1>1 DEF Loop, Armed
    <2> QED BY <2>1, <2>2 DEF IInv
<1>2. CASE ~ stopping
    <2>1. /\ active' \in [Descriptors -> SUBSET Waits]
          /\ finishing' \subseteq Waits
          /\ known' \subseteq Descriptors
          /\ interest' \in [Descriptors -> SUBSET Events]
          /\ Holders'
          /\ Armed'
        BY <1>2, ExpireKeeps DEF Loop, At, IInv, Phases
    <2>2. Types' /\ Phases'
        BY <1>2, <2>1 DEF Loop, At, IInv, Types, Phases, fiberVars, sharedVars
    <2> QED BY <2>1, <2>2 DEF IInv
<1> QED BY <1>1, <1>2

LEMMA EndBatchKeeps == ASSUME IInv, EndBatch PROVE IInv'
<1>1. /\ active' \in [Descriptors -> SUBSET Waits]
      /\ finishing' \subseteq Waits
      /\ known' \subseteq Descriptors
      /\ interest' \in [Descriptors -> SUBSET Events]
      /\ Holders'
      /\ Armed'
    BY ExpireKeeps DEF EndBatch, At, IInv, Phases
<1>2. Types' /\ Phases'
    BY <1>1 DEF EndBatch, At, IInv, Types, Phases, fiberVars, sharedVars
<1> QED BY <1>1, <1>2 DEF IInv

\* An event that is reported leaves its descriptor unarmed until processed.
LEMMA PollKeeps == ASSUME IInv, Poll PROVE IInv'
<1>1. \A d \in Descriptors : Reported(d) \in SUBSET (Events \cup {"hangup"})
    BY DEF Reported, IInv, Types
<1>2. Types' /\ Holders' /\ Phases'
    BY <1>1 DEF Poll, At, IInv, Types, Holders, Phases, fiberVars, sharedVars
<1>3. Armed'
    <2> SUFFICES ASSUME ~ leaving, NEW d \in Descriptors
                 PROVE  /\ d \in known <=> active[d] # {}
                        /\ \/ interest'[d] = RequestedEvents(active[d])
                           \/ got'[d] # {} /\ interest'[d] = {}
        BY DEF Poll, Armed, RequestedEvents, fiberVars
    <2>1. /\ d \in known <=> active[d] # {}
          /\ interest[d] = RequestedEvents(active[d])
        BY DEF Poll, At, IInv, Armed, Phases
    <2>2. /\ got'[d] = Reported(d)
          /\ interest'[d] = IF Reported(d) # {} THEN {} ELSE interest[d]
        BY DEF Poll
    <2> QED BY <2>1, <2>2
<1> QED BY <1>2, <1>3 DEF IInv

\* The steps that leave the loop: nothing is said of what is armed any more.
LEMMA LeavingKeeps == ASSUME IInv, PollFails \/ Cancel PROVE IInv'
<1>1. Active \subseteq Waits
    BY DEF Active, IInv, Types
<1>2. \A w : w \in Active <=> \E d \in Descriptors : w \in active[d]
    BY DEF Active
<1>3. CASE PollFails
    <2>1. Types' /\ Holders' /\ Phases'
        BY <1>1, <1>2, <1>3 DEF PollFails, At, IInv, Types, Holders, Phases,
            fiberVars, kernelVars
    <2>2. Armed'
        BY <1>3 DEF PollFails, Armed
    <2> QED BY <2>1, <2>2 DEF IInv
<1>4. CASE Cancel
    <2>1. Types' /\ Holders' /\ Phases'
        BY <1>1, <1>2, <1>4 DEF Cancel, At, IInv, Types, Holders, Phases,
            fiberVars, sharedVars
    <2>2. Armed'
        BY <1>4 DEF Cancel, Armed, RequestedEvents
    <2> QED BY <2>1, <2>2 DEF IInv
<1> QED BY <1>3, <1>4

\* The steps that only move the thread and the submitted waits along.
LEMMA MovesKeep ==
    ASSUME IInv, DrainControl \/ Swap \/ Registered
    PROVE  IInv'
<1>1. CASE DrainControl
    <2>1. Types' /\ Holders' /\ Phases'
        BY <1>1 DEF DrainControl, At, IInv, Types, Holders, Phases, fiberVars,
            kernelVars
    <2>2. Armed'
        BY <1>1 DEF DrainControl, IInv, Armed, RequestedEvents, fiberVars,
            kernelVars
    <2> QED BY <2>1, <2>2 DEF IInv
<1>2. CASE Swap
    <2>1. Types' /\ Phases'
        BY <1>2 DEF Swap, At, IInv, Types, Phases, fiberVars, kernelVars
    <2>2. Holders'
        BY <1>2 DEF Swap, At, IInv, Types, Holders, Phases, fiberVars
    <2>3. Armed'
        BY <1>2 DEF Swap, IInv, Armed, RequestedEvents, fiberVars, kernelVars
    <2> QED BY <2>1, <2>2, <2>3 DEF IInv
<1>3. CASE Registered
    <2>1. Types' /\ Holders' /\ Phases'
        BY <1>3 DEF Registered, At, IInv, Types, Holders, Phases, fiberVars,
            sharedVars, kernelVars
    <2>2. Armed'
        BY <1>3 DEF Registered, IInv, Armed, RequestedEvents, fiberVars,
            kernelVars
    <2> QED BY <2>1, <2>2 DEF IInv
<1> QED BY <1>1, <1>2, <1>3

\* What Keep makes of one descriptor, armed or refused.
LEMMA KeepArms ==
    ASSUME IInv, NEW d \in Descriptors, NEW W \in SUBSET Waits, Keep(d, W),
           asked' = asked
    PROVE  /\ active' \in [Descriptors -> SUBSET Waits]
           /\ known' \subseteq Descriptors
           /\ interest' \in [Descriptors -> SUBSET Events]
           /\ active'[d] \in {W, {}}
           /\ d \in known' <=> active'[d] # {}
           /\ interest'[d] = RequestedEvents(active[d])'
           /\ \A c \in Descriptors \ {d} :
                 /\ active'[c] = active[c]
                 /\ interest'[c] = interest[c]
                 /\ c \in known' <=> c \in known
<1> PICK kept \in {W, {}} :
        /\ active' = [active EXCEPT ![d] = kept]
        /\ known' = IF kept = {} THEN known \ {d} ELSE known \cup {d}
        /\ interest' = [interest EXCEPT ![d] = RequestedEvents(kept)]
    BY DEF Keep
<1>1. RequestedEvents(kept) \subseteq Events
    BY DEF RequestedEvents, IInv, Types
<1>2. active'[d] = kept
    BY DEF IInv, Types
<1>3. RequestedEvents(active[d])' = RequestedEvents(kept)
    BY <1>2 DEF RequestedEvents
<1> QED BY <1>1, <1>2, <1>3 DEF IInv, Types

LEMMA ProcessReadyKeeps ==
    ASSUME IInv, NEW d \in Descriptors, ProcessReady(d)
    PROVE  IInv'
<1> USE DEF fiberVars, sharedVars
<1>1. CASE active[d] = {}
    <2>1. Types' /\ Holders' /\ Phases'
        BY <1>1 DEF ProcessReady, At, IInv, Types, Holders, Phases
    <2>2. RequestedEvents({}) = {}
        BY DEF RequestedEvents
    <2>3. Armed'
        BY <1>1, <2>2 DEF ProcessReady, At, IInv, Types, Armed, RequestedEvents
    <2> QED BY <2>1, <2>3 DEF IInv
<1>2. CASE active[d] # {}
    <2>1. active[d] \ Answered(d) \in SUBSET Waits
        BY DEF IInv, Types
    <2>2. Keep(d, active[d] \ Answered(d)) /\ finishing' = active[d] \ active'[d]
        BY <1>2 DEF ProcessReady
    <2>3. /\ active' \in [Descriptors -> SUBSET Waits]
          /\ known' \subseteq Descriptors
          /\ interest' \in [Descriptors -> SUBSET Events]
          /\ active'[d] \subseteq active[d]
          /\ d \in known' <=> active'[d] # {}
          /\ interest'[d] = RequestedEvents(active[d])'
          /\ \A c \in Descriptors \ {d} :
                /\ active'[c] = active[c]
                /\ interest'[c] = interest[c]
                /\ c \in known' <=> c \in known
        BY <2>1, <2>2, KeepArms DEF ProcessReady
    <2>4. Types' /\ Phases'
        BY <2>2, <2>3 DEF ProcessReady, At, IInv, Types, Phases
    <2>5. Holders'
        BY <2>2, <2>3 DEF ProcessReady, At, IInv, Types, Holders
    <2>6. Armed'
        <3> SUFFICES ASSUME ~ leaving, NEW c \in Descriptors
                     PROVE  /\ c \in known' <=> active'[c] # {}
                            /\ \/ interest'[c] = RequestedEvents(active[c])'
                               \/ got'[c] # {} /\ interest'[c] = {}
            BY DEF Armed, ProcessReady
        <3>1. CASE c = d
            BY <2>3, <3>1
        <3>2. CASE c # d
            <4>1. got'[c] = got[c] /\ active'[c] = active[c]
                BY <2>3, <3>2 DEF ProcessReady, IInv, Types
            <4>2. RequestedEvents(active[c])' = RequestedEvents(active[c])
                BY <4>1 DEF RequestedEvents, ProcessReady
            <4> QED BY <2>3, <3>2, <4>1, <4>2 DEF IInv, Armed
        <3> QED BY <3>1, <3>2
    <2> QED BY <2>4, <2>5, <2>6 DEF IInv
<1> QED BY <1>1, <1>2

LEMMA RegisterKeeps ==
    ASSUME IInv, NEW w \in Waits, Register(w)
    PROVE  IInv'
<1> USE DEF fiberVars, sharedVars
<1>1. CASE stopping
    <2>1. Types' /\ Holders' /\ Phases'
        BY <1>1 DEF Register, At, IInv, Types, Holders, Phases
    <2>2. Armed'
        BY <1>1 DEF Register, At, IInv, Armed, RequestedEvents
    <2> QED BY <2>1, <2>2 DEF IInv
<1>2. CASE ~ stopping
    <2> PICK d \in Descriptors : d = desc[w]
        BY DEF IInv, Types
    <2>1. active[d] \cup {w} \in SUBSET Waits
        BY DEF IInv, Types
    <2>2. /\ Keep(d, active[d] \cup {w})
          /\ finishing' = (active[d] \cup {w}) \ active'[d]
        BY <1>2 DEF Register
    <2>3. /\ active' \in [Descriptors -> SUBSET Waits]
          /\ known' \subseteq Descriptors
          /\ interest' \in [Descriptors -> SUBSET Events]
          /\ active'[d] \in {active[d] \cup {w}, {}}
          /\ d \in known' <=> active'[d] # {}
          /\ interest'[d] = RequestedEvents(active[d])'
          /\ \A c \in Descriptors \ {d} :
                /\ active'[c] = active[c]
                /\ interest'[c] = interest[c]
                /\ c \in known' <=> c \in known
        BY <2>1, <2>2, KeepArms DEF Register
    <2>4. Types' /\ Phases'
        BY <2>1, <2>2, <2>3 DEF Register, At, IInv, Types, Phases
    <2>5. Holders'
        BY <2>1, <2>2, <2>3 DEF Register, At, IInv, Types, Holders
    <2>6. Armed'
        <3> SUFFICES ASSUME ~ leaving, NEW c \in Descriptors
                     PROVE  /\ c \in known' <=> active'[c] # {}
                            /\ \/ interest'[c] = RequestedEvents(active[c])'
                               \/ got'[c] # {} /\ interest'[c] = {}
            BY DEF Armed, Register
        <3>1. CASE c = d
            BY <2>3, <3>1
        <3>2. CASE c # d
            <4>1. got'[c] = got[c] /\ active'[c] = active[c]
                BY <2>3, <3>2 DEF Register
            <4>2. RequestedEvents(active[c])' = RequestedEvents(active[c])
                BY <4>1 DEF RequestedEvents, Register
            <4> QED BY <2>3, <3>2, <4>1, <4>2 DEF IInv, Armed
        <3> QED BY <3>1, <3>2
    <2> QED BY <2>4, <2>5, <2>6 DEF IInv
<1> QED BY <1>1, <1>2

LEMMA CompleteKeeps ==
    ASSUME IInv, NEW w \in Waits, Complete(w)
    PROVE  IInv'
<1>1. Types' /\ Holders' /\ Phases'
    BY DEF Complete, IInv, Types, Holders, Phases, sharedVars, kernelVars
<1>2. Armed'
    BY DEF Complete, IInv, Armed, RequestedEvents, kernelVars
<1> QED BY <1>1, <1>2 DEF IInv

-----------------------------------------------------------------------------
LEMMA NextIInv == IInv /\ [Next]_vars => IInv'
<1> SUFFICES ASSUME IInv, [Next]_vars PROVE IInv'
    OBVIOUS
<1>1. CASE Reactor
    BY <1>1, LoopKeeps, PollKeeps, MovesKeep, EndBatchKeeps, LeavingKeeps,
        ProcessReadyKeeps, RegisterKeeps, CompleteKeeps DEF Reactor
<1>2. CASE PollFails
    BY <1>2, LeavingKeeps
<1>3. CASE \E w \in Waits : Begin(w) \/ Fiber(w) \/ DeadlinePasses(w)
    BY <1>3, FibersKeep DEF Fiber
<1>4. CASE (\E d \in Descriptors : SocketChanges(d)) \/ StopSet \/ StopWake
    BY <1>4, SurroundingsKeep
<1>5. CASE UNCHANGED vars
    <2>1. Types' /\ Holders' /\ Phases'
        BY <1>5 DEF vars, fiberVars, sharedVars, loopVars, kernelVars, IInv,
            Types, Holders, Phases
    <2>2. Armed'
        BY <1>5, ArmedKept DEF vars, fiberVars
    <2> QED BY <2>1, <2>2 DEF IInv
<1> QED BY <1>1, <1>2, <1>3, <1>4, <1>5 DEF Next

LEMMA Invariance == Spec => []IInv
<1>1. Init => IInv
    BY InitIInv
<1>2. IInv /\ [Next]_vars => IInv'
    BY NextIInv
<1> QED BY <1>1, <1>2, PTL DEF Spec

\* A wait on the stack of a suspended fiber is known to exactly one place of
\* the reactor until its completion, and to none after it.
THEOREM AlwaysOneHolder == Spec => []OneHolder
<1>1. ASSUME IInv PROVE OneHolder
    <2>1. \A w : w \in Active <=> \E d \in Descriptors : w \in active[d]
        BY DEF Active
    <2>2. \A w \in Waits : desc[w] \in Descriptors
        BY <1>1 DEF IInv, Types
    <2>3. Outstanding = pending \cup taken \cup Active \cup finishing
        BY <1>1, <2>1, <2>2 DEF Outstanding, IInv, Types, Holders
    <2>4. /\ pending \cap (taken \cup Active \cup finishing) = {}
          /\ taken \cap (Active \cup finishing) = {}
          /\ Active \cap finishing = {}
        BY <1>1, <2>1 DEF IInv, Types, Holders
    <2>5. \A w \in Active : w \in active[desc[w]]
        BY <1>1, <2>1 DEF IInv, Types, Holders
    <2> QED BY <2>3, <2>4, <2>5 DEF OneHolder
<1> QED BY <1>1, Invariance, PTL

\* The kernel watches exactly what the waits ask for whenever the thread may
\* sleep, for any number of waits at a descriptor.
THEOREM AlwaysArmedExactly == Spec => []ArmedExactly
<1>1. IInv => ArmedExactly
    BY DEF IInv, Phases, Armed, ArmedExactly
<1> QED BY <1>1, Invariance, PTL
=============================================================================
