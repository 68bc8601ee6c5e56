---------------------------- MODULE SocketReactor ----------------------------
(***************************************************************************)
(* The epoll reactor (Absolute-Runtime/src/socket_reactor.cpp,             *)
(* EpollReactor and WaitSocketReady): fibers submit waits for a socket to  *)
(* become readable or writable, one thread registers them with the kernel  *)
(* one-shot and completes each when it is ready, late, refused or          *)
(* cancelled.  A wait is an object on the stack of the suspended fiber:    *)
(* once completed it is gone.  The thread works on structures of its own;  *)
(* what it shares is pending (under the mutex), the control eventfd and    *)
(* stopping.  A refused epoll_ctl may happen at any time.  Which result a  *)
(* wait gets is left out, and so is an epoll_wait interrupted by a signal, *)
(* after which the loop starts over.                                       *)
(***************************************************************************)
EXTENDS FiniteSets

CONSTANTS
    Waits,        \* the fibers, each with at most one wait
    Descriptors   \* the sockets

VARIABLES
    where,        \* how far each fiber is in WaitSocketReady
    desc, asked,  \* SocketWait::descriptor and ::requested of each wait
    done,         \* waits whose completion has been called
    late,         \* waits whose deadline has passed
    pending,      \* waits submitted, in EpollReactor::pending
    control,      \* the control eventfd is readable
    stopping,
    stopper,      \* how far the destructor is
    pc,           \* where the reactor thread is
    leaving,      \* it has left the loop
    taken,        \* registrations of ProcessPending still to do
    active,       \* DescriptorWaits of each descriptor
    finishing,    \* waits taken out, their completion still to be called
    got,          \* events of this epoll_wait still to process, by descriptor
    gotControl,   \* the control event is among them
    known,        \* the kernel's: the descriptors registered
    interest,     \* the kernel's: the events armed, {} once one has fired
    ready         \* the kernel's: what each socket is ready for

fiberVars == <<where, desc, asked, done, late>>
sharedVars == <<pending, control, stopping, stopper>>
loopVars == <<pc, leaving, taken, active, finishing, got, gotControl>>
kernelVars == <<known, interest>>
vars == <<fiberVars, sharedVars, loopVars, kernelVars, ready>>

Events == {"read", "write"}

Init ==
    /\ where = [w \in Waits |-> "idle"]
    /\ desc \in [Waits -> Descriptors]
    /\ asked \in [Waits -> Events]
    /\ done = {} /\ late = {} /\ pending = {}
    /\ control = FALSE /\ stopping = FALSE /\ stopper = "no"
    /\ pc = "top" /\ leaving = FALSE
    /\ taken = {} /\ finishing = {}
    /\ active = [d \in Descriptors |-> {}]
    /\ got = [d \in Descriptors |-> {}]
    /\ gotControl = FALSE
    /\ known = {}
    /\ interest = [d \in Descriptors |-> {}]
    /\ ready = [d \in Descriptors |-> {}]

-----------------------------------------------------------------------------
(* The fibers: WaitSocketReady, SuspendForIo, Submit *)

\* The first look at stopping, without the mutex.  A refused wait is completed
\* on the spot.
Begin(w) ==
    /\ where[w] = "idle"
    /\ ~ stopping
    /\ \E d \in Descriptors, e \in Events :
        /\ desc' = [desc EXCEPT ![w] = d]
        /\ asked' = [asked EXCEPT ![w] = e]
    /\ where' = [where EXCEPT ![w] = "submitting"]
    /\ UNCHANGED <<done, late, sharedVars, loopVars, kernelVars, ready>>

\* A definition marked Fault is a broken variant of the one that follows it.

\* Fault: stopping is not looked at again under the mutex.
EnqueueUnchecked(w) ==
    /\ where[w] = "submitting"
    /\ pending' = pending \cup {w}
    /\ where' = [where EXCEPT ![w] = "waking"]
    /\ UNCHANGED <<desc, asked, done, late, control, stopping, stopper,
                   loopVars, kernelVars, ready>>

\* Under the mutex.
Enqueue(w) ==
    /\ where[w] = "submitting"
    /\ IF stopping
         THEN /\ where' = [where EXCEPT ![w] = "suspended"]
              /\ done' = done \cup {w}
              /\ UNCHANGED pending
         ELSE /\ where' = [where EXCEPT ![w] = "waking"]
              /\ pending' = pending \cup {w}
              /\ UNCHANGED done
    /\ UNCHANGED <<desc, asked, late, control, stopping, stopper, loopVars,
                   kernelVars, ready>>

Wake(w) ==
    /\ where[w] = "waking"
    /\ where' = [where EXCEPT ![w] = "suspended"]
    /\ control' = TRUE
    /\ UNCHANGED <<desc, asked, done, late, pending, stopping, stopper,
                   loopVars, kernelVars, ready>>

\* The fiber runs on and its wait is gone.
Return(w) ==
    /\ where[w] = "suspended"
    /\ w \in done
    /\ where' = [where EXCEPT ![w] = "idle"]
    /\ done' = done \ {w}
    /\ late' = late \ {w}
    /\ UNCHANGED <<desc, asked, sharedVars, loopVars, kernelVars, ready>>

\* The destructor: stopping, then Wake.
StopSet ==
    /\ stopper = "no"
    /\ stopper' = "set"
    /\ stopping' = TRUE
    /\ UNCHANGED <<fiberVars, pending, control, loopVars, kernelVars, ready>>

StopWake ==
    /\ stopper = "set"
    /\ stopper' = "woke"
    /\ control' = TRUE
    /\ UNCHANGED <<fiberVars, pending, stopping, loopVars, kernelVars, ready>>

-----------------------------------------------------------------------------
(* The surroundings: sockets become ready, or no longer are; time passes *)

SocketChanges(d) ==
    /\ \E e \in Events \cup {"hangup"} :
        LET R == (ready[d] \ {e}) \cup ({e} \ ready[d])
        IN  /\ R \subseteq Events \/ R = {"hangup"}
            /\ ready' = [ready EXCEPT ![d] = R]
    /\ UNCHANGED <<fiberVars, sharedVars, loopVars, kernelVars>>

DeadlinePasses(w) ==
    /\ where[w] # "idle"
    /\ w \notin late \cup done
    /\ late' = late \cup {w}
    /\ UNCHANGED <<where, desc, asked, done, sharedVars, loopVars, kernelVars,
                   ready>>

-----------------------------------------------------------------------------
(* The reactor thread *)

RequestedEvents(W) == {asked[w] : w \in W}

\* Nothing else is done while completions are to be called.
At(p) == pc = p /\ finishing = {}

Active == UNION {active[d] : d \in Descriptors}

\* Descriptor d keeps the waits W: they are armed together, or the kernel
\* refuses and none is kept.  The others are to be completed.
Keep(d, W) ==
    \E kept \in {W, {}} :
        /\ active' = [active EXCEPT ![d] = kept]
        /\ known' = IF kept = {} THEN known \ {d} ELSE known \cup {d}
        /\ interest' = [interest EXCEPT ![d] = RequestedEvents(kept)]

\* Fault: waits of a descriptor stay after a late one left, but not armed.
ExpireUnarmed ==
    /\ active' = [d \in Descriptors |-> active[d] \ late]
    /\ finishing' = Active \cap late
    /\ UNCHANGED kernelVars

\* Late waits are taken out; what remains at their descriptors is armed anew,
\* or fails with them where the kernel refuses.
ProcessExpired ==
    LET touched == {d \in Descriptors : active[d] \cap late # {}} IN
    \E refused \in SUBSET touched :
        LET kept(d) == IF d \in refused THEN {} ELSE active[d] \ late IN
        /\ active' = [d \in Descriptors |-> kept(d)]
        /\ finishing' = UNION {active[d] \ kept(d) : d \in Descriptors}
        /\ known' = known \ {d \in touched : kept(d) = {}}
        /\ interest' = [d \in Descriptors |->
               IF d \in touched THEN RequestedEvents(kept(d))
                                ELSE interest[d]]

Loop ==
    /\ At("top")
    /\ IF stopping
         THEN /\ pc' = "swap" /\ leaving' = TRUE
              /\ UNCHANGED <<active, finishing>> /\ UNCHANGED kernelVars
         ELSE /\ pc' = "poll"
              /\ ProcessExpired
              /\ UNCHANGED leaving
    /\ UNCHANGED <<fiberVars, sharedVars, taken, got, gotControl, ready>>

\* What epoll_wait would report of d.
Reported(d) ==
    IF interest[d] = {} THEN {} ELSE ready[d] \cap (interest[d] \cup {"hangup"})

\* epoll_wait returns with events, each of which fires a registration, or
\* because a deadline has passed.
Poll ==
    /\ At("poll")
    /\ control \/ Active \cap late # {} \/ \E d \in Descriptors : Reported(d) # {}
    /\ got' = [d \in Descriptors |-> Reported(d)]
    /\ gotControl' = control
    /\ interest' = [d \in Descriptors |->
           IF Reported(d) # {} THEN {} ELSE interest[d]]
    /\ pc' = "batch"
    /\ UNCHANGED <<fiberVars, sharedVars, leaving, taken, active, finishing,
                   known, ready>>

\* Fault: CancelActive leaves the waits in active.
PollFailsKeeping ==
    /\ At("poll")
    /\ stopping' = TRUE
    /\ finishing' = Active
    /\ leaving' = TRUE
    /\ pc' = "swap"
    /\ UNCHANGED <<fiberVars, pending, control, stopper, taken, active, got,
                   gotControl, kernelVars, ready>>

\* epoll_wait fails: CancelActive, then ProcessPending, and the thread ends.
PollFails ==
    /\ At("poll")
    /\ stopping' = TRUE
    /\ finishing' = Active
    /\ active' = [d \in Descriptors |-> {}]
    /\ leaving' = TRUE
    /\ pc' = "swap"
    /\ UNCHANGED <<fiberVars, pending, control, stopper, taken, got,
                   gotControl, kernelVars, ready>>

\* The waits the event answers.
Answered(d) ==
    {w \in active[d] : "hangup" \in got[d] \/ asked[w] \in got[d]}

\* Fault: the waits that remain are not armed again.
ReadyUnarmed(d) ==
    /\ At("batch")
    /\ got[d] # {}
    /\ got' = [got EXCEPT ![d] = {}]
    /\ finishing' = Answered(d)
    /\ active' = [active EXCEPT ![d] = @ \ Answered(d)]
    /\ known' = IF active[d] = Answered(d) THEN known \ {d} ELSE known
    /\ UNCHANGED <<fiberVars, sharedVars, pc, leaving, taken, gotControl,
                   interest, ready>>

\* They are taken out, and the others armed again.
ProcessReady(d) ==
    /\ At("batch")
    /\ got[d] # {}
    /\ got' = [got EXCEPT ![d] = {}]
    /\ IF active[d] = {}
         THEN UNCHANGED <<active, finishing, known, interest>>
         ELSE /\ Keep(d, active[d] \ Answered(d))
              /\ finishing' = active[d] \ active'[d]
    /\ UNCHANGED <<fiberVars, sharedVars, pc, leaving, taken, gotControl,
                   ready>>

DrainControl ==
    /\ At("batch")
    /\ gotControl
    /\ gotControl' = FALSE
    /\ control' = FALSE
    /\ pc' = "swap"
    /\ UNCHANGED <<fiberVars, pending, stopping, stopper, leaving, taken,
                   active, finishing, got, kernelVars, ready>>

\* ProcessPending: under the mutex.
Swap ==
    /\ At("swap")
    /\ taken' = pending
    /\ pending' = {}
    /\ pc' = "register"
    /\ UNCHANGED <<fiberVars, control, stopping, stopper, leaving, active,
                   finishing, got, gotControl, kernelVars, ready>>

\* ProcessPending: one registration.
Register(w) ==
    LET d == desc[w] IN
    /\ At("register")
    /\ w \in taken
    /\ taken' = taken \ {w}
    /\ IF stopping
         THEN /\ finishing' = {w}
              /\ UNCHANGED <<active, known, interest>>
         ELSE /\ Keep(d, active[d] \cup {w})
              /\ finishing' = (active[d] \cup {w}) \ active'[d]
              \* ADD needs a descriptor the kernel does not know, MOD one it
              \* knows.
              /\ (active[d] = {}) = (d \in known) => active'[d] = {}
    /\ UNCHANGED <<fiberVars, sharedVars, pc, leaving, got, gotControl, ready>>

Registered ==
    /\ At("register")
    /\ taken = {}
    /\ pc' = IF leaving THEN "cancel" ELSE "batch"
    /\ UNCHANGED <<fiberVars, sharedVars, leaving, taken, active, finishing,
                   got, gotControl, kernelVars, ready>>

\* All events are processed; ProcessExpired before the loop starts over.
EndBatch ==
    /\ At("batch")
    /\ ~ gotControl
    /\ \A d \in Descriptors : got[d] = {}
    /\ pc' = "top"
    /\ ProcessExpired
    /\ UNCHANGED <<fiberVars, sharedVars, leaving, taken, got, gotControl,
                   ready>>

\* CancelActive; the thread ends and epoll with it.
Cancel ==
    /\ At("cancel")
    /\ finishing' = Active
    /\ active' = [d \in Descriptors |-> {}]
    /\ known' = {}
    /\ interest' = [d \in Descriptors |-> {}]
    /\ pc' = "ended"
    /\ UNCHANGED <<fiberVars, sharedVars, leaving, taken, got, gotControl,
                   ready>>

\* Complete: the last access to the wait.
Complete(w) ==
    /\ w \in finishing
    /\ finishing' = finishing \ {w}
    /\ done' = done \cup {w}
    /\ UNCHANGED <<where, desc, asked, late, sharedVars, pc, leaving, taken,
                   active, got, gotControl, kernelVars, ready>>

-----------------------------------------------------------------------------
Reactor ==
    \/ Loop \/ Poll \/ DrainControl \/ Swap \/ Registered \/ EndBatch \/ Cancel
    \/ \E d \in Descriptors : ProcessReady(d)
    \/ \E w \in Waits : Register(w) \/ Complete(w)

Fiber(w) == Enqueue(w) \/ Wake(w) \/ Return(w)

Next ==
    \/ Reactor
    \/ PollFails
    \/ \E w \in Waits : Begin(w) \/ Fiber(w) \/ DeadlinePasses(w)
    \/ \E d \in Descriptors : SocketChanges(d)
    \/ StopSet
    \/ StopWake

Spec == Init /\ [][Next]_vars

\* The reactor thread runs, a fiber in WaitSocketReady goes on, a destructor
\* that has begun too.
FairSpec ==
    /\ Spec
    /\ WF_vars(Reactor)
    /\ WF_vars(StopWake)
    /\ \A w \in Waits : WF_vars(Fiber(w))

-----------------------------------------------------------------------------
(* Properties *)

\* The waits of fibers that have submitted and not been completed.
Outstanding == {w \in Waits : where[w] \in {"waking", "suspended"}} \ done

\* Every such wait is in exactly one place and no other wait is in any: each
\* is completed once, and none is touched after its fiber was let go.
OneHolder ==
    /\ Outstanding = pending \cup taken \cup Active \cup finishing
    /\ pending \cap (taken \cup Active \cup finishing) = {}
    /\ taken \cap (Active \cup finishing) = {}
    /\ Active \cap finishing = {}
    /\ \A w \in Active : w \in active[desc[w]]

\* Whenever the thread may sleep in epoll_wait, the kernel watches each
\* descriptor for what its waits ask for, and no other descriptor: readiness
\* is never missed, and a descriptor whose last wait is gone can be closed and
\* its number used again.
ArmedExactly ==
    pc = "poll" =>
        \A d \in Descriptors :
            /\ interest[d] = RequestedEvents(active[d])
            /\ d \in known <=> active[d] # {}

\* A wait that is late, or to be cancelled, comes back to its fiber.
EndsInTime ==
    \A w \in Waits :
        w \in Outstanding /\ (w \in late \/ stopping) ~> w \notin Outstanding

\* A wait whose socket is ready comes back to its fiber, unless the socket
\* ceases to be ready first.
ReadyIsSeen ==
    \A w \in Waits :
        w \in Outstanding /\ asked[w] \in ready[desc[w]]
            ~> w \notin Outstanding \/ asked[w] \notin ready[desc[w]]
=============================================================================
