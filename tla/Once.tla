-------------------------------- MODULE Once --------------------------------
(***************************************************************************)
(* Exactly-once initialization (Absolute-Runtime/src/tasks.cpp,            *)
(* absolute_once_begin and the others, and the wrapper Once.call of        *)
(* std/concurrent.abs): the caller that begins runs the initializer and    *)
(* then completes, or resets when the initializer throws.                  *)
(***************************************************************************)
EXTENDS Blocking

VARIABLES
    state,        \* OnceImpl::state
    running,      \* the callers inside the initializer
    returned      \* the callers whose call has returned normally

onceState == <<state, running, returned>>
onceVars == <<procVars, onceState>>

OnceOps == {"begin", "end"}

OnceInit ==
    /\ AllIdle("begin")
    /\ state = "idle"
    /\ running = {}
    /\ returned = {}

Call(p) ==
    /\ p \notin running
    /\ Enter(p, "begin")
    /\ returned' = returned \ {p}
    /\ UNCHANGED <<state, running>>

\* A definition marked Fault is a broken variant of the one that follows it.

\* Fault: only a running initializer keeps a caller from initializing.
BeginAgain(p) ==
    /\ Tries(p, "begin")
    /\ state # "running"
    /\ state' = "running"
    /\ running' = running \cup {p}
    /\ Leave(p)
    /\ UNCHANGED returned

\* absolute_once_begin returns true: the caller is to run the initializer.
Begin(p) ==
    /\ Tries(p, "begin")
    /\ state = "idle"
    /\ state' = "running"
    /\ running' = running \cup {p}
    /\ Leave(p)
    /\ UNCHANGED returned

\* Fault: a caller that finds the initializer running goes on without it.
BeginSkipsRunning(p) ==
    /\ Tries(p, "begin")
    /\ state # "idle"
    /\ returned' = returned \cup {p}
    /\ Leave(p)
    /\ UNCHANGED <<state, running>>

\* It returns false: the initializer has run.
BeginComplete(p) ==
    /\ Tries(p, "begin")
    /\ state = "complete"
    /\ returned' = returned \cup {p}
    /\ Leave(p)
    /\ UNCHANGED <<state, running>>

BeginBlocks(p) ==
    /\ Tries(p, "begin")
    /\ state = "running"
    /\ Wait(p)
    /\ UNCHANGED onceState

\* Fault: one of the waiters is popped.
PopsOneCaller(S) == PoppedFrom(S, "begin", 1)

PopsAll(S) == S = Waiters("begin")

\* The initializer has ended; the state becomes s.
End(p, s) ==
    /\ pc[p] = "idle"
    /\ p \in running
    /\ state = "running"
    /\ state' = s
    /\ running' = running \ {p}
    /\ \E S \in SUBSET Waiters("begin") : PopsAll(S) /\ Signal(p, "end", S)

Complete(p) == End(p, "complete") /\ returned' = returned \cup {p}
Reset(p)    == End(p, "idle") /\ UNCHANGED returned

OnceNotify(p) == NotifyAll(p, {"begin"}) /\ UNCHANGED onceState
OnceWake(p)   == (ResumeOne(p) \/ Resumed(p)) /\ UNCHANGED onceState

OnceContinue(p) ==
    \/ Begin(p) \/ BeginComplete(p) \/ BeginBlocks(p)
    \/ Complete(p) \/ Reset(p)
    \/ OnceNotify(p)
    \/ OnceWake(p)

OnceNext ==
    \E p \in Procs :
        \/ Call(p)
        \/ OnceContinue(p)
        \/ SpuriousWake(p) /\ UNCHANGED onceState

\* A call that has begun goes on, and an initializer ends.
OnceSpec     == OnceInit /\ [][OnceNext]_onceVars
OnceFairSpec == OnceSpec /\ \A p \in Procs : WF_onceVars(OnceContinue(p))

-----------------------------------------------------------------------------
(* Properties *)

\* The types; in particular one caller, and no other, is inside the initializer
\* exactly while the state says so.
OnceTypeOK ==
    /\ ProcsOK(OnceOps)
    /\ state \in {"idle", "running", "complete"}
    /\ running \subseteq Procs
    /\ returned \subseteq Procs
    /\ Cardinality(running) = IF state = "running" THEN 1 ELSE 0

\* Once the initializer has succeeded it is never run again, whoever was on
\* the way to it.
ExactlyOnce == [][state = "complete" => running' = {} /\ state' = "complete"]_onceVars

\* Nobody returns from Once.call before the initializer has succeeded.
ReturnsInitialized == returned # {} => state = "complete"

\* Nobody waits for ever: when an initializer throws, a waiter tries again.
CallersGoOn == \A p \in Procs : p \in Blocked("begin") ~> p \notin Blocked("begin")
=============================================================================
