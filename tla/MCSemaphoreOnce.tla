-------------------------- MODULE MCSemaphoreOnce ---------------------------
(* Instances of Semaphore and of Once for TLC: the initial state decides    *)
(* which of the two objects the processes of a behaviour share; the other   *)
(* is left alone.                                                           *)
EXTENDS Semaphore, Once

objectVars == <<procVars, permits, onceState>>

OnSemaphore == \A p \in Procs : op[p] \in SemOps

Init ==
    \/ SemInit /\ state = "idle" /\ running = {} /\ returned = {}
    \/ OnceInit /\ permits = 0

Next ==
    \/ OnSemaphore /\ SemNext /\ UNCHANGED onceState
    \/ ~ OnSemaphore /\ OnceNext /\ UNCHANGED permits

Continue(p) ==
    \/ OnSemaphore /\ SemContinue(p) /\ UNCHANGED onceState
    \/ ~ OnSemaphore /\ OnceContinue(p) /\ UNCHANGED permits

\* The fairness of SemFairSpec and OnceFairSpec.
FairSpec ==
    Init /\ [][Next]_objectVars /\ \A p \in Procs : WF_objectVars(Continue(p))
=============================================================================
